---------------------------- MODULE CritSecProofs ----------------------------
(***************************************************************************)
(* Proofs about the critical sections, for any number of threads and any   *)
(* depth that one byte can count.                                          *)
(***************************************************************************)
EXTENDS CritSec, TLAPS

(* The inductive invariant.  Exclusion is not inductive by itself: it takes *)
(* that interrupts are masked while the running context is in a section,    *)
(* that everyone else was interrupted outside of sections, and that a       *)
(* context on its way in has found room for one more level, which nobody    *)
(* takes from it.                                                           *)

Types ==
    /\ critical_section_depth \in 0 .. J_MAX_CRIT_SEC_DEPTH
    /\ OS_curr \in Threads
    /\ at \in [Contexts -> Points]
    /\ nest \in [Contexts -> 0 .. J_MAX_CRIT_SEC_DEPTH]
    /\ fault \in {"none", "too deep", "underflow"}

Booleans == primask \in BOOLEAN /\ handling \in BOOLEAN

Masked  == primask <=> Protected(Active)
Counted == critical_section_depth = nest[Active]
Alone   == \A c \in Contexts : Protected(c) => c = Active
Room    == \A c \in Contexts :
              at[c] \in {"disable", "count"} => nest[c] < J_MAX_CRIT_SEC_DEPTH
Rest    == ~handling => at[SysTick] = "body" /\ nest[SysTick] = 0

IInv == Types /\ Booleans /\ Masked /\ Counted /\ Alone /\ Room /\ Rest

\* The parts of the invariant that the component's module names are these.
LEMMA Parts ==
    /\ TypeOK <=> Types /\ Booleans
    /\ MaskedIffProtected <=> Masked /\ Counted
  BY DEF TypeOK, Types, Booleans, MaskedIffProtected, Masked, Counted

\* The processor is always given to one of the contexts.
LEMMA ActiveIsContext ==
    ASSUME Types
    PROVE  /\ Active \in Contexts /\ OS_curr \in Contexts /\ SysTick \in Contexts
           /\ nest[Active] \in 0 .. J_MAX_CRIT_SEC_DEPTH
           /\ at[Active] \in Points
  BY DEF Types, Active, Contexts

\* There is room for one section, and a byte can count them all.
LEMMA DepthFits == J_MAX_CRIT_SEC_DEPTH \in 1 .. 255 /\ SysTick \notin Threads
  BY CritSecAssumption DEF CritSecAssumption

\* A context that is not protected is in no section.
LEMMA OutsideNestsNothing ==
    ASSUME Types, NEW c \in Contexts, ~Protected(c)
    PROVE  nest[c] = 0
<1>1. nest[c] \in 0 .. J_MAX_CRIT_SEC_DEPTH
  BY DEF Types
<1>2. ~(nest[c] > 0)
  BY DEF Protected
<1> QED BY <1>1, <1>2, DepthFits

\* J_crit_sec_init establishes the invariant.
LEMMA InitInv == J_crit_sec_init => IInv
<1> SUFFICES ASSUME J_crit_sec_init PROVE IInv
  OBVIOUS
<1>1. Types
  BY DepthFits DEF J_crit_sec_init, Types, Points
<1>2. Booleans /\ Rest
  BY DEF J_crit_sec_init, Booleans, Rest, Contexts
<1>3. Active \in Contexts /\ \A c \in Contexts : ~Protected(c) /\ nest[c] = 0
  BY DEF J_crit_sec_init, Active, Contexts, Protected
<1>4. Masked /\ Counted /\ Alone
  BY <1>3 DEF J_crit_sec_init, Masked, Counted, Alone
<1>5. Room
  BY DEF J_crit_sec_init, Room
<1> QED BY <1>1, <1>2, <1>3, <1>4, <1>5 DEF IInv

\* Each instruction of J_crit_sec_start keeps it.
LEMMA StartKeepsInv ==
    ASSUME IInv, NEW c \in Contexts,
           Start_check(c) \/ Start_disable(c) \/ Start_count(c)
    PROVE  IInv'
<1>0. Types
  BY DEF IInv
<1>1. CASE Start_check(c)
  <2>0. /\ Active' = Active /\ c = Active
        /\ critical_section_depth = nest[c]
    BY <1>1 DEF Start_check, Executes, Active, IInv, Counted
  <2>1. Types'
    BY <1>0, <1>1, <2>0, ActiveIsContext, DepthFits DEF Start_check, Executes, IInv, Types, Points
  <2>2. Booleans'
    BY <1>0, <1>1, <2>0, ActiveIsContext, DepthFits DEF Start_check, Executes, IInv, Booleans
  <2>3. Masked'
    <3>1. Protected(c)' <=> Protected(c)
      BY <1>0, <1>1, <2>0, ActiveIsContext, DepthFits DEF Start_check, Executes, Protected, Types
    <3>2. primask' <=> Protected(c)
      BY <1>0, <1>1, <2>0, ActiveIsContext, DepthFits
         DEF Start_check, Executes, IInv, Masked, Protected
    <3> QED BY <2>0, <3>1, <3>2 DEF Start_check, Masked, Protected
  <2>4. Counted'
    BY <1>0, <1>1, <2>0, ActiveIsContext, DepthFits DEF Start_check, Executes, IInv, Counted, Types
  <2>5. Alone'
    BY <1>0, <1>1, <2>0, ActiveIsContext, DepthFits DEF Start_check, Executes, IInv, Alone, Protected, Types
  <2>6. Room'
    BY <1>0, <1>1, <2>0, ActiveIsContext, DepthFits DEF Start_check, Executes, IInv, Room, Types
  <2>7. Rest'
    <3>1. ~handling => c # SysTick
      BY <1>0, <2>0, DepthFits DEF Active, Types
    <3>2. handling' = handling
      BY <1>1 DEF Start_check
    <3>3. c # SysTick => at'[SysTick] = at[SysTick] /\ nest'[SysTick] = nest[SysTick]
      BY <1>0, <1>1, ActiveIsContext DEF Start_check, Types
    <3>4. ~handling => at[SysTick] = "body" /\ nest[SysTick] = 0
      BY DEF IInv, Rest
    <3> QED BY <3>1, <3>2, <3>3, <3>4, Zenon DEF Rest
  <2> QED BY <2>1, <2>2, <2>3, <2>4, <2>5, <2>6, <2>7 DEF IInv
<1>2. CASE Start_disable(c)
  <2>0. /\ Active' = Active /\ c = Active
        /\ critical_section_depth = nest[c]
    BY <1>2 DEF Start_disable, Executes, Active, IInv, Counted
  <2>1. Types'
    BY <1>0, <1>2, <2>0, ActiveIsContext, DepthFits DEF Start_disable, Executes, IInv, Types, Points
  <2>2. Booleans'
    BY <1>0, <1>2, <2>0, ActiveIsContext, DepthFits DEF Start_disable, Executes, IInv, Booleans
  <2>3. Masked'
    <3>1. Protected(c)' <=> TRUE
      BY <1>0, <1>2, <2>0, ActiveIsContext, DepthFits DEF Start_disable, Executes, Protected, Types
    <3>2. primask' <=> TRUE
      BY <1>0, <1>2, <2>0, ActiveIsContext, DepthFits
         DEF Start_disable, Executes, IInv, Masked, Protected
    <3> QED BY <2>0, <3>1, <3>2 DEF Start_disable, Masked, Protected
  <2>4. Counted'
    BY <1>0, <1>2, <2>0, ActiveIsContext, DepthFits DEF Start_disable, Executes, IInv, Counted, Types
  <2>5. Alone'
    BY <1>0, <1>2, <2>0, ActiveIsContext, DepthFits DEF Start_disable, Executes, IInv, Alone, Protected, Types
  <2>6. Room'
    BY <1>0, <1>2, <2>0, ActiveIsContext, DepthFits DEF Start_disable, Executes, IInv, Room, Types
  <2>7. Rest'
    <3>1. ~handling => c # SysTick
      BY <1>0, <2>0, DepthFits DEF Active, Types
    <3>2. handling' = handling
      BY <1>2 DEF Start_disable
    <3>3. c # SysTick => at'[SysTick] = at[SysTick] /\ nest'[SysTick] = nest[SysTick]
      BY <1>0, <1>2, ActiveIsContext DEF Start_disable, Types
    <3>4. ~handling => at[SysTick] = "body" /\ nest[SysTick] = 0
      BY DEF IInv, Rest
    <3> QED BY <3>1, <3>2, <3>3, <3>4, Zenon DEF Rest
  <2> QED BY <2>1, <2>2, <2>3, <2>4, <2>5, <2>6, <2>7 DEF IInv
<1>3. CASE Start_count(c)
  <2>0. /\ Active' = Active /\ c = Active
        /\ critical_section_depth = nest[c]
        /\ (critical_section_depth + 1) % 256 = nest[c] + 1
        /\ nest[c] + 1 \in 0 .. J_MAX_CRIT_SEC_DEPTH
    <3>1. Active' = Active /\ c = Active /\ critical_section_depth = nest[c]
      BY <1>3 DEF Start_count, Executes, Active, IInv, Counted
    <3>2. nest[c] \in 0 .. 254 /\ nest[c] < J_MAX_CRIT_SEC_DEPTH
      BY <1>0, <1>3, DepthFits, ActiveIsContext
         DEF Start_count, Executes, IInv, Room, Types
    <3> QED BY <3>1, <3>2, DepthFits
  <2>1. Types'
    BY <1>0, <1>3, <2>0, ActiveIsContext, DepthFits DEF Start_count, Executes, IInv, Types, Points
  <2>2. Booleans'
    BY <1>0, <1>3, <2>0, ActiveIsContext, DepthFits DEF Start_count, Executes, IInv, Booleans
  <2>3. Masked'
    <3>1. Protected(c)' <=> TRUE
      BY <1>0, <1>3, <2>0, ActiveIsContext, DepthFits DEF Start_count, Executes, Protected, Types
    <3>2. primask' <=> TRUE
      BY <1>0, <1>3, <2>0, ActiveIsContext, DepthFits
         DEF Start_count, Executes, IInv, Masked, Protected
    <3> QED BY <2>0, <3>1, <3>2 DEF Start_count, Masked, Protected
  <2>4. Counted'
    BY <1>0, <1>3, <2>0, ActiveIsContext, DepthFits DEF Start_count, Executes, IInv, Counted, Types
  <2>5. Alone'
    BY <1>0, <1>3, <2>0, ActiveIsContext, DepthFits DEF Start_count, Executes, IInv, Alone, Protected, Types
  <2>6. Room'
    BY <1>0, <1>3, <2>0, ActiveIsContext, DepthFits DEF Start_count, Executes, IInv, Room, Types
  <2>7. Rest'
    <3>1. ~handling => c # SysTick
      BY <1>0, <2>0, DepthFits DEF Active, Types
    <3>2. handling' = handling
      BY <1>3 DEF Start_count
    <3>3. c # SysTick => at'[SysTick] = at[SysTick] /\ nest'[SysTick] = nest[SysTick]
      BY <1>0, <1>3, ActiveIsContext DEF Start_count, Types
    <3>4. ~handling => at[SysTick] = "body" /\ nest[SysTick] = 0
      BY DEF IInv, Rest
    <3> QED BY <3>1, <3>2, <3>3, <3>4, Zenon DEF Rest
  <2> QED BY <2>1, <2>2, <2>3, <2>4, <2>5, <2>6, <2>7 DEF IInv
<1> QED BY <1>1, <1>2, <1>3

\* Each instruction of J_crit_sec_end keeps it.
LEMMA EndKeepsInv ==
    ASSUME IInv, NEW c \in Contexts, End_count(c) \/ End_enable(c)
    PROVE  IInv'
<1>0. Types
  BY DEF IInv
<1>1. CASE End_count(c)
  <2>0. /\ Active' = Active /\ c = Active
        /\ critical_section_depth = nest[c]
    BY <1>1 DEF End_count, Executes, Active, IInv, Counted
  <2>1. Types'
    BY <1>0, <1>1, <2>0, ActiveIsContext, DepthFits DEF End_count, Executes, IInv, Types, Points
  <2>2. Booleans'
    BY <1>0, <1>1, <2>0, ActiveIsContext, DepthFits DEF End_count, Executes, IInv, Booleans
  <2>3. Masked'
    <3>1. Protected(c)' <=> TRUE
      BY <1>0, <1>1, <2>0, ActiveIsContext, DepthFits DEF End_count, Executes, Protected, Types
    <3>2. primask' <=> TRUE
      BY <1>0, <1>1, <2>0, ActiveIsContext, DepthFits
         DEF End_count, Executes, IInv, Masked, Protected
    <3> QED BY <2>0, <3>1, <3>2 DEF End_count, Masked, Protected
  <2>4. Counted'
    BY <1>0, <1>1, <2>0, ActiveIsContext, DepthFits DEF End_count, Executes, IInv, Counted, Types
  <2>5. Alone'
    BY <1>0, <1>1, <2>0, ActiveIsContext, DepthFits DEF End_count, Executes, IInv, Alone, Protected, Types
  <2>6. Room'
    BY <1>0, <1>1, <2>0, ActiveIsContext, DepthFits DEF End_count, Executes, IInv, Room, Types
  <2>7. Rest'
    <3>1. ~handling => c # SysTick
      BY <1>0, <2>0, DepthFits DEF Active, Types
    <3>2. handling' = handling
      BY <1>1 DEF End_count
    <3>3. c # SysTick => at'[SysTick] = at[SysTick] /\ nest'[SysTick] = nest[SysTick]
      BY <1>0, <1>1, ActiveIsContext DEF End_count, Types
    <3>4. ~handling => at[SysTick] = "body" /\ nest[SysTick] = 0
      BY DEF IInv, Rest
    <3> QED BY <3>1, <3>2, <3>3, <3>4, Zenon DEF Rest
  <2> QED BY <2>1, <2>2, <2>3, <2>4, <2>5, <2>6, <2>7 DEF IInv
<1>2. CASE End_enable(c)
  <2>0. /\ Active' = Active /\ c = Active
        /\ critical_section_depth = nest[c]
    BY <1>2 DEF End_enable, Executes, Active, IInv, Counted
  <2>1. Types'
    BY <1>0, <1>2, <2>0, ActiveIsContext, DepthFits DEF End_enable, Executes, IInv, Types, Points
  <2>2. Booleans'
    BY <1>0, <1>2, <2>0, ActiveIsContext, DepthFits DEF End_enable, Executes, IInv, Booleans
  <2>3. Masked'
    <3>1. Protected(c)' <=> critical_section_depth # 0
      BY <1>0, <1>2, <2>0, ActiveIsContext, DepthFits DEF End_enable, Executes, Protected, Types
    <3>2. primask' <=> critical_section_depth # 0
      BY <1>0, <1>2, <2>0, ActiveIsContext, DepthFits
         DEF End_enable, Executes, IInv, Masked, Protected
    <3> QED BY <2>0, <3>1, <3>2 DEF End_enable, Masked, Protected
  <2>4. Counted'
    BY <1>0, <1>2, <2>0, ActiveIsContext, DepthFits DEF End_enable, Executes, IInv, Counted, Types
  <2>5. Alone'
    BY <1>0, <1>2, <2>0, ActiveIsContext, DepthFits DEF End_enable, Executes, IInv, Alone, Protected, Types
  <2>6. Room'
    BY <1>0, <1>2, <2>0, ActiveIsContext, DepthFits DEF End_enable, Executes, IInv, Room, Types
  <2>7. Rest'
    <3>1. ~handling => c # SysTick
      BY <1>0, <2>0, DepthFits DEF Active, Types
    <3>2. handling' = handling
      BY <1>2 DEF End_enable
    <3>3. c # SysTick => at'[SysTick] = at[SysTick] /\ nest'[SysTick] = nest[SysTick]
      BY <1>0, <1>2, ActiveIsContext DEF End_enable, Types
    <3>4. ~handling => at[SysTick] = "body" /\ nest[SysTick] = 0
      BY DEF IInv, Rest
    <3> QED BY <3>1, <3>2, <3>3, <3>4, Zenon DEF Rest
  <2> QED BY <2>1, <2>2, <2>3, <2>4, <2>5, <2>6, <2>7 DEF IInv
<1> QED BY <1>1, <1>2

\* An interrupt is taken while its thread is outside of sections, so it finds
\* the depth at zero.
LEMMA InterruptKeepsInv ==
    ASSUME IInv, SysTick_entry \/ SysTick_return \/ PendSV_Handler
    PROVE  IInv'
<1>0. Types
  BY DEF IInv
<1>1. CASE SysTick_entry
  <2>0. /\ Active' = SysTick /\ ~handling /\ critical_section_depth = 0
        /\ \A c \in Contexts : ~Protected(c) /\ nest[c] = 0
    <3>1. Active' = SysTick /\ Active = OS_curr /\ ~handling /\ ~primask
      BY <1>1 DEF SysTick_entry, Interruptible, Active
    <3>2. \A c \in Contexts : ~Protected(c)
      BY <3>1 DEF IInv, Masked, Alone
    <3>3. \A c \in Contexts : nest[c] = 0
      BY <1>0, <3>2, OutsideNestsNothing
    <3> QED BY <1>0, <3>1, <3>2, <3>3, ActiveIsContext DEF IInv, Counted
  <2>1. Types'
    BY <1>0, <1>1, <2>0, ActiveIsContext, DepthFits DEF SysTick_entry, Executes, IInv, Types, Points, Interruptible
  <2>2. Booleans'
    BY <1>0, <1>1, <2>0, ActiveIsContext, DepthFits DEF SysTick_entry, Executes, IInv, Booleans, Interruptible
  <2>3. Masked'
    <3>1. ~Protected(SysTick)'
      BY <1>0, <1>1, <2>0, ActiveIsContext DEF SysTick_entry, Protected, Types
    <3>2. ~primask'
      BY <1>1 DEF SysTick_entry, Interruptible
    <3> QED BY <2>0, <3>1, <3>2, Zenon DEF Masked
  <2>4. Counted'
    BY <1>0, <1>1, <2>0, ActiveIsContext, DepthFits DEF SysTick_entry, Executes, IInv, Counted, Types, Interruptible
  <2>5. Alone'
    BY <1>0, <1>1, <2>0, ActiveIsContext, DepthFits DEF SysTick_entry, Executes, IInv, Alone, Protected, Types, Interruptible
  <2>6. Room'
    BY <1>0, <1>1, <2>0, ActiveIsContext, DepthFits DEF SysTick_entry, Executes, IInv, Room, Types, Interruptible
  <2>7. Rest'
    BY <1>0, <1>1, <2>0, ActiveIsContext, DepthFits DEF SysTick_entry, Executes, IInv, Rest, Interruptible
  <2> QED BY <2>1, <2>2, <2>3, <2>4, <2>5, <2>6, <2>7 DEF IInv
<1>2. CASE SysTick_return
  <2>0. /\ Active' = OS_curr /\ ~primask /\ critical_section_depth = 0
        /\ at[SysTick] = "body" /\ nest[SysTick] = 0
        /\ \A c \in Contexts : ~Protected(c) /\ nest[c] = 0
    <3>1. /\ Active' = OS_curr /\ Active = SysTick
          /\ at[SysTick] = "body" /\ nest[SysTick] = 0
      BY <1>2 DEF SysTick_return, Executes, Active
    <3>2. ~primask /\ \A c \in Contexts : ~Protected(c)
      BY <3>1 DEF IInv, Masked, Alone, Protected
    <3>3. \A c \in Contexts : nest[c] = 0
      BY <1>0, <3>2, OutsideNestsNothing
    <3> QED BY <1>0, <3>1, <3>2, <3>3, ActiveIsContext DEF IInv, Counted
  <2>1. Types'
    BY <1>0, <1>2, <2>0, ActiveIsContext, DepthFits DEF SysTick_return, Executes, IInv, Types, Points
  <2>2. Booleans'
    BY <1>0, <1>2, <2>0, ActiveIsContext, DepthFits DEF SysTick_return, Executes, IInv, Booleans
  <2>3. Masked'
    <3>1. Protected(OS_curr)' <=> FALSE
      BY <1>0, <1>2, <2>0, ActiveIsContext, DepthFits DEF SysTick_return, Executes, Protected, Types
    <3>2. primask' <=> FALSE
      BY <1>0, <1>2, <2>0, ActiveIsContext, DepthFits
         DEF SysTick_return, Executes, IInv, Masked, Protected
    <3>3. Protected(Active)' <=> Protected(OS_curr)'
      BY <1>2, <2>0 DEF SysTick_return, Protected
    <3> QED BY <3>1, <3>2, <3>3, Zenon DEF Masked
  <2>4. Counted'
    BY <1>0, <1>2, <2>0, ActiveIsContext, DepthFits DEF SysTick_return, Executes, IInv, Counted, Types
  <2>5. Alone'
    BY <1>0, <1>2, <2>0, ActiveIsContext, DepthFits DEF SysTick_return, Executes, IInv, Alone, Protected, Types
  <2>6. Room'
    BY <1>0, <1>2, <2>0, ActiveIsContext, DepthFits DEF SysTick_return, Executes, IInv, Room, Types
  <2>7. Rest'
    BY <1>0, <1>2, <2>0, ActiveIsContext, DepthFits DEF SysTick_return, Executes, IInv, Rest
  <2> QED BY <2>1, <2>2, <2>3, <2>4, <2>5, <2>6, <2>7 DEF IInv
<1>3. CASE PendSV_Handler
  <2>0. /\ Active' = OS_curr' /\ OS_curr' \in Contexts /\ ~primask
        /\ ~handling /\ critical_section_depth = 0
        /\ \A c \in Contexts : ~Protected(c) /\ nest[c] = 0
    <3>1. /\ Active' = OS_curr' /\ OS_curr' \in Contexts
          /\ ~primask /\ ~handling
      BY <1>3 DEF PendSV_Handler, Interruptible, Active, Contexts
    <3>2. \A c \in Contexts : ~Protected(c)
      BY <3>1 DEF IInv, Masked, Alone
    <3>3. \A c \in Contexts : nest[c] = 0
      BY <1>0, <3>2, OutsideNestsNothing
    <3> QED BY <1>0, <3>1, <3>2, <3>3, ActiveIsContext DEF IInv, Counted
  <2>1. Types'
    BY <1>0, <1>3, <2>0, ActiveIsContext, DepthFits DEF PendSV_Handler, Executes, IInv, Types, Points, Interruptible
  <2>2. Booleans'
    BY <1>0, <1>3, <2>0, ActiveIsContext, DepthFits DEF PendSV_Handler, Executes, IInv, Booleans, Interruptible
  <2>3. Masked'
    <3>1. ~Protected(Active)'
      BY <1>3, <2>0 DEF PendSV_Handler, Protected
    <3>2. ~primask'
      BY <1>3 DEF PendSV_Handler, Interruptible
    <3> QED BY <3>1, <3>2, Zenon DEF Masked
  <2>4. Counted'
    BY <1>0, <1>3, <2>0, ActiveIsContext, DepthFits DEF PendSV_Handler, Executes, IInv, Counted, Types, Interruptible
  <2>5. Alone'
    BY <1>0, <1>3, <2>0, ActiveIsContext, DepthFits DEF PendSV_Handler, Executes, IInv, Alone, Protected, Types, Interruptible
  <2>6. Room'
    BY <1>0, <1>3, <2>0, ActiveIsContext, DepthFits DEF PendSV_Handler, Executes, IInv, Room, Types, Interruptible
  <2>7. Rest'
    BY <1>0, <1>3, <2>0, ActiveIsContext, DepthFits DEF PendSV_Handler, Executes, IInv, Rest, Interruptible
  <2> QED BY <2>1, <2>2, <2>3, <2>4, <2>5, <2>6, <2>7 DEF IInv
<1> QED BY <1>1, <1>2, <1>3

\* So does the reset after an assertion that failed, which starts anew.
LEMMA ResetKeepsInv == ASSUME IInv, J_on_assert_failed PROVE IInv'
<1>1. Types'
  BY DepthFits DEF J_on_assert_failed, Types, Points
<1>2. Booleans' /\ Rest'
  BY DEF J_on_assert_failed, Booleans, Rest, Contexts
<1>3. Active' \in Contexts /\ \A c \in Contexts : ~Protected(c)' /\ nest'[c] = 0
  BY DEF J_on_assert_failed, Active, Contexts, Protected
<1>4. Masked' /\ Counted' /\ Alone'
  BY <1>3 DEF J_on_assert_failed, Masked, Counted, Alone
<1>5. Room'
  BY DEF J_on_assert_failed, Room
<1> QED BY <1>1, <1>2, <1>3, <1>4, <1>5 DEF IInv

\* A step that changes nothing keeps everything.
LEMMA StutterKeepsInv == ASSUME IInv, UNCHANGED vars PROVE IInv'
  BY DEF vars, IInv, Types, Booleans, Masked, Counted, Alone, Room, Rest,
         Protected, Active

\* The invariant holds in every reachable state.
THEOREM Invariance == Spec => []IInv
<1>1. IInv /\ [Next]_vars => IInv'
  <2> SUFFICES ASSUME IInv, [Next]_vars PROVE IInv'
    OBVIOUS
  <2>1. ASSUME NEW c \in Contexts, Step(c) PROVE IInv'
    BY <2>1, StartKeepsInv, EndKeepsInv DEF Step
  <2>2. CASE SysTick_entry \/ SysTick_return \/ PendSV_Handler
    BY <2>2, InterruptKeepsInv
  <2>3. CASE J_on_assert_failed
    BY <2>3, ResetKeepsInv
  <2>4. CASE UNCHANGED vars
    BY <2>4, StutterKeepsInv
  <2> QED BY <2>1, <2>2, <2>3, <2>4 DEF Next
<1> QED BY <1>1, InitInv, PTL DEF Spec

\* The variables have their types: in particular the depth never leaves the
\* bound, although it is checked before interrupts are disabled.
THEOREM TypeCorrect == Spec => []TypeOK
<1>1. IInv => TypeOK
  BY Parts DEF IInv
<1> QED BY <1>1, Invariance, PTL

\* No two contexts are in critical sections at once, so every call that the
\* kernel makes in one is atomic for the others.
THEOREM SectionsNeverOverlap == Spec => []SectionsExclude
<1>1. IInv => SectionsExclude
  BY DEF IInv, Alone, SectionsExclude
<1> QED BY <1>1, Invariance, PTL

\* Interrupts are masked exactly while the running context is in a section:
\* they return when its outermost section ends, and not before.
THEOREM InterruptsReturn == Spec => []MaskedIffProtected
<1>1. IInv => MaskedIffProtected
  BY Parts DEF IInv
<1> QED BY <1>1, Invariance, PTL
=============================================================================

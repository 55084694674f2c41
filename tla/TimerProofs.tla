----------------------------- MODULE TimerProofs -----------------------------
(***************************************************************************)
(* The hand-off of a struct timer between timer_free and timer_thread,     *)
(* proved for all values of the constants.                                 *)
(***************************************************************************)
EXTENDS Timer, TLAPS

\* timer_new establishes the inductive invariant.
LEMMA TimerStarts == TimerInit => TimerInv
<1>1. TimerInit => FlagTypes
    BY Zenon DEF TimerInit, FlagTypes
<1>2. TimerInit => DataTypes
    BY TimerConstants DEF TimerInit, DataTypes, Lefts, Ticks
<1>3. TimerInit => Handoff
    BY DEF TimerInit, Handoff
<1>4. QED
    BY <1>1, <1>2, <1>3 DEF TimerInv, TimerTypes

\* Every step of the owner, of timer_thread and of the clock preserves it.
LEMMA TimerStep == TimerInv /\ [TimerNext]_timer_vars => TimerInv'
<1> SUFFICES ASSUME TimerInv, [TimerNext]_timer_vars PROVE TimerInv'
    OBVIOUS
<1> USE DEF TimerInv, TimerTypes
<1>1. CASE timer_free
  <2>1. FlagTypes'
    BY Zenon, <1>1 DEF timer_free, FlagTypes
  <2>2. DataTypes'
    BY <1>1 DEF timer_free, Kick, FlagTypes, DataTypes
  <2>3. Handoff'
    BY <1>1 DEF timer_free, LockFree, Kick, FlagTypes, DataTypes, Handoff
  <2>4. QED
    BY <2>1, <2>2, <2>3
<1>2. ASSUME NEW v \in Ticks, NEW i \in Ticks, timer_set(v, i) PROVE TimerInv'
  <2>1. FlagTypes'
    BY Zenon, <1>2 DEF timer_set, FlagTypes
  <2>2. DataTypes'
    BY <1>2, TimerConstants DEF timer_set, Kick, FlagTypes, DataTypes, Ticks, Lefts
  <2>3. Handoff'
    BY Zenon, <1>2 DEF timer_set, LockFree, Kick, FlagTypes, DataTypes, Handoff
  <2>4. QED
    BY <2>1, <2>2, <2>3
<1>3. CASE ThreadLock
  <2>1. FlagTypes'
    BY Zenon, <1>3 DEF ThreadLock, Loop, Finish, FlagTypes
  <2>2. DataTypes'
    BY <1>3, TimerConstants
    DEF ThreadLock, Loop, Finish, FlagTypes, DataTypes, Ticks, Lefts
  <2>3. Handoff'
    BY <1>3 DEF ThreadLock, Loop, Finish, FlagTypes, DataTypes, Handoff
  <2>4. QED
    BY <2>1, <2>2, <2>3
<1>4. CASE ThreadSleep
    BY <1>4 DEF ThreadSleep, FlagTypes, DataTypes, Handoff
<1>5. CASE ThreadWake
    BY <1>5 DEF ThreadWake, FlagTypes, DataTypes, Handoff
<1>6. CASE CallbackReturn
  <2>1. FlagTypes'
    <3>1. \/ thread_running' = FALSE
          \/ thread_running' = thread_running
      BY <1>6 DEF CallbackReturn, Loop, Finish
    <3>2. active' = active /\ dead' = dead
      BY <1>6 DEF CallbackReturn
    <3>3. QED
      BY Zenon, <3>1, <3>2 DEF FlagTypes
  <2>2. DataTypes'
    <3>1. /\ left + interval \in Lefts
          /\ left + interval > 0 => left + interval \in Ticks
      BY <1>6, TimerConstants DEF CallbackReturn, DataTypes, Handoff, Ticks, Lefts
    <3>2. left' \in Lefts /\ interval' \in Ticks
      BY <1>6, <3>1 DEF CallbackReturn, DataTypes
    <3>3. sleepLeft' \in Ticks
      BY <1>6, <3>1 DEF CallbackReturn, DataTypes, Loop
    <3>4. timer_mem' \in {"live", "freed"} /\ tpc' \in {"none", "presleep", "callback"}
      BY <1>6 DEF CallbackReturn, DataTypes, Loop, Finish
    <3>5. owner' = owner /\ sets' = sets
      BY <1>6 DEF CallbackReturn
    <3>6. QED
      BY <3>2, <3>3, <3>4, <3>5 DEF DataTypes
  <2>3. Handoff'
    BY Zenon, <1>6, TimerConstants
    DEF CallbackReturn, Loop, Finish, FlagTypes, DataTypes, Handoff, Ticks, Lefts
  <2>4. QED
    BY <2>1, <2>2, <2>3
<1>7. CASE Tick
  <2>1. FlagTypes'
    BY <1>7 DEF Tick, FlagTypes
  <2>2. DataTypes'
    BY <1>7, TimerConstants DEF Tick, Saturate, DataTypes, Ticks, Lefts
  <2>3. Handoff'
    BY <1>7, TimerConstants
    DEF Tick, Saturate, FlagTypes, DataTypes, Handoff, Ticks, Lefts
  <2>4. QED
    BY <2>1, <2>2, <2>3
<1>8. CASE UNCHANGED timer_vars
    BY <1>8 DEF timer_vars, FlagTypes, DataTypes, Handoff
<1>9. QED
    BY <1>1, <1>2, <1>3, <1>4, <1>5, <1>6, <1>7, <1>8 DEF TimerNext, Owner, timer_thread

\* The hand-off invariant holds in every reachable state.
THEOREM TimerHandoff == TimerSpec => []TimerInv
BY TimerStarts, TimerStep, PTL DEF TimerSpec

\* Type correctness of the timer and its pthread.
THEOREM TimerTypeOK == TimerSpec => []TimerTypes
<1>1. TimerInv => TimerTypes
    BY DEF TimerInv
<1>2. QED
    BY <1>1, TimerHandoff, PTL

\* timer_free and timer_thread never touch a struct timer that was freed.
THEOREM TimerNoUseAfterFree == TimerSpec => []NoUseAfterFree
<1>1. TimerInv => NoUseAfterFree
    BY DEF TimerInv, TimerTypes, DataTypes, Handoff, NoUseAfterFree
<1>2. QED
    BY <1>1, TimerHandoff, PTL

\* Exactly one of timer_free and timer_thread frees the struct.
THEOREM TimerNoLeak == TimerSpec => []NoLeak
<1>1. TimerInv => NoLeak
    BY DEF TimerInv, TimerTypes, DataTypes, Handoff, NoLeak
<1>2. QED
    BY <1>1, TimerHandoff, PTL

\* No callback runs after timer_free returned, whatever kicks were lost.
THEOREM TimerNoCallbackAfterFree == TimerSpec => []NoCallbackAfterFree
<1>1. TimerInv => NoCallbackAfterFree
    BY DEF TimerInv, TimerTypes, DataTypes, Handoff, NoCallbackAfterFree
<1>2. QED
    BY <1>1, TimerHandoff, PTL

\* The life of a struct timer is right, for every length of the values, intervals
\* and sleeps and any number of timer_set calls.
THEOREM TimerStructLifetime == TimerSpec => []StructLifetime
BY TimerTypeOK, TimerNoUseAfterFree, TimerNoLeak, TimerNoCallbackAfterFree, PTL DEF StructLifetime
==============================================================================

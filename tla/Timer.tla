-------------------------------- MODULE Timer --------------------------------
(***************************************************************************)
(* One struct timer of util/timer.c: the owner (setitimer, timer_create or *)
(* a timerfd) calls timer_new, timer_set and timer_free; a detached        *)
(* pthread, timer_thread, sleeps until the deadline and runs the callback. *)
(* Time is kept relative: left is timer->end minus the clock, sleepLeft    *)
(* what remains of the thread's nanosleep.  Both saturate at -MaxLate.     *)
(* Code between lock(&timer->lock) and the next unlock is one step; the    *)
(* callback runs with the lock held, so it is a state of its own.          *)
(***************************************************************************)
EXTENDS Integers

CONSTANTS MaxValue,   \* longest spec.value and spec.interval, in ticks
          MaxLate,    \* how far past the deadline time is still told apart
          MaxSets     \* bound on the number of timer_set calls

ASSUME TimerConstants == MaxValue \in Nat \ {0} /\ MaxLate \in Nat /\ MaxSets \in Nat

VARIABLES owner,          \* "open" until the owner has called timer_free
          timer_mem,      \* "live" | "freed": the malloc'ed struct
          active, thread_running, dead,
          left,           \* timer->end - timespec_now(), saturating
          interval,
          tpc,            \* where timer_thread is
          sleepLeft,      \* rest of the nanosleep argument
          sets            \* timer_set calls so far

timer_vars == <<owner, timer_mem, active, thread_running, dead, left, interval, tpc,
          sleepLeft, sets>>

Ticks == 0 .. MaxValue
Lefts == -MaxLate .. MaxValue
\* Sign and size of a difference of two times, down to -MaxLate.
Saturate(t) == IF t < -MaxLate THEN -MaxLate ELSE t

\* The pthread holds timer->lock only while it runs the callback.
LockFree == tpc # "callback"

FlagTypes ==
    active \in BOOLEAN /\ thread_running \in BOOLEAN /\ dead \in BOOLEAN
DataTypes ==
    /\ owner \in {"open", "gone"} /\ timer_mem \in {"live", "freed"}
    /\ left \in Lefts /\ interval \in Ticks
    /\ sleepLeft \in Ticks
    /\ tpc \in {"none", "start", "presleep", "sleeping", "relock", "callback"}
    /\ sets \in 0 .. MaxSets
\* The type invariant of the timer and its pthread.
TimerTypes == FlagTypes /\ DataTypes

\* timer_new: start, end and interval keep whatever malloc returned.
TimerInit ==
    /\ owner = "open" /\ timer_mem = "live"
    /\ active = FALSE /\ thread_running = FALSE /\ dead = FALSE
    /\ left \in Lefts /\ interval \in Ticks
    /\ tpc = "none" /\ sleepLeft = 0 /\ sets = 0

\* pthread_kill(timer->thread, SIGUSR1): ends a nanosleep in progress and is
\* lost on a thread that has not entered it yet.
Kick(pc) == IF pc = "sleeping" THEN "relock" ELSE pc

timer_set(value, intvl) ==
    /\ owner = "open" /\ LockFree /\ sets < MaxSets
    /\ left' = value
    /\ interval' = intvl
    /\ active' = (value # 0)
    /\ IF thread_running
         THEN tpc' = Kick(tpc) /\ UNCHANGED thread_running
         ELSE /\ thread_running' = (value # 0)
              /\ tpc' = IF value # 0 THEN "start" ELSE tpc
    /\ sets' = sets + 1
    /\ UNCHANGED <<owner, timer_mem, dead, sleepLeft>>

\* Mutant: frees the struct although the pthread still uses it.
timer_free_ignores_thread ==
    /\ owner = "open" /\ LockFree
    /\ owner' = "gone" /\ active' = FALSE /\ timer_mem' = "freed"
    /\ UNCHANGED <<thread_running, dead, left, interval, tpc, sleepLeft,
                   sets>>

\* Mutant: does not hand the struct over to the pthread.
timer_free_not_dead ==
    /\ owner = "open" /\ LockFree
    /\ owner' = "gone" /\ active' = FALSE
    /\ IF thread_running
         THEN tpc' = Kick(tpc) /\ UNCHANGED timer_mem
         ELSE timer_mem' = "freed" /\ UNCHANGED tpc
    /\ UNCHANGED <<thread_running, dead, left, interval, sleepLeft, sets>>

timer_free ==
    /\ owner = "open" /\ LockFree
    /\ owner' = "gone"
    /\ active' = FALSE
    /\ IF thread_running
         THEN dead' = TRUE /\ tpc' = Kick(tpc) /\ UNCHANGED timer_mem
         ELSE timer_mem' = "freed" /\ UNCHANGED <<dead, tpc>>
    /\ UNCHANGED <<thread_running, left, interval, sleepLeft, sets>>

\* Mutant: the flag stays set, so timer_set never starts another pthread.
Finish_flag_stays ==
    /\ tpc' = "none"
    /\ timer_mem' = IF dead THEN "freed" ELSE timer_mem
    /\ UNCHANGED thread_running

\* The end of timer_thread: thread_running = false, then free or unlock.
Finish ==
    /\ thread_running' = FALSE
    /\ tpc' = "none"
    /\ timer_mem' = IF dead THEN "freed" ELSE timer_mem

\* The loop of timer_thread from the point where it holds the lock and the
\* deadline is remaining ticks away, to where it sleeps, fires or ends.
Loop(remaining) ==
    \/ /\ active /\ remaining > 0
       /\ tpc' = "presleep" /\ sleepLeft' = remaining
       /\ UNCHANGED <<timer_mem, thread_running>>
    \/ /\ active /\ remaining <= 0
       /\ tpc' = "callback"
       /\ UNCHANGED <<timer_mem, thread_running, sleepLeft>>
    \/ ~active /\ Finish /\ UNCHANGED sleepLeft

ThreadLock ==
    /\ tpc \in {"start", "relock"}
    /\ Loop(left)
    /\ UNCHANGED <<owner, active, dead, left, interval, sets>>

ThreadSleep ==
    /\ tpc = "presleep" /\ tpc' = "sleeping"
    /\ UNCHANGED <<owner, timer_mem, active, thread_running, dead, left,
                   interval, sleepLeft, sets>>

ThreadWake ==
    /\ tpc = "sleeping" /\ sleepLeft = 0 /\ tpc' = "relock"
    /\ UNCHANGED <<owner, timer_mem, active, thread_running, dead, left,
                   interval, sleepLeft, sets>>

\* The callback returns: re-arm a periodic timer or end the thread.
CallbackReturn ==
    /\ tpc = "callback"
    /\ IF active /\ interval > 0
         THEN /\ left' = left + interval
              /\ Loop(left + interval)
         ELSE Finish /\ UNCHANGED <<left, sleepLeft>>
    /\ UNCHANGED <<owner, active, dead, interval, sets>>

\* One tick of the clock; a nanosleep counts only once it has started.
Tick ==
    /\ left' = Saturate(left - 1)
    /\ sleepLeft' = IF tpc = "sleeping" /\ sleepLeft > 0
                      THEN sleepLeft - 1 ELSE sleepLeft
    /\ UNCHANGED <<owner, timer_mem, active, thread_running, dead, interval, tpc,
                   sets>>

Owner == timer_free \/ \E v, i \in Ticks : timer_set(v, i)
timer_thread == ThreadLock \/ ThreadSleep \/ ThreadWake \/ CallbackReturn
TimerNext == Owner \/ timer_thread \/ Tick
TimerSpec == TimerInit /\ [][TimerNext]_timer_vars

\* The pthread runs and the clock advances; the owner need not do anything.
FairTimerSpec == TimerSpec /\ WF_timer_vars(timer_thread) /\ WF_timer_vars(Tick)

------------------------------------------------------------------------------
\* Neither the owner nor the pthread ever touches the struct after free():
\* the hand-off through dead in timer_free / timer_thread.
NoUseAfterFree == (owner = "open" \/ tpc # "none") => timer_mem = "live"

\* Once timer_free has returned and the pthread has ended, the struct is
\* freed: whichever of the two is last frees it.
NoLeak == (owner = "gone" /\ tpc = "none") => timer_mem = "freed"

\* The callback never runs once timer_free has returned, so its data (the
\* timerfd, the task) may be released after timer_free.
NoCallbackAfterFree == tpc = "callback" => owner = "open"

\* The life of a struct timer: the three together, with the types.
StructLifetime == TimerTypes /\ NoUseAfterFree /\ NoLeak /\ NoCallbackAfterFree

\* A freed timer's memory is released eventually, even when the SIGUSR1 of
\* timer_free is lost: the pthread notices at the end of its old sleep.
EventuallyFreed == owner = "gone" ~> timer_mem = "freed"

\* A timer that is armed fires unless it is disarmed or freed first.
ArmedFires == (active /\ thread_running) ~> (tpc = "callback" \/ ~active)

------------------------------------------------------------------------------
\* The inductive invariant behind the three memory properties.
Handoff ==
    /\ thread_running <=> tpc # "none"
    /\ tpc = "callback" => active /\ left <= 0
    /\ owner = "open" => timer_mem = "live" /\ ~dead
    /\ owner = "gone" => /\ ~active
                        /\ \/ timer_mem = "live" /\ dead /\ tpc # "none"
                           \/ timer_mem = "freed" /\ tpc = "none"

TimerInv == TimerTypes /\ Handoff
==============================================================================

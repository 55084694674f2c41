---------------------------- MODULE WaitForProofs ----------------------------
(***************************************************************************)
(* wait_for and signal delivery, for any number of senders: the cond a     *)
(* sender notifies is alive, and no signal is lost when the mutex of the   *)
(* wait is sighand->lock.                                                  *)
(***************************************************************************)
EXTENDS WaitFor, TLAPS

LEMMA WaitForInit == WaitInit => WaitForInv
BY Zenon
DEF WaitInit, WaitForInv, WaitTypes, Registered, Holds, CondLocked, CondAlive, SignalSafe

\* A step of the waiting task leaves the senders alone.
LEMMA WaitForTask ==
  ASSUME WaitForInv, Enter \/ TaskStep \/ Timeout
  PROVE  WaitForInv'
<1> USE DEF WaitForInv
<1>1. spc' = spc /\ target' = target /\ cond_lock' = cond_lock
  BY DEF Enter, TaskStep, Timeout, Loop, wait_for, Register, CondWait, CondReturn,
         Unregister, Recheck, Return, receive_pending, svars
<1>2. WaitTypes'
  <2>1. CASE Enter \/ Loop
    BY Zenon, <1>1, <2>1 DEF WaitTypes, Enter, Loop, Goto
  <2>2. CASE wait_for \/ Recheck
    BY <1>1, <2>2 DEF WaitTypes, wait_for, Recheck, Fail, Goto
  <2>3. CASE Register \/ Unregister
    BY Zenon, <1>1, <2>3 DEF WaitTypes, Register, Unregister, Goto
  <2>4. CASE CondWait \/ Timeout \/ CondReturn
    BY Zenon, <1>1, <2>4 DEF WaitTypes, CondWait, Timeout, CondReturn, Goto
  <2>5. CASE Return \/ receive_pending
    BY Zenon, <1>1, <2>5 DEF WaitTypes, Return, receive_pending, tvars, Goto
  <2>6. QED
    BY <2>1, <2>2, <2>3, <2>4, <2>5 DEF TaskStep
<1>3. Registered' /\ Holds'
  BY DEF WaitTypes, Registered, Holds, Enter, TaskStep, Timeout, Loop, wait_for,
         Register, CondWait, CondReturn, Unregister, Recheck, Return,
         receive_pending, tvars, Fail, Goto
<1>4. CondLocked'
  BY <1>1 DEF CondLocked
<1>5. CondAlive'
  <2> SUFFICES ASSUME NEW s \in Sender, spc[s] = "notifying", target[s]
               PROVE  wpc' \in {"sleep", "asleep", "woken", "unregister"}
    BY <1>1 DEF CondAlive
  <2>1. cond_lock = {s} /\ cond_lock # {}
    BY DEF CondLocked
  <2>2. wpc \in {"sleep", "asleep", "woken", "unregister"}
    BY DEF CondAlive
  <2>3. QED
    BY <2>1, <2>2 DEF Enter, TaskStep, Timeout, Loop, wait_for, Register, CondWait,
         CondReturn, Unregister, Recheck, Return, receive_pending, tvars, Fail, Goto
<1>6. SignalSafe'
  <2> SUFFICES ASSUME on_sighand'
               PROVE  /\ wpc' \in {"register", "sleep"} => ~wpending'
                      /\ wpc' = "asleep" /\ wpending' =>
                           \E s \in Sender : WillNotify(s)'
    BY DEF SignalSafe
  <2>1. wpc' \in {"register", "sleep"} => ~wpending'
    BY Zenon DEF SignalSafe, Enter, TaskStep, Timeout, Loop, wait_for, Register, CondWait,
         CondReturn, Unregister, Recheck, Return, receive_pending, tvars, Fail, Goto
  <2>2. ASSUME wpc' = "asleep", wpending'
        PROVE  \E s \in Sender : WillNotify(s)'
    BY Zenon, <2>2 DEF SignalSafe, Enter, TaskStep, Timeout, Loop, wait_for, Register,
         CondWait, CondReturn, Unregister, Recheck, Return, receive_pending, tvars,
         Fail, Goto
  <2>3. QED
    BY <2>1, <2>2
<1>7. QED
  BY <1>2, <1>3, <1>4, <1>5, <1>6

LEMMA WaitForOthers ==
  ASSUME WaitForInv, MakeReady \/ \E s \in Sender : Deliver(s) \/ SenderStep(s)
  PROVE  WaitForInv'
<1> USE DEF WaitForInv
<1>1. CASE MakeReady
  <2>1. /\ spc' = spc /\ target' = target /\ cond_lock' = cond_lock
        /\ on_sighand' = on_sighand
        /\ mutex' = mutex /\ waiting_cond' = waiting_cond /\ wpending' = wpending
        /\ wpc' = IF wpc = "asleep" THEN "woken" ELSE wpc
        /\ rc' = rc /\ ready' = TRUE
    BY <1>1 DEF MakeReady, svars, notify
  <2>2. WaitTypes'
    BY <2>1 DEF WaitTypes
  <2>3. Registered' /\ Holds' /\ CondLocked' /\ CondAlive'
    BY <2>1 DEF Registered, Holds, CondLocked, CondAlive
  <2>4. SignalSafe'
    BY <2>1 DEF SignalSafe, WillNotify
  <2>5. QED
    BY <2>2, <2>3, <2>4
<1>2. ASSUME NEW s \in Sender, Deliver(s) PROVE WaitForInv'
  <2>1. /\ wpc' = wpc /\ rc' = rc /\ on_sighand' = on_sighand
        /\ mutex' = mutex /\ waiting_cond' = waiting_cond
        /\ cond_lock' = cond_lock /\ ready' = ready /\ target' = target
        /\ wpending' = TRUE /\ SighandFree
        /\ spc[s] = "idle" /\ spc' = [spc EXCEPT ![s] = "pended"]
    BY <1>2 DEF Deliver, tvars
  <2>2. WaitTypes'
    BY <2>1 DEF WaitTypes
  <2>3. /\ spc'[s] = "pended"
        /\ \A t \in Sender : t # s => spc'[t] = spc[t]
    BY <2>1 DEF WaitTypes
  <2>4. Registered' /\ Holds' /\ CondLocked' /\ CondAlive'
    BY <2>1, <2>3 DEF Registered, Holds, CondLocked, CondAlive
  <2>5. SignalSafe'
    BY <2>1, <2>3 DEF SignalSafe, WillNotify, SighandFree, Holds
  <2>6. QED
    BY <2>2, <2>4, <2>5
<1>3. ASSUME NEW s \in Sender, ReadCond(s) PROVE WaitForInv'
  <2>1. /\ wpc' = wpc /\ rc' = rc /\ on_sighand' = on_sighand
        /\ mutex' = mutex /\ waiting_cond' = waiting_cond
        /\ cond_lock = {} /\ cond_lock' = {s} /\ ready' = ready
        /\ wpending' = wpending /\ spc[s] = "pended"
        /\ target' = [target EXCEPT ![s] = waiting_cond]
        /\ spc' = [spc EXCEPT ![s] = "notifying"]
    BY <1>3 DEF ReadCond, tvars
  <2>2. WaitTypes'
    BY <2>1 DEF WaitTypes
  <2>3. /\ spc'[s] = "notifying" /\ target'[s] = waiting_cond
        /\ \A t \in Sender : t # s => spc'[t] = spc[t] /\ target'[t] = target[t]
    BY <2>1 DEF WaitTypes
  <2>4. Registered' /\ Holds'
    BY <2>1 DEF Registered, Holds
  <2>5. CondLocked'
    BY <2>1, <2>3 DEF CondLocked
  <2>6. CondAlive'
    BY <2>1, <2>3 DEF CondAlive, Registered
  <2>7. SignalSafe'
    BY <2>1, <2>3 DEF SignalSafe, WillNotify, Registered
  <2>8. QED
    BY <2>2, <2>4, <2>5, <2>6, <2>7
<1>4. ASSUME NEW s \in Sender, NotifyCond(s) PROVE WaitForInv'
  <2>1. /\ wpc' = IF target[s] /\ wpc = "asleep" THEN "woken" ELSE wpc
        /\ rc' = rc /\ on_sighand' = on_sighand
        /\ mutex' = mutex /\ waiting_cond' = waiting_cond
        /\ cond_lock' = {} /\ ready' = ready
        /\ wpending' = wpending /\ spc[s] = "notifying"
        /\ target' = [target EXCEPT ![s] = FALSE]
        /\ spc' = [spc EXCEPT ![s] = "idle"]
    BY <1>4 DEF NotifyCond, notify
  <2>2. WaitTypes'
    BY <2>1 DEF WaitTypes
  <2>3. /\ spc'[s] = "idle" /\ target'[s] = FALSE
        /\ \A t \in Sender : t # s => spc'[t] = spc[t] /\ target'[t] = target[t]
    BY <2>1 DEF WaitTypes
  <2>4. Registered' /\ Holds'
    BY <2>1 DEF Registered, Holds
  <2>5. CondLocked' /\ \A t \in Sender : t # s => spc[t] # "notifying"
    BY <2>1, <2>3 DEF CondLocked
  <2>6. CondAlive'
    BY <2>3, <2>5 DEF CondAlive
  <2>7. SignalSafe'
    BY <2>1, <2>3, <2>5 DEF SignalSafe, WillNotify
  <2>8. QED
    BY <2>2, <2>4, <2>5, <2>6, <2>7
<1>5. QED
  BY <1>1, <1>2, <1>3, <1>4 DEF SenderStep

LEMMA WaitForStep == WaitForInv /\ [WaitNext]_wait_vars => WaitForInv'
<1> SUFFICES ASSUME WaitForInv, [WaitNext]_wait_vars PROVE WaitForInv'
  OBVIOUS
<1>1. CASE UNCHANGED wait_vars
  BY <1>1 DEF wait_vars, tvars, svars, WaitForInv, WaitTypes, Registered, Holds, CondLocked,
              CondAlive, SignalSafe, WillNotify
<1>2. CASE WaitNext
  BY <1>2, WaitForTask, WaitForOthers DEF WaitNext
<1>3. QED
  BY <1>1, <1>2

\* Types, locks and registration are consistent in every reachable state.
THEOREM WaitForInvariant == WaitSpec => []WaitForInv
BY WaitForInit, WaitForStep, PTL DEF WaitSpec

\* What the runs check of wait_for, for any number of senders: no signal is lost
\* when the mutex is sighand->lock, and the cond a sender notifies is alive.
THEOREM WaitForCorrect == WaitSpec => []WaitForSound
<1>1. WaitForInv => WaitForSound
  BY DEF WaitForInv, WaitForSound, SignalSafe, NoLostSignalOnSighand, NoLostSignal, WillNotify
<1>2. QED
  BY <1>1, WaitForInvariant, PTL

\* A sender never broadcasts a cond whose waiter has left wait_for.
THEOREM WaitForCondAlive == WaitSpec => []CondAlive
BY WaitForInvariant, PTL DEF WaitForInv

\* With sighand->lock as the mutex (pause, sigsuspend, sigtimedwait, signalfd)
\* every signal breaks the wait, for any number of senders.
THEOREM WaitForNoLostSignal == WaitSpec => []NoLostSignalOnSighand
<1>1. WaitForInv => NoLostSignalOnSighand
  BY DEF WaitForInv, SignalSafe, NoLostSignalOnSighand, NoLostSignal, WillNotify
<1>2. QED
  BY <1>1, WaitForInvariant, PTL
==============================================================================

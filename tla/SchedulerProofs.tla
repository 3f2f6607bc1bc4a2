-------------------------- MODULE SchedulerProofs --------------------------
(***************************************************************************)
(* The safety properties of the scheduler for every number of slots, every *)
(* quantum and every width of the tick counter.                            *)
(***************************************************************************)
EXTENDS Scheduler, TLAPS

(* The slots before scheduler_runtime_init. *)
BeforeBoot ==
  /\ current = NoPid
  /\ victim = NoPid
  /\ \A p \in Pids : st[p] = "UNUSED" /\ at[p] = IF p = BootPid THEN "run" ELSE "boot"

(* What the stores of a sleep, an exit or a kill leave true while the task *)
(* that makes them can still be interrupted.                               *)
MidCall ==
  /\ \A p \in Pids : at[p] \in {"exitMarked", "exitCleared", "halted"} => st[p] = "TERMINATED"
  /\ at[IdlePid] \in {"boot", "run"}
  /\ at[BootPid] = "killMarked" => victim \in Pids \ {BootPid}

OnCpuInv ==
  /\ current \in Pids
  /\ esp0 = current
  /\ st[current] # "UNUSED"
  /\ st[current] = "TERMINATED" => at[current] \in {"exitMarked", "exitCleared"}
  /\ st[current] # "TERMINATED" => cr3 = dir[current]
  /\ at[current] # "halted"
  /\ st[BootPid] \notin {"UNUSED", "TERMINATED"}
  /\ st[IdlePid] \in {"READY", "RUNNING"}

(* The inductive invariant. *)
IInv ==
  /\ TypeOK
  /\ ~Booted => BeforeBoot
  /\ Booted => OnCpuInv
  /\ MidCall
  /\ OnlyCurrentRuns
  /\ FramesAreLive

-----------------------------------------------------------------------------
(* The slots of the boot and the idle task exist, and counting modulo the  *)
(* counter's width stays in range.                                         *)
LEMMA SlotFacts ==
  /\ BootPid \in Pids /\ IdlePid \in Pids /\ NoPid \notin Pids
  /\ \A x \in Int : x % TickModulus \in 0 .. TickModulus - 1
  /\ SleepLengths \subseteq Nat
  BY SchedulerConstants DEF Pids, BootPid, IdlePid, NoPid

(* A slot that is neither the boot nor the idle slot is a task's.          *)
LEMMA TaskSlots ==
  ASSUME NEW p \in Pids, p # BootPid, p # IdlePid
  PROVE  p > IdlePid
  BY SchedulerConstants DEF Pids, BootPid, IdlePid

(* sched_pick_next returns a slot the dispatcher may resume: a ready task  *)
(* that is not on the CPU, the running task, or the idle thread.           *)
LEMMA PickNextSound ==
  ASSUME NEW s, NEW next, PickNext(s, next), current \in Pids,
         s[IdlePid] \in {"READY", "RUNNING"}
  PROVE  /\ next # NoPid
         /\ next # current => next \in Pids /\ (s[next] = "READY" \/ next = IdlePid)
         /\ next = current => s[next] = "RUNNING" \/ next = IdlePid
  BY SlotFacts DEF PickNext, MayContinue, FindReadyNonIdle, ReadyOthers

(* The states the slots may have when sched_switch_from_frame runs: those  *)
(* of the last step, some sleepers woken, the current task perhaps         *)
(* terminated.                                                             *)
Reached(s) ==
  /\ s \in [Pids -> States]
  /\ \A p \in Pids :
       \/ s[p] = st[p]
       \/ st[p] = "BLOCKED" /\ s[p] = "READY"

(* What a context switch establishes, whatever made the CPU switch.        *)
SwitchPost ==
  /\ st' \in [Pids -> States]
  /\ frame' \in [Pids -> Frames]
  /\ current' \in Pids
  /\ slice' \in Nat
  /\ cr3' \in Pids \union {KernelDir}
  /\ esp0' = current'
  /\ cr3' = dir[current'] \/ (current' = current /\ cr3' = cr3)
  /\ current' # current => st'[current'] = "RUNNING"
  /\ st[current] = "TERMINATED" => current' # current
  /\ \A p \in Pids : (st'[p] = "TERMINATED") = (st[p] = "TERMINATED")
  /\ \A p \in Pids : (st'[p] = "UNUSED") = (st[p] = "UNUSED")
  /\ st'[IdlePid] \in {"READY", "RUNNING"}
  /\ OnlyCurrentRuns'
  /\ FramesAreLive'

(* sched_switch_from_frame keeps the CPU with the current task or gives it *)
(* to a live context.                                                      *)
LEMMA SwitchSafe ==
  ASSUME IInv, Booted, NEW s, Reached(s), NEW left \in Nat, SwitchFromFrame(s, left)
  PROVE  SwitchPost
<1> DEFINE stay(next) ==
             /\ st' = IF s[current] = "READY" THEN [s EXCEPT ![current] = "RUNNING"] ELSE s
             /\ frame' = [frame EXCEPT ![current] = "stale"]
             /\ slice' = left
             /\ UNCHANGED <<current, cr3, esp0>>
           t == Preempted(s)
<1>1. PICK next \in Pids \union {NoPid} :
        /\ PickNext(s, next)
        /\ IF next \in {NoPid, current} THEN stay(next)
           ELSE Activate(t, SavedFrames, next)
  BY DEF SwitchFromFrame
<1>2. /\ TypeOK /\ OnCpuInv /\ OnlyCurrentRuns /\ FramesAreLive
  BY DEF IInv
<1>3. s[IdlePid] \in {"READY", "RUNNING"}
  BY <1>2, SlotFacts DEF Reached, OnCpuInv
<1>4. /\ next # NoPid
      /\ next # current => next \in Pids /\ (s[next] = "READY" \/ next = IdlePid)
      /\ next = current => s[next] = "RUNNING" \/ next = IdlePid
  BY <1>1, <1>2, <1>3, PickNextSound DEF OnCpuInv
<1>5. CASE next = current
  <2>1. stay(next)
    BY <1>1, <1>5
  <2>2. /\ st' \in [Pids -> States] /\ frame' \in [Pids -> Frames]
        /\ current' = current /\ slice' \in Nat /\ cr3' = cr3 /\ esp0' = esp0
    BY <2>1, <1>2 DEF TypeOK, Reached, States, Frames
  <2>3. s[current] \in {"READY", "RUNNING"}
    BY <1>3, <1>4, <1>5
  <2>4. \A p \in Pids : p # current => st'[p] = s[p] /\ frame'[p] = frame[p]
    BY <2>1, <1>2 DEF TypeOK, Reached, OnCpuInv
  <2>5. st'[current] = "RUNNING"
    BY <2>1, <2>3, <1>2 DEF Reached, OnCpuInv
  <2>6. \A p \in Pids : p # current => s[p] # "RUNNING"
    BY <1>2 DEF Reached, OnlyCurrentRuns
  <2>7. OnlyCurrentRuns'
    BY <2>2, <2>4, <2>6 DEF OnlyCurrentRuns
  <2>8. FramesAreLive'
    BY <2>2, <2>4, <1>2 DEF FramesAreLive, Reached
  <2>9. /\ \A p \in Pids : (st'[p] = "TERMINATED") = (st[p] = "TERMINATED")
        /\ \A p \in Pids : (st'[p] = "UNUSED") = (st[p] = "UNUSED")
        /\ st[current] # "TERMINATED"
    BY <2>3, <2>4, <2>5, <1>2 DEF Reached, OnCpuInv
  <2>10. st'[IdlePid] \in {"READY", "RUNNING"}
    BY <2>4, <2>5, <1>3, SlotFacts
  <2> QED
    BY <2>2, <2>7, <2>8, <2>9, <2>10, <1>2 DEF SwitchPost, OnCpuInv, TypeOK
<1>6. CASE next # current
  <2>1. /\ next \in Pids
        /\ s[next] = "READY" \/ next = IdlePid
        /\ Activate(t, SavedFrames, next)
    BY <1>1, <1>4, <1>6
  <2>2. /\ t \in [Pids -> States]
        /\ \A p \in Pids : p # current => t[p] = s[p]
        /\ t[current] # "RUNNING"
        /\ s[current] # "RUNNING" => t[current] = s[current]
        /\ s[current] = "RUNNING" => t[current] = "READY"
    BY <1>2 DEF Reached, States, OnCpuInv, Preempted
  <2> HIDE DEF t
  <2>3. /\ st' \in [Pids -> States] /\ frame' \in [Pids -> Frames]
        /\ current' = next /\ slice' \in Nat /\ cr3' = dir[next] /\ esp0' = next
        /\ cr3' \in Pids \union {KernelDir}
    BY <2>1, <2>2, <1>2 DEF Activate, SavedFrames, DirectoryFor, TypeOK, States, Frames
  <2>4. /\ st'[next] = "RUNNING"
        /\ \A p \in Pids : p # next => st'[p] = t[p]
        /\ frame'[current] = "saved"
        /\ \A p \in Pids : p # next /\ p # current => frame'[p] = frame[p]
    BY <2>1, <2>2, <1>2, <1>6 DEF Activate, SavedFrames, TypeOK, OnCpuInv
  <2>5. \A p \in Pids : p # current => s[p] # "RUNNING"
    BY <1>2 DEF Reached, OnlyCurrentRuns
  <2>6. OnlyCurrentRuns'
    BY <2>2, <2>3, <2>4, <2>5 DEF OnlyCurrentRuns
  <2>7. FramesAreLive'
    BY <2>2, <2>3, <2>4, <1>2 DEF FramesAreLive, Reached
  <2>8. s[next] \in {"READY", "RUNNING"}
    BY <2>1, <1>3
  <2>9. \A p \in Pids :
          /\ (st'[p] = "TERMINATED") = (st[p] = "TERMINATED")
          /\ (st'[p] = "UNUSED") = (st[p] = "UNUSED")
    BY <2>2, <2>4, <2>8, <1>2 DEF Reached, OnCpuInv
  <2>10. st'[IdlePid] \in {"READY", "RUNNING"}
    BY <2>2, <2>4, <1>3, SlotFacts
  <2> QED
    BY <2>1, <2>3, <2>4, <2>6, <2>7, <2>9, <2>10, <1>6 DEF SwitchPost
<1> QED
  BY <1>5, <1>6

-----------------------------------------------------------------------------
(* A switch made from states s, after the current task p stored at[p],     *)
(* keeps the invariant.                                                    *)
LEMMA SwitchKeepsInv ==
  ASSUME IInv, Booted, SwitchPost, phase' = phase,
         wake' \in [Pids -> 0 .. TickModulus - 1], dir' = dir, entry' = entry,
         preempt' = preempt, quantum' = quantum, ticks' \in 0 .. TickModulus - 1,
         victim' = victim, due' \in [Pids -> Nat],
         \/ at' = at
         \/ st[current] # "TERMINATED" /\ at' = [at EXCEPT ![current] = "run"]
         \/ st[current] = "TERMINATED" /\ current > IdlePid /\ at' = [at EXCEPT ![current] = "halted"]
  PROVE  IInv'
<1>1. TypeOK /\ OnCpuInv /\ MidCall
  BY DEF IInv
<1>2. TypeOK'
  BY <1>1 DEF TypeOK, SwitchPost, Points, OnCpuInv
<1>3. Booted'
  BY DEF Booted
<1>4. MidCall'
  BY <1>1, SlotFacts DEF MidCall, SwitchPost, OnCpuInv, TypeOK, IdlePid
<1>5. OnCpuInv'
  <2>1. current' \in Pids /\ esp0' = current' /\ st'[current'] # "UNUSED"
        /\ st'[BootPid] \notin {"UNUSED", "TERMINATED"}
        /\ st'[IdlePid] \in {"READY", "RUNNING"}
    BY <1>1, SlotFacts DEF SwitchPost, OnCpuInv
  <2>2. st'[current'] # "TERMINATED"
    BY <1>1 DEF SwitchPost, OnCpuInv
  <2>3. cr3' = dir'[current']
    BY <1>1, <2>2 DEF SwitchPost, OnCpuInv
  <2>4. at'[current'] # "halted"
    BY <1>4, <2>1, <2>2 DEF MidCall
  <2> QED
    BY <2>1, <2>2, <2>3, <2>4 DEF OnCpuInv
<1> QED
  BY <1>2, <1>3, <1>4, <1>5 DEF IInv, SwitchPost

(* Init establishes the invariant. *)
LEMMA InitInv == Init => IInv
<1> SUFFICES ASSUME Init PROVE IInv
  OBVIOUS
<1>1. TypeOK
  <2>1. entry \in [Pids -> BOOLEAN] /\ preempt \in BOOLEAN
    BY Zenon DEF Init
  <2>2. at \in [Pids -> Points]
    BY DEF Init, Points
  <2> QED
    BY <2>1, <2>2, SlotFacts, SchedulerConstants DEF Init, TypeOK, Phases, States, Frames
<1>2. BeforeBoot /\ MidCall
  BY SlotFacts DEF Init, BeforeBoot, MidCall, IdlePid, BootPid, NoPid
<1> QED
  BY <1>1, <1>2 DEF Init, IInv, Booted, OnlyCurrentRuns, FramesAreLive

(* The tick handler keeps the invariant: what sched_wake_sleepers does to  *)
(* the states, and the switch or the return that follows.                  *)
LEMMA TickInv == IInv /\ TimerTick => IInv'
<1> SUFFICES ASSUME IInv, TimerTick PROVE IInv'
  OBVIOUS
<1> DEFINE now == (ticks + 1) % TickModulus
           s == AfterWake(now)
<1>1. TypeOK /\ Booted /\ OnCpuInv /\ MidCall /\ OnlyCurrentRuns /\ FramesAreLive
  BY DEF IInv, TimerTick
<1>2. now \in 0 .. TickModulus - 1
  BY <1>1, SlotFacts DEF TypeOK
<1> HIDE DEF now
<1>3. Reached(s)
  BY <1>1 DEF Reached, AfterWake, Woken, TypeOK, States
<1>4. /\ ticks' = now
      /\ wake' = [p \in Pids |-> IF p \in Woken(now) THEN 0 ELSE wake[p]]
      /\ due' = [p \in Pids |-> IF due[p] > 0 THEN due[p] - 1 ELSE 0]
      /\ UNCHANGED <<phase, dir, entry, preempt, quantum, at, victim>>
  BY DEF TimerTick, now
<1>5. /\ wake' \in [Pids -> 0 .. TickModulus - 1]
      /\ due' \in [Pids -> Nat]
      /\ ticks' \in 0 .. TickModulus - 1
  BY <1>1, <1>2, <1>4, SchedulerConstants DEF TypeOK
<1>6. \/ SwitchFromFrame(s, quantum)
      \/ SwitchFromFrame(s, slice)
      \/ /\ st' = s
         /\ slice' \in {slice, SliceAfterTick}
         /\ UNCHANGED <<frame, current, cr3, esp0>>
  BY DEF TimerTick, now, cpuVars
<1>7. CASE SwitchFromFrame(s, quantum) \/ SwitchFromFrame(s, slice)
  <2>1. SwitchPost
    BY <1>1, <1>3, <1>7, SwitchSafe DEF TypeOK
  <2> QED
    BY <1>1, <1>4, <1>5, <2>1, SwitchKeepsInv
<1>8. CASE /\ st' = s
           /\ slice' \in {slice, SliceAfterTick}
           /\ UNCHANGED <<frame, current, cr3, esp0>>
  <2>1. TypeOK'
    BY <1>1, <1>3, <1>4, <1>5, <1>8 DEF TypeOK, Reached, SliceAfterTick
  <2>2. OnCpuInv' /\ Booted'
    BY <1>1, <1>3, <1>4, <1>8, SlotFacts DEF OnCpuInv, Reached, Booted
  <2>3. MidCall'
    BY <1>1, <1>3, <1>4, <1>8 DEF MidCall, Reached
  <2>4. OnlyCurrentRuns' /\ FramesAreLive'
    BY <1>1, <1>3, <1>8 DEF OnlyCurrentRuns, FramesAreLive, Reached
  <2> QED
    BY <2>1, <2>2, <2>3, <2>4 DEF IInv
<1> QED
  BY <1>6, <1>7, <1>8

(* A yield, and the yields that end a sleep or an exit, keep the invariant.*)
LEMMA YieldInv ==
  ASSUME IInv, NEW p \in Pids, Yield(p) \/ SleepYield(p) \/ ExitYield(p)
  PROVE  IInv'
<1>1. TypeOK /\ Booted /\ OnCpuInv /\ MidCall /\ current = p
  BY DEF IInv, Yield, SleepYield, ExitYield, OnCpu
<1>2. SwitchFromFrame(st, slice)
  BY DEF Yield, SleepYield, ExitYield
<1>3. Reached(st)
  BY <1>1 DEF Reached, TypeOK
<1>4. SwitchPost
  BY <1>1, <1>2, <1>3, SwitchSafe DEF TypeOK
<1>5. /\ UNCHANGED <<phase, wake, dir, entry, preempt, quantum, ticks, victim, due>>
      /\ \/ at' = at
         \/ at[p] = "sleepBlocked" /\ at' = [at EXCEPT ![current] = "run"]
         \/ at[p] = "exitCleared" /\ at' = [at EXCEPT ![current] = "halted"]
  BY <1>1 DEF Yield, SleepYield, ExitYield, OnCpu
<1>6. /\ at[p] = "sleepBlocked" => st[p] # "TERMINATED"
      /\ at[p] = "exitCleared" => st[p] = "TERMINATED" /\ p > IdlePid
  BY <1>1, TaskSlots DEF OnCpuInv, MidCall
<1> QED
  BY <1>1, <1>4, <1>5, <1>6, SwitchKeepsInv DEF TypeOK
-----------------------------------------------------------------------------
(* The steps of a task that leave it on the CPU keep the invariant.        *)
LEMMA SleepInv ==
  ASSUME IInv, NEW p \in Pids,
         (\E n \in SleepLengths : SleepSetWake(p, n)) \/ SleepBlock(p) \/ Bootstrap(p)
  PROVE  IInv'
<1> USE DEF OnCpu
<1>1. /\ TypeOK /\ Booted /\ OnCpuInv /\ MidCall /\ OnlyCurrentRuns /\ FramesAreLive
      /\ current = p
  BY DEF IInv, SleepSetWake, SleepBlock, Bootstrap
<1>2. /\ UNCHANGED <<phase, frame, dir, entry, current, cr3, esp0, preempt, quantum, slice, ticks, victim>>
      /\ \/ st' = st /\ p # IdlePid
         \/ st' = [st EXCEPT ![p] = "BLOCKED"] /\ at[p] = "sleepWake"
         \/ st' = st /\ at' = [at EXCEPT ![p] = "run"]
      /\ at' \in {[at EXCEPT ![p] = "sleepWake"], [at EXCEPT ![p] = "sleepBlocked"], [at EXCEPT ![p] = "run"]}
  BY DEF SleepSetWake, SleepBlock, Bootstrap, cpuVars, clockVars, procVars, BootPid, IdlePid
<1>3. wake' \in [Pids -> 0 .. TickModulus - 1] /\ due' \in [Pids -> Nat]
  <2>1. ASSUME NEW n \in SleepLengths, SleepSetWake(p, n)
        PROVE  wake' \in [Pids -> 0 .. TickModulus - 1] /\ due' \in [Pids -> Nat]
    <3>1. n \in Nat /\ ticks + n \in Int
      BY <1>1, SlotFacts, SchedulerConstants DEF TypeOK
    <3>2. WakeTick(n) \in 0 .. TickModulus - 1
      BY <3>1, SlotFacts DEF WakeTick
    <3> QED
      BY <2>1, <3>1, <3>2, <1>1 DEF SleepSetWake, TypeOK
  <2> QED
    BY <2>1, <1>1 DEF SleepBlock, Bootstrap, procVars, TypeOK
<1>4. TypeOK' /\ Booted'
  BY <1>1, <1>2, <1>3 DEF TypeOK, Points, States, Booted
<1>5. at[p] \in {"boot", "run", "sleepWake"}
  BY DEF SleepSetWake, SleepBlock, Bootstrap
<1>6. st[p] # "TERMINATED"
  BY <1>1, <1>5 DEF OnCpuInv
<1>7. at[p] = "sleepWake" => p # IdlePid
  BY <1>1 DEF MidCall
<1>8. MidCall'
  BY <1>1, <1>2, <1>6, <1>7, SlotFacts DEF MidCall, TypeOK
<1>9. OnCpuInv'
  BY <1>1, <1>2, <1>6, <1>7, SlotFacts DEF OnCpuInv, TypeOK
<1>10. OnlyCurrentRuns' /\ FramesAreLive'
  BY <1>1, <1>2 DEF OnlyCurrentRuns, FramesAreLive, TypeOK
<1> QED
  BY <1>4, <1>8, <1>9, <1>10 DEF IInv

(* The stores of sched_exit_current before its yield keep the invariant.   *)
LEMMA ExitStoresInv ==
  ASSUME IInv, NEW p \in Pids, ExitMark(p) \/ ExitClear(p)
  PROVE  IInv'
<1> USE DEF OnCpu
<1>1. /\ TypeOK /\ Booted /\ OnCpuInv /\ MidCall /\ OnlyCurrentRuns /\ FramesAreLive
      /\ current = p
  BY DEF IInv, ExitMark, ExitClear
<1>2. /\ UNCHANGED <<phase, frame, current, cr3, esp0, preempt, quantum, slice, ticks, victim, due>>
      /\ st' \in {st, MarkState(st, p)}
      /\ at' \in {[at EXCEPT ![p] = "exitMarked"], [at EXCEPT ![p] = "exitCleared"]}
  BY DEF ExitMark, ExitClear, cpuVars, clockVars
<1>3. p > IdlePid /\ st'[p] = "TERMINATED"
  <2>1. CASE ExitMark(p)
    BY <2>1, <1>1 DEF ExitMark, MarkState, TypeOK
  <2>2. CASE ExitClear(p)
    BY <2>2, <1>1, TaskSlots DEF ExitClear, MidCall, OnCpuInv
  <2> QED
    BY <2>1, <2>2
<1>4. TypeOK' /\ Booted'
  <2>1. wake' \in [Pids -> 0 .. TickModulus - 1] /\ dir' \in [Pids -> Pids \union {KernelDir}]
    BY <1>1, SchedulerConstants DEF ExitMark, ExitClear, ClearTerminated, TypeOK
  <2>2. entry' \in [Pids -> BOOLEAN]
    BY <1>1, Zenon DEF ExitMark, ExitClear, ClearTerminated, TypeOK
  <2> QED
    BY <1>1, <1>2, <2>1, <2>2 DEF TypeOK, Points, States, Booted, MarkState
<1>5. \A q \in Pids : q # p => st'[q] = st[q] /\ at'[q] = at[q]
  BY <1>1, <1>2 DEF TypeOK, MarkState
<1>6. at'[p] \in {"exitMarked", "exitCleared"}
  BY <1>1, <1>2 DEF TypeOK
<1>7. MidCall'
  BY <1>1, <1>2, <1>3, <1>5, <1>6, SlotFacts DEF MidCall, IdlePid
<1>8. OnCpuInv'
  BY <1>1, <1>2, <1>3, <1>5, <1>6, SlotFacts DEF OnCpuInv, IdlePid, BootPid
<1>9. OnlyCurrentRuns' /\ FramesAreLive'
  BY <1>1, <1>2, <1>3, <1>5 DEF OnlyCurrentRuns, FramesAreLive
<1> QED
  BY <1>4, <1>7, <1>8, <1>9 DEF IInv

(* scheduler_exit_current_from_interrupt keeps the invariant: the slot is  *)
(* terminated and another one is activated in the same handler.            *)
LEMMA ExitFromInterruptInv ==
  ASSUME IInv, NEW p \in Pids, ExitFromInterrupt(p)
  PROVE  IInv'
<1> DEFINE s == MarkState(st, p)
           fr == SavedFrames
<1>1. /\ TypeOK /\ Booted /\ OnCpuInv /\ MidCall /\ OnlyCurrentRuns /\ FramesAreLive
      /\ current = p /\ p > IdlePid
  BY DEF IInv, ExitFromInterrupt, OnCpu
<1>2. PICK next \in Pids \union {NoPid} :
        /\ PickNext(s, next)
        /\ IF next = NoPid
           THEN /\ st' = s
                /\ frame' = [frame EXCEPT ![p] = "stale"]
                /\ UNCHANGED <<slice, cpuVars>>
           ELSE Activate(s, fr, next)
  BY DEF ExitFromInterrupt
<1>3. /\ s \in [Pids -> States] /\ s[p] = "TERMINATED"
      /\ \A q \in Pids : q # p => s[q] = st[q]
      /\ fr \in [Pids -> Frames] /\ fr[p] = "saved"
      /\ \A q \in Pids : q # p => fr[q] = frame[q]
  BY <1>1 DEF MarkState, SavedFrames, TypeOK, States, Frames
<1> HIDE DEF s, fr
<1>4. s[IdlePid] \in {"READY", "RUNNING"}
  BY <1>1, <1>3, SlotFacts DEF OnCpuInv, IdlePid
<1>5. next \in Pids /\ next # p /\ (s[next] = "READY" \/ next = IdlePid)
  BY <1>1, <1>2, <1>3, <1>4, PickNextSound DEF IdlePid
<1>6. Activate(s, fr, next)
  BY <1>2, <1>5, SlotFacts
<1>7. /\ st' \in [Pids -> States] /\ frame' \in [Pids -> Frames]
      /\ current' = next /\ slice' = quantum /\ esp0' = next /\ cr3' = dir[next]
      /\ st'[next] = "RUNNING" /\ st'[p] = "TERMINATED"
      /\ \A q \in Pids : q # next => st'[q] = s[q] /\ frame'[q] = fr[q]
  BY <1>3, <1>5, <1>6 DEF Activate, DirectoryFor, States, Frames
<1>8. /\ at' = [at EXCEPT ![p] = "halted"]
      /\ ClearTerminated(p)
      /\ UNCHANGED <<phase, preempt, quantum, ticks, victim, due>>
  BY DEF ExitFromInterrupt
<1>9. /\ wake' \in [Pids -> 0 .. TickModulus - 1]
      /\ dir' \in [Pids -> Pids \union {KernelDir}]
      /\ dir'[next] = dir[next]
  BY <1>1, <1>5, <1>8, SchedulerConstants DEF ClearTerminated, TypeOK
<1>10. entry' \in [Pids -> BOOLEAN]
  BY <1>1, <1>8, Zenon DEF ClearTerminated, TypeOK
<1>11. TypeOK' /\ Booted'
  BY <1>1, <1>5, <1>7, <1>8, <1>9, <1>10 DEF TypeOK, Points, Booted
<1>12. MidCall'
  BY <1>1, <1>3, <1>5, <1>7, <1>8, SlotFacts DEF MidCall, TypeOK, IdlePid, OnCpuInv
<1>13. OnCpuInv'
  BY <1>1, <1>3, <1>4, <1>5, <1>7, <1>9, <1>12, SlotFacts DEF OnCpuInv, MidCall, IdlePid, BootPid
<1>14. OnlyCurrentRuns' /\ FramesAreLive'
  BY <1>1, <1>3, <1>5, <1>7 DEF OnlyCurrentRuns, FramesAreLive
<1> QED
  BY <1>11, <1>12, <1>13, <1>14 DEF IInv
-----------------------------------------------------------------------------
(* Terminating another slot, from the shell or from an interrupt, keeps    *)
(* the invariant.                                                          *)
LEMMA KillInv ==
  ASSUME IInv,
         \/ \E q \in Pids : KillMark(q)
         \/ KillClear
         \/ \E p, q \in Pids : KillFromInterrupt(p, q)
  PROVE  IInv'
<1> USE DEF OnCpu
<1>1. TypeOK /\ Booted /\ OnCpuInv /\ MidCall /\ OnlyCurrentRuns /\ FramesAreLive
  BY DEF IInv, KillMark, KillClear, KillFromInterrupt
<1>2. CASE \E q \in Pids : KillMark(q)
  <2>1. PICK q \in Pids : KillMark(q)
    BY <1>2
  <2>2. /\ UNCHANGED <<phase, wake, frame, dir, entry, current, cr3, esp0, preempt, quantum, slice, ticks, due>>
        /\ current = BootPid /\ at[BootPid] = "run" /\ q > IdlePid
        /\ st' = [st EXCEPT ![q] = "TERMINATED"]
        /\ victim' = q /\ at' = [at EXCEPT ![BootPid] = "killMarked"]
    BY <2>1 DEF KillMark, Killable, MarkState, cpuVars, clockVars
  <2>3. TypeOK' /\ Booted'
    BY <1>1, <2>2, SlotFacts DEF TypeOK, States, Points, Booted
  <2>4. MidCall'
    BY <1>1, <2>2, SlotFacts DEF MidCall, TypeOK, IdlePid, BootPid
  <2>5. OnCpuInv'
    BY <1>1, <2>2, SlotFacts DEF OnCpuInv, TypeOK, IdlePid, BootPid
  <2>6. OnlyCurrentRuns' /\ FramesAreLive'
    BY <1>1, <2>2 DEF OnlyCurrentRuns, FramesAreLive, TypeOK
  <2> QED
    BY <2>3, <2>4, <2>5, <2>6 DEF IInv
<1>3. CASE KillClear
  <2>1. /\ UNCHANGED <<phase, st, frame, current, cr3, esp0, preempt, quantum, slice, ticks, due>>
        /\ current = BootPid /\ at[BootPid] = "killMarked" /\ victim' = NoPid
        /\ at' = [at EXCEPT ![BootPid] = "run"]
        /\ ClearTerminated(victim)
    BY <1>3 DEF KillClear, cpuVars, clockVars
  <2>2. victim \in Pids /\ victim # BootPid
    BY <1>1, <2>1 DEF MidCall
  <2>3. /\ wake' \in [Pids -> 0 .. TickModulus - 1]
        /\ dir' \in [Pids -> Pids \union {KernelDir}] /\ dir'[BootPid] = dir[BootPid]
    BY <1>1, <2>1, <2>2, SlotFacts, SchedulerConstants DEF ClearTerminated, TypeOK
  <2>4. entry' \in [Pids -> BOOLEAN]
    BY <1>1, <2>1, Zenon DEF ClearTerminated, TypeOK
  <2>5. TypeOK' /\ Booted'
    BY <1>1, <2>1, <2>3, <2>4, SlotFacts DEF TypeOK, Points, Booted
  <2>6. MidCall'
    BY <1>1, <2>1, SlotFacts DEF MidCall, TypeOK, IdlePid, BootPid, NoPid
  <2>7. OnCpuInv'
    BY <1>1, <2>1, <2>3, SlotFacts DEF OnCpuInv, TypeOK, IdlePid, BootPid
  <2> QED
    BY <1>1, <2>1, <2>5, <2>6, <2>7 DEF IInv, OnlyCurrentRuns, FramesAreLive
<1>4. CASE \E p, q \in Pids : KillFromInterrupt(p, q)
  <2>1. PICK p \in Pids, q \in Pids : KillFromInterrupt(p, q)
    BY <1>4
  <2>2. /\ UNCHANGED <<phase, frame, current, cr3, esp0, preempt, quantum, slice, ticks, at, victim, due>>
        /\ current = p /\ q > IdlePid /\ q # p
        /\ st' = [st EXCEPT ![q] = "TERMINATED"]
        /\ ClearTerminated(q)
    BY <2>1 DEF KillFromInterrupt, Killable, MarkState, cpuVars, clockVars
  <2>3. /\ wake' \in [Pids -> 0 .. TickModulus - 1]
        /\ dir' \in [Pids -> Pids \union {KernelDir}] /\ dir'[p] = dir[p]
    BY <1>1, <2>2, SlotFacts, SchedulerConstants DEF ClearTerminated, TypeOK
  <2>4. entry' \in [Pids -> BOOLEAN]
    BY <1>1, <2>2, Zenon DEF ClearTerminated, TypeOK
  <2>5. TypeOK' /\ Booted'
    BY <1>1, <2>2, <2>3, <2>4 DEF TypeOK, States, Booted
  <2>6. MidCall'
    BY <1>1, <2>2, SlotFacts DEF MidCall, TypeOK
  <2>7. OnCpuInv'
    BY <1>1, <2>2, <2>3, SlotFacts DEF OnCpuInv, TypeOK, IdlePid, BootPid
  <2>8. OnlyCurrentRuns' /\ FramesAreLive'
    BY <1>1, <2>2 DEF OnlyCurrentRuns, FramesAreLive, TypeOK
  <2> QED
    BY <2>5, <2>6, <2>7, <2>8 DEF IInv
<1> QED
  BY <1>2, <1>3, <1>4

(* A spawn takes a free slot, which is never the slot of the task that     *)
(* calls it.                                                               *)
LEMMA SpawnSlotNotCurrent ==
  ASSUME IInv, Booted, NEW idx, NEW first, NEW directory,
         at[current] = "run", SpawnInternal(first, idx, directory)
  PROVE  idx \in Pids /\ idx > IdlePid /\ idx # current
  BY DEF IInv, OnCpuInv, SpawnInternal, FindFreeSlotFrom, Free

(* sched_spawn_kernel_thread_internal keeps the invariant.                 *)
LEMMA SpawnInv ==
  ASSUME IInv, Booted, phase' \in Phases \ {"boot"}, NEW first, NEW idx,
         NEW directory \in Pids \union {KernelDir},
         at[current] = "run", SpawnInternal(first, idx, directory),
         UNCHANGED <<current, cr3, esp0, preempt, quantum, slice, ticks, victim>>
  PROVE  IInv'
<1>1. TypeOK /\ OnCpuInv /\ MidCall /\ OnlyCurrentRuns /\ FramesAreLive
  BY DEF IInv
<1>2. idx \in Pids /\ idx > IdlePid /\ idx # current
  BY SpawnSlotNotCurrent
<1>3. /\ st' = [st EXCEPT ![idx] = "READY"]
      /\ wake' = [wake EXCEPT ![idx] = 0]
      /\ frame' = [frame EXCEPT ![idx] = "fresh"]
      /\ dir' = [dir EXCEPT ![idx] = directory]
      /\ entry' = [entry EXCEPT ![idx] = TRUE]
      /\ at' = [at EXCEPT ![idx] = "boot"]
      /\ due' = [due EXCEPT ![idx] = 0]
  BY DEF SpawnInternal
<1>4. entry' \in [Pids -> BOOLEAN]
  BY <1>1, <1>3, Zenon DEF TypeOK
<1>5. TypeOK' /\ Booted'
  BY <1>1, <1>2, <1>3, <1>4, SchedulerConstants DEF TypeOK, States, Frames, Points, Booted
<1>6. MidCall'
  BY <1>1, <1>2, <1>3, SlotFacts DEF MidCall, TypeOK, IdlePid
<1>7. OnCpuInv'
  BY <1>1, <1>2, <1>3, SlotFacts DEF OnCpuInv, TypeOK, IdlePid, BootPid
<1>8. OnlyCurrentRuns' /\ FramesAreLive'
  BY <1>1, <1>2, <1>3 DEF OnlyCurrentRuns, FramesAreLive, TypeOK
<1> QED
  BY <1>5, <1>6, <1>7, <1>8 DEF IInv
(* The boot sequence keeps the invariant. *)
LEMMA BootInv ==
  ASSUME IInv, BootTick \/ StartSelfTest \/ FinishSelfTest \/ EnterMainLoop
  PROVE  IInv'
<1>1. TypeOK /\ MidCall /\ OnlyCurrentRuns /\ FramesAreLive
  BY DEF IInv
<1>2. CASE BootTick
  <2>1. /\ UNCHANGED <<phase, st, wake, frame, dir, entry, current, cr3, esp0, preempt, quantum, slice, at, victim, due>>
        /\ ticks' = (ticks + 1) % TickModulus
        /\ ~Booted
    BY <1>2 DEF BootTick, procVars, cpuVars
  <2>2. ticks' \in 0 .. TickModulus - 1
    BY <1>1, <2>1, SlotFacts DEF TypeOK
  <2>3. TypeOK'
    BY <1>1, <2>1, <2>2 DEF TypeOK
  <2> QED
    BY <1>1, <2>1, <2>3 DEF IInv, Booted, BeforeBoot, MidCall, OnlyCurrentRuns, FramesAreLive
<1>3. CASE StartSelfTest
  <2>1. BeforeBoot
    BY <1>3 DEF StartSelfTest, IInv, Booted
  <2>2. /\ phase' = "testA" /\ current' = BootPid /\ cr3' = KernelDir /\ esp0' = BootPid
        /\ st' = [p \in Pids |-> CASE p = BootPid -> "RUNNING"
                                   [] p = IdlePid -> "READY"
                                   [] OTHER -> "UNUSED"]
        /\ frame' = [p \in Pids |-> IF p = IdlePid THEN "fresh" ELSE "none"]
        /\ dir' = [p \in Pids |-> KernelDir]
        /\ UNCHANGED <<ticks, at, victim, due>>
    BY <1>3 DEF StartSelfTest
  <2>3. entry' \in [Pids -> BOOLEAN] /\ preempt' \in BOOLEAN
    BY <1>3, Zenon DEF StartSelfTest
  <2>4. /\ wake' \in [Pids -> 0 .. TickModulus - 1]
        /\ quantum' \in Nat /\ slice' \in Nat
    BY <1>3, SchedulerConstants DEF StartSelfTest
  <2>5. /\ st'[BootPid] = "RUNNING" /\ st'[IdlePid] = "READY"
        /\ \A p \in Pids : p # BootPid /\ p # IdlePid => st'[p] = "UNUSED"
        /\ st' \in [Pids -> States]
    BY <2>2, SlotFacts DEF States, BootPid, IdlePid
  <2>6. TypeOK' /\ Booted'
    BY <1>1, <2>2, <2>3, <2>4, <2>5, SlotFacts DEF TypeOK, Frames, Phases, Booted
  <2>7. MidCall'
    BY <2>1, <2>2, SlotFacts DEF BeforeBoot, MidCall, BootPid, IdlePid
  <2>8. OnCpuInv'
    BY <2>1, <2>2, <2>5, SlotFacts DEF BeforeBoot, OnCpuInv
  <2>9. OnlyCurrentRuns'
    BY <2>2, <2>5 DEF OnlyCurrentRuns
  <2>10. FramesAreLive'
    BY <2>2, <2>5, SlotFacts DEF FramesAreLive, IdlePid, BootPid
  <2> QED
    BY <2>6, <2>7, <2>8, <2>9, <2>10 DEF IInv
<1>4. CASE FinishSelfTest \/ EnterMainLoop
  <2>1. /\ UNCHANGED <<st, wake, frame, dir, entry, current, cr3, esp0, ticks, at, victim, due>>
        /\ Booted /\ phase' \in Phases \ {"boot"}
        /\ preempt' \in BOOLEAN /\ quantum' \in Nat /\ slice' \in Nat
    <3>1. preempt' \in BOOLEAN
      BY <1>4, Zenon DEF FinishSelfTest, EnterMainLoop
    <3> QED
      BY <3>1, <1>1, <1>4, SchedulerConstants
         DEF FinishSelfTest, EnterMainLoop, procVars, cpuVars, OnCpu, Booted, Phases, TypeOK
  <2>2. TypeOK' /\ Booted'
    BY <1>1, <2>1 DEF TypeOK, Booted
  <2> QED
    BY <1>1, <2>1, <2>2 DEF IInv, OnCpuInv, MidCall, OnlyCurrentRuns, FramesAreLive
<1> QED
  BY <1>2, <1>3, <1>4

(* Every step keeps the invariant. *)
LEMMA NextInv == IInv /\ [Next]_vars => IInv'
<1> SUFFICES ASSUME IInv, [Next]_vars PROVE IInv'
  OBVIOUS
<1>1. CASE TimerTick
  BY <1>1, TickInv
<1>2. CASE \E p \in Pids : TaskStep(p)
  <2>1. PICK p \in Pids : TaskStep(p)
    BY <1>2
  <2>2. CASE Yield(p) \/ SleepYield(p) \/ ExitYield(p)
    BY <2>2, YieldInv
  <2>3. CASE (\E n \in SleepLengths : SleepSetWake(p, n)) \/ SleepBlock(p) \/ Bootstrap(p)
    BY <2>3, SleepInv
  <2>4. CASE ExitMark(p) \/ ExitClear(p)
    BY <2>4, ExitStoresInv
  <2>5. CASE ExitFromInterrupt(p)
    BY <2>5, ExitFromInterruptInv
  <2>6. CASE \E q \in Pids : KillFromInterrupt(p, q)
    BY <2>6, KillInv
  <2>7. CASE \E idx \in Pids : \E d \in {KernelDir, idx} : SpawnKernelTask(p, idx, d)
    <3>0. PICK idx \in Pids : \E d \in {KernelDir, idx} : SpawnKernelTask(p, idx, d)
      BY <2>7
    <3>1. PICK d \in {KernelDir, idx} : SpawnKernelTask(p, idx, d)
      BY <3>0
    <3>2. /\ Booted /\ at[current] = "run" /\ phase' = phase
          /\ SpawnInternal(ExternalMin, idx, d)
          /\ UNCHANGED <<current, cr3, esp0, preempt, quantum, slice, ticks, victim>>
      BY <3>1 DEF SpawnKernelTask, OnCpu, cpuVars, clockVars
    <3>3. phase' \in Phases \ {"boot"} /\ d \in Pids \union {KernelDir}
      BY <3>2 DEF IInv, TypeOK, Booted
    <3> QED
      BY <3>2, <3>3, SpawnInv
  <2> QED
    BY <2>1, <2>2, <2>3, <2>4, <2>5, <2>6, <2>7 DEF TaskStep
<1>3. CASE (\E q \in Pids : KillMark(q)) \/ KillClear
  BY <1>3, KillInv
<1>4. CASE BootTick \/ StartSelfTest \/ FinishSelfTest \/ EnterMainLoop
  BY <1>4, BootInv
<1>5. CASE SelfTestSpawn
  <2>1. /\ Booted /\ at[current] = "run" /\ phase' \in Phases \ {"boot"}
        /\ \E idx \in Pids : SpawnInternal(IdlePid + 1, idx, KernelDir)
        /\ UNCHANGED <<current, cr3, esp0, preempt, quantum, slice, ticks, victim>>
    BY <1>5 DEF SelfTestSpawn, OnCpu, cpuVars, clockVars, Phases
  <2> QED
    BY <2>1, SpawnInv
<1>6. CASE UNCHANGED vars
  BY <1>6 DEF vars, IInv, TypeOK, Booted, BeforeBoot, MidCall, OnCpuInv, OnlyCurrentRuns, FramesAreLive
<1> QED
  BY <1>1, <1>2, <1>3, <1>4, <1>5, <1>6 DEF Next, BootStep

(* The invariant holds in every reachable state. *)
THEOREM Inductive == Spec => []IInv
<1>1. Init => IInv
  BY InitInv
<1>2. IInv /\ [Next]_vars => IInv'
  BY NextInv
<1> QED
  BY <1>1, <1>2, PTL DEF Spec

(* Type correctness of the scheduler's state (process_t, g_current, the    *)
(* quantum and the tick counter).                                          *)
THEOREM TypeCorrect == Spec => []TypeOK
<1>1. IInv => TypeOK
  BY DEF IInv
<1> QED
  BY <1>1, Inductive, PTL

(* sched_pick_next always finds a slot to run.                             *)
THEOREM PickNextAlwaysSucceeds == Spec => []PickNextSucceeds
<1>1. IInv => PickNextSucceeds
  BY PickNextSound, SlotFacts DEF IInv, OnCpuInv, PickNextSucceeds
<1> QED
  BY <1>1, Inductive, PTL

(* At most the task on the CPU is RUNNING; sched_activate_slot only ever   *)
(* resumes a context that was built or saved and not yet resumed; the CPU  *)
(* uses the page directory and the ring-0 stack of the task that is on it; *)
(* and no task returns from its exit.                                      *)
THEOREM SwitchesAreSound == Spec => []SwitchIsSound
<1>1. IInv => OnlyCurrentRuns /\ FramesAreLive
  BY DEF IInv
<1>2. IInv => AddressSpaceOfCurrent
  BY DEF IInv, OnCpuInv, AddressSpaceOfCurrent
<1>3. IInv => NoReturnAfterExit
  BY DEF IInv, OnCpuInv, NoReturnAfterExit
<1>4. IInv => SwitchIsSound
  BY <1>1, <1>2, <1>3 DEF SwitchIsSound
<1> QED
  BY <1>4, Inductive, PTL

(* A kernel stack is zeroed for a new task only when the CPU is not on it. *)
THEOREM StackReuseSafe == Spec => NewStackNotInUse
<1> DEFINE Zeroed(p) == Booted /\ frame[p] # "fresh" /\ frame'[p] = "fresh"
<1>1. ASSUME IInv, [Next]_vars
      PROVE  \A p \in Pids : Zeroed(p) => p # current
  <2> SUFFICES ASSUME NEW p \in Pids, Zeroed(p) PROVE p # current
    OBVIOUS
  <2>1. frame \in [Pids -> Frames] /\ current \in Pids
    BY <1>1 DEF IInv, TypeOK, OnCpuInv
  <2>2. CASE \E s, left : SwitchFromFrame(s, left)
    BY <2>1, <2>2 DEF SwitchFromFrame, Activate, SavedFrames
  <2>3. CASE \E q \in Pids : ExitFromInterrupt(q)
    BY <2>1, <2>3 DEF ExitFromInterrupt, Activate, SavedFrames
  <2>4. CASE \E first, idx, directory : SpawnInternal(first, idx, directory) /\ at[current] = "run"
    <3>1. PICK first, idx, directory : SpawnInternal(first, idx, directory) /\ at[current] = "run"
      BY <2>4
    <3>2. idx \in Pids /\ idx > IdlePid /\ idx # current
      BY <1>1, <3>1, SpawnSlotNotCurrent
    <3>3. frame' = [frame EXCEPT ![idx] = "fresh"]
      BY <3>1 DEF SpawnInternal
    <3> QED
      BY <2>1, <3>2, <3>3
  <2>5. CASE frame' = frame
    BY <2>5
  <2>6. CASE TimerTick
    BY <2>2, <2>5, <2>6 DEF TimerTick
  <2>7. CASE \E q \in Pids : TaskStep(q)
    <3>1. PICK q \in Pids : TaskStep(q)
      BY <2>7
    <3>2. CASE Yield(q) \/ SleepYield(q) \/ ExitYield(q)
      BY <2>2, <3>2 DEF Yield, SleepYield, ExitYield
    <3>3. CASE \/ \E n \in SleepLengths : SleepSetWake(q, n)
               \/ SleepBlock(q) \/ Bootstrap(q) \/ ExitMark(q) \/ ExitClear(q)
               \/ \E r \in Pids : KillFromInterrupt(q, r)
      BY <2>5, <3>3
         DEF SleepSetWake, SleepBlock, Bootstrap, ExitMark, ExitClear, KillFromInterrupt, procVars
    <3>4. CASE ExitFromInterrupt(q)
      BY <2>3, <3>4
    <3>5. CASE \E idx \in Pids : \E d \in {KernelDir, idx} : SpawnKernelTask(q, idx, d)
      BY <2>4, <3>5 DEF SpawnKernelTask, OnCpu
    <3> QED
      BY <3>1, <3>2, <3>3, <3>4, <3>5 DEF TaskStep
  <2>8. CASE SelfTestSpawn
    BY <2>4, <2>8 DEF SelfTestSpawn, OnCpu
  <2>9. CASE \/ \E q \in Pids : KillMark(q)
             \/ KillClear \/ BootTick \/ FinishSelfTest \/ EnterMainLoop
    BY <2>5, <2>9 DEF KillMark, KillClear, BootTick, FinishSelfTest, EnterMainLoop, procVars
  <2>10. CASE StartSelfTest
    BY <2>10 DEF StartSelfTest, Booted
  <2>11. CASE UNCHANGED vars
    BY <2>5, <2>11 DEF vars
  <2> QED
    BY <1>1, <2>6, <2>7, <2>8, <2>9, <2>10, <2>11 DEF Next, BootStep
<1>2. IInv /\ [Next]_vars => [\A p \in Pids : Zeroed(p) => p # current]_vars
  BY <1>1
<1> QED
  BY <1>2, Inductive, PTL DEF Spec, NewStackNotInUse

=============================================================================

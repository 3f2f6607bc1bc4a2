------------------------------ MODULE Scheduler ------------------------------
(***************************************************************************)
(* The preemptive round-robin scheduler of the kernel (process/scheduler.c)*)
(* with the PIT tick that drives it (time/timer.c) and the boot sequence   *)
(* that turns preemption on and off (core/kernel_runtime_shell.inc).       *)
(*                                                                         *)
(* One CPU.  IRQ0, int 0x80 and int 0x81 enter through interrupt gates, so *)
(* a handler is one atomic action.  Code a task runs with interrupts       *)
(* enabled is cut at every store the tick handler, or a task the tick      *)
(* handler switches to, can observe.                                       *)
(***************************************************************************)
EXTENDS Integers

CONSTANTS
  MaxProcs,      \* SCHEDULER_MAX_PROCESSES: slots 0 .. MaxProcs-1
  ExternalMin,   \* SCHED_EXTERNAL_PID_MIN: first slot of scheduler_spawn_kernel_task
  TickModulus,   \* the width of the tick counter, 2^32 in the code
  SleepLengths,  \* the arguments of scheduler_sleep_ticks
  TestQuantum,   \* SCHED_SELF_TEST_QUANTUM
  ShellQuantum   \* the quantum of the main loop (SCHED_DEFAULT_QUANTUM, 5)

ASSUME SchedulerConstants ==
  /\ MaxProcs \in Nat /\ MaxProcs > 3
  /\ ExternalMin \in 2 .. MaxProcs
  /\ TickModulus \in Nat /\ TickModulus > 1 /\ TickModulus % 2 = 0
  /\ SleepLengths \subseteq 1 .. (TickModulus \div 2)
  /\ TestQuantum \in Nat \ {0}
  /\ ShellQuantum \in Nat \ {0}

Pids == 0 .. MaxProcs - 1
BootPid == 0
IdlePid == 1
NoPid == -1
KernelDir == -1   \* paging_get_kernel_directory()

States == {"UNUSED", "READY", "RUNNING", "BLOCKED", "TERMINATED"}

(* What the irq_frame pointer of a slot designates: nothing, the frame     *)
(* built by sched_prepare_kernel_thread, the frame of a suspended context, *)
(* or a frame the slot has already returned from.                          *)
Frames == {"none", "fresh", "saved", "stale"}

(* Where a task stands in the kernel code that runs with interrupts on.    *)
Points == {"boot", "run", "sleepWake", "sleepBlocked",
           "exitMarked", "exitCleared", "halted", "killMarked"}

(* The stages of kernel_runtime_thread: before scheduler_runtime_init, the *)
(* self-test (its two spawns, then the wait), the start-up script, and the *)
(* command loop.                                                           *)
Phases == {"boot", "testA", "testB", "testWait", "script", "shell"}

VARIABLES
  phase,       \* the stage of kernel_runtime_thread that pid 0 has reached
  st,          \* pcb.state
  wake,        \* pcb.wake_tick
  frame,       \* pcb.context.irq_frame
  dir,         \* pcb.context.page_directory: KernelDir or the slot it was built for
  entry,       \* pcb.thread_entry # 0
  current,     \* g_current
  preempt,     \* g_preemption_enabled
  quantum,     \* g_quantum_ticks
  slice,       \* g_slice_ticks_left
  ticks,       \* g_timer_ticks
  cr3,         \* the active page directory
  esp0,        \* the slot whose kernel stack top is in the TSS
  at,          \* at[p]: the point of the code task p has reached
  victim,      \* the slot pid 0 is terminating
  due          \* history: the ticks task p still asked to sleep

procVars == <<st, wake, frame, dir, entry>>
cpuVars == <<current, cr3, esp0>>
clockVars == <<preempt, quantum, slice, ticks>>
vars == <<phase, st, wake, frame, dir, entry, current, preempt, quantum, slice,
          ticks, cr3, esp0, at, victim, due>>

Booted == phase # "boot"

(* Mutant of Free: only a task that waits for the CPU or a tick is taken.  *)
FreeUnlessWaiting(p) == st[p] \notin {"READY", "BLOCKED"}

Free(p) == st[p] \in {"UNUSED", "TERMINATED"}

-----------------------------------------------------------------------------
(* sched_pick_next, on the states s of the slots.                          *)

(* Mutant of Distance: every scan starts at slot 0.                        *)
DistanceFromSlotZero(p) == p

Distance(p) == (p - current) % MaxProcs

ReadyOthers(s) == {p \in Pids \ {IdlePid, current} : s[p] = "READY"}

FindReadyNonIdle(s, p) ==
  /\ p \in ReadyOthers(s)
  /\ \A q \in ReadyOthers(s) : Distance(p) <= Distance(q)

MayContinue(s) == s[current] = "RUNNING"

PickNext(s, next) ==
  \/ FindReadyNonIdle(s, next)
  \/ /\ ReadyOthers(s) = {}
     /\ \/ MayContinue(s) /\ next = current
        \/ /\ ~MayContinue(s)
           /\ \/ s[IdlePid] \in {"READY", "RUNNING"} /\ next = IdlePid
              \/ s[IdlePid] \notin {"READY", "RUNNING"} /\ next = NoPid

(* paging_activate_directory of sched_activate_slot                        *)
DirectoryFor(next) == dir[next]

(* sched_activate_slot: the CPU resumes next from its frame.  fr are the   *)
(* frames once the interrupted context is saved.                           *)
Activate(s, fr, next) ==
  /\ st' = [s EXCEPT ![next] = "RUNNING"]
  /\ frame' = [fr EXCEPT ![next] = "stale"]
  /\ current' = next
  /\ slice' = quantum
  /\ cr3' = DirectoryFor(next)
  /\ esp0' = next

(* The running task goes back to the ready ones when another is chosen.    *)
Preempted(s) == IF s[current] = "RUNNING" THEN [s EXCEPT ![current] = "READY"] ELSE s

(* Mutant of SavedFrames: the frame of the interrupted task is not stored. *)
FramesNotSaved == frame

SavedFrames == [frame EXCEPT ![current] = "saved"]

(* sched_switch_from_frame, with the slice left when no switch happens.    *)
SwitchFromFrame(s, sliceLeft) ==
  \E next \in Pids \union {NoPid} :
    /\ PickNext(s, next)
    /\ IF next \in {NoPid, current}
       THEN /\ st' = IF s[current] = "READY" THEN [s EXCEPT ![current] = "RUNNING"] ELSE s
            /\ frame' = [frame EXCEPT ![current] = "stale"]
            /\ slice' = sliceLeft
            /\ UNCHANGED <<current, cr3, esp0>>
       ELSE Activate(Preempted(s), SavedFrames, next)

-----------------------------------------------------------------------------
(* IRQ0: scheduler_on_timer_tick.                                          *)

(* Mutant of Expired: the ticks are compared without wrapping.             *)
ExpiredUnsigned(now, p) == now >= wake[p]

Expired(now, p) == (now - wake[p]) % TickModulus < TickModulus \div 2

(* Mutant of Woken: the loop starts at the idle slot.                      *)
WokenSkipsBoot(now) == {p \in Pids \ {BootPid} : st[p] = "BLOCKED" /\ Expired(now, p)}

Woken(now) == {p \in Pids : st[p] = "BLOCKED" /\ Expired(now, p)}

(* sched_wake_sleepers *)
AfterWake(now) == [p \in Pids |-> IF p \in Woken(now) THEN "READY" ELSE st[p]]

SliceAfterTick == IF slice > 0 THEN slice - 1 ELSE 0

TimerTick ==
  LET now == (ticks + 1) % TickModulus
      s == AfterWake(now)
      forced == current = IdlePid /\ ReadyOthers(s) # {}
  IN /\ Booted
     /\ ticks' = now
     /\ wake' = [p \in Pids |-> IF p \in Woken(now) THEN 0 ELSE wake[p]]
     /\ due' = [p \in Pids |-> IF due[p] > 0 THEN due[p] - 1 ELSE 0]
     /\ \/ /\ preempt
           /\ forced \/ SliceAfterTick = 0
           /\ SwitchFromFrame(s, quantum)
        \/ /\ preempt
           /\ ~forced
           /\ SliceAfterTick > 0
           /\ slice' = SliceAfterTick
           /\ st' = s
           /\ UNCHANGED <<frame, cpuVars>>
        \/ /\ ~preempt
           /\ forced
           /\ SwitchFromFrame(s, slice)
        \/ /\ ~preempt
           /\ ~forced
           /\ st' = s
           /\ UNCHANGED <<frame, slice, cpuVars>>
     /\ UNCHANGED <<phase, dir, entry, preempt, quantum, at, victim>>

(* A tick before scheduler_runtime_init only counts.                       *)
BootTick ==
  /\ ~Booted
  /\ ticks' = (ticks + 1) % TickModulus
  /\ UNCHANGED <<phase, procVars, cpuVars, preempt, quantum, slice, at, victim, due>>

-----------------------------------------------------------------------------
(* Calls of the task on the CPU.  Only the idle thread makes none.         *)

OnCpu(p, point) == Booted /\ current = p /\ at[p] = point

Testing == phase \in {"testA", "testB", "testWait"}

(* scheduler_yield -> int 0x81 -> scheduler_on_yield; also the             *)
(* THREAD_YIELD system call.                                               *)
Yield(p) ==
  /\ OnCpu(p, "run")
  /\ p # IdlePid /\ ~Testing
  /\ SwitchFromFrame(st, slice)
  /\ UNCHANGED <<phase, wake, dir, entry, preempt, quantum, ticks, at, victim, due>>

WakeTick(n) == (ticks + n) % TickModulus

(* scheduler_sleep_ticks: the self-test tasks and the shell (top) call it. *)
SleepSetWake(p, n) ==
  /\ OnCpu(p, "run")
  /\ IF Testing THEN p > IdlePid ELSE p = BootPid
  /\ wake' = [wake EXCEPT ![p] = WakeTick(n)]
  /\ due' = [due EXCEPT ![p] = n]
  /\ at' = [at EXCEPT ![p] = "sleepWake"]
  /\ UNCHANGED <<phase, st, frame, dir, entry, cpuVars, clockVars, victim>>

SleepBlock(p) ==
  /\ OnCpu(p, "sleepWake")
  /\ st' = [st EXCEPT ![p] = "BLOCKED"]
  /\ at' = [at EXCEPT ![p] = "sleepBlocked"]
  /\ UNCHANGED <<phase, wake, frame, dir, entry, cpuVars, clockVars, victim, due>>

SleepYield(p) ==
  /\ OnCpu(p, "sleepBlocked")
  /\ SwitchFromFrame(st, slice)
  /\ at' = [at EXCEPT ![p] = "run"]
  /\ UNCHANGED <<phase, wake, dir, entry, preempt, quantum, ticks, victim, due>>

(* sched_mark_terminated, its first store and the ones after it.           *)
MarkState(s, p) == [s EXCEPT ![p] = "TERMINATED"]

ClearTerminated(p) ==
  /\ wake' = [wake EXCEPT ![p] = 0]
  /\ entry' = [entry EXCEPT ![p] = FALSE]
  /\ dir' = [dir EXCEPT ![p] = KernelDir]

(* sched_thread_bootstrap *)
Bootstrap(p) ==
  /\ OnCpu(p, "boot")
  /\ entry[p]
  /\ at' = [at EXCEPT ![p] = "run"]
  /\ UNCHANGED <<phase, procVars, cpuVars, clockVars, victim, due>>

(* sched_exit_current, by a task that returns from its entry or finds none.*)
ExitMark(p) ==
  /\ p > IdlePid
  /\ OnCpu(p, "run") \/ (OnCpu(p, "boot") /\ ~entry[p])
  /\ st' = MarkState(st, p)
  /\ at' = [at EXCEPT ![p] = "exitMarked"]
  /\ UNCHANGED <<phase, wake, frame, dir, entry, cpuVars, clockVars, victim, due>>

ExitClear(p) ==
  /\ OnCpu(p, "exitMarked")
  /\ ClearTerminated(p)
  /\ at' = [at EXCEPT ![p] = "exitCleared"]
  /\ UNCHANGED <<phase, st, frame, cpuVars, clockVars, victim, due>>

(* The yield of sched_exit_current; "halted" is the code after it.         *)
ExitYield(p) ==
  /\ OnCpu(p, "exitCleared")
  /\ SwitchFromFrame(st, slice)
  /\ at' = [at EXCEPT ![p] = "halted"]
  /\ UNCHANGED <<phase, wake, dir, entry, preempt, quantum, ticks, victim, due>>

(* scheduler_exit_current_from_interrupt: the EXIT system call of a user   *)
(* task, or a fault it takes in ring 3.  The slot's directory is cleared   *)
(* before another one is activated.                                        *)
ExitFromInterrupt(p) ==
  LET s == MarkState(st, p)
  IN /\ p > IdlePid /\ ~Testing
     /\ OnCpu(p, "run")
     /\ ClearTerminated(p)
     /\ at' = [at EXCEPT ![p] = "halted"]
     /\ \E next \in Pids \union {NoPid} :
          /\ PickNext(s, next)
          /\ IF next = NoPid
             THEN /\ st' = s
                  /\ frame' = [frame EXCEPT ![p] = "stale"]
                  /\ UNCHANGED <<slice, cpuVars>>
             ELSE Activate(s, SavedFrames, next)
     /\ UNCHANGED <<phase, preempt, quantum, ticks, victim, due>>

Killable(q) == q > IdlePid /\ ~Free(q)

(* scheduler_terminate_process from the shell, interrupts on.              *)
KillMark(q) ==
  /\ OnCpu(BootPid, "run") /\ ~Testing
  /\ Killable(q)
  /\ st' = MarkState(st, q)
  /\ victim' = q
  /\ at' = [at EXCEPT ![BootPid] = "killMarked"]
  /\ UNCHANGED <<phase, wake, frame, dir, entry, cpuVars, clockVars, due>>

KillClear ==
  /\ OnCpu(BootPid, "killMarked")
  /\ ClearTerminated(victim)
  /\ victim' = NoPid
  /\ at' = [at EXCEPT ![BootPid] = "run"]
  /\ UNCHANGED <<phase, st, frame, cpuVars, clockVars, due>>

(* scheduler_terminate_process from a system call or a fault of task p on  *)
(* another member of its group, interrupts off.                            *)
KillFromInterrupt(p, q) ==
  /\ p > IdlePid /\ ~Testing
  /\ OnCpu(p, "run")
  /\ Killable(q) /\ q # p
  /\ st' = MarkState(st, q)
  /\ ClearTerminated(q)
  /\ UNCHANGED <<phase, frame, cpuVars, clockVars, at, victim, due>>

(* sched_spawn_kernel_thread_internal, under cli.  A free slot is the      *)
(* first one from first on.                                                *)
FindFreeSlotFrom(first, p) ==
  /\ p \in Pids /\ p >= first /\ p > IdlePid /\ Free(p)
  /\ \A q \in Pids : q >= first /\ q > IdlePid /\ Free(q) => p <= q

SpawnInternal(first, idx, directory) ==
  /\ FindFreeSlotFrom(first, idx)
  /\ st' = [st EXCEPT ![idx] = "READY"]
  /\ wake' = [wake EXCEPT ![idx] = 0]
  /\ frame' = [frame EXCEPT ![idx] = "fresh"]
  /\ dir' = [dir EXCEPT ![idx] = directory]
  /\ entry' = [entry EXCEPT ![idx] = TRUE]
  /\ at' = [at EXCEPT ![idx] = "boot"]
  /\ due' = [due EXCEPT ![idx] = 0]

SpawnKernelTask(p, idx, directory) ==
  /\ OnCpu(p, "run")
  /\ p # IdlePid /\ ~Testing
  /\ SpawnInternal(ExternalMin, idx, directory)
  /\ UNCHANGED <<phase, cpuVars, clockVars, victim>>

-----------------------------------------------------------------------------
(* The boot sequence of pid 0.                                             *)

(* scheduler_runtime_init, then scheduler_enable_preemption of the test.   *)
StartSelfTest ==
  /\ phase = "boot"
  /\ phase' = "testA"
  /\ st' = [p \in Pids |-> CASE p = BootPid -> "RUNNING"
                            [] p = IdlePid -> "READY"
                            [] OTHER -> "UNUSED"]
  /\ wake' = [p \in Pids |-> 0]
  /\ frame' = [p \in Pids |-> IF p = IdlePid THEN "fresh" ELSE "none"]
  /\ dir' = [p \in Pids |-> KernelDir]
  /\ entry' = [p \in Pids |-> p = IdlePid]
  /\ current' = BootPid
  /\ cr3' = KernelDir
  /\ esp0' = BootPid
  /\ preempt' = TRUE
  /\ quantum' = TestQuantum
  /\ slice' = TestQuantum
  /\ UNCHANGED <<ticks, at, victim, due>>

SelfTestSpawn ==
  /\ OnCpu(BootPid, "run")
  /\ \/ phase = "testA" /\ phase' = "testB"
     \/ phase = "testB" /\ phase' = "testWait"
  /\ \E idx \in Pids : SpawnInternal(IdlePid + 1, idx, KernelDir)
  /\ UNCHANGED <<cpuVars, clockVars, victim>>

(* Both test tasks are gone: scheduler_disable_preemption.                 *)
FinishSelfTest ==
  /\ OnCpu(BootPid, "run")
  /\ phase = "testWait"
  /\ \A p \in Pids : p > IdlePid => Free(p)
  /\ phase' = "script"
  /\ preempt' = FALSE
  /\ slice' = quantum
  /\ UNCHANGED <<procVars, cpuVars, quantum, ticks, at, victim, due>>

(* Mutant of EnterMainLoop: preemption stays off.                          *)
EnterMainLoopUnpreempted ==
  /\ OnCpu(BootPid, "run")
  /\ phase = "script"
  /\ phase' = "shell"
  /\ quantum' = ShellQuantum
  /\ slice' = ShellQuantum
  /\ UNCHANGED <<procVars, cpuVars, preempt, ticks, at, victim, due>>

(* The start-up script is done: scheduler_enable_preemption of the shell.  *)
EnterMainLoop ==
  /\ OnCpu(BootPid, "run")
  /\ phase = "script"
  /\ phase' = "shell"
  /\ preempt' = TRUE
  /\ quantum' = ShellQuantum
  /\ slice' = ShellQuantum
  /\ UNCHANGED <<procVars, cpuVars, ticks, at, victim, due>>

Init ==
  /\ phase = "boot"
  /\ st = [p \in Pids |-> "UNUSED"]
  /\ wake = [p \in Pids |-> 0]
  /\ frame = [p \in Pids |-> "none"]
  /\ dir = [p \in Pids |-> KernelDir]
  /\ entry = [p \in Pids |-> FALSE]
  /\ current = NoPid
  /\ preempt = FALSE
  /\ quantum = 0
  /\ slice = 0
  /\ ticks = 0
  /\ cr3 = KernelDir
  /\ esp0 = NoPid
  /\ at = [p \in Pids |-> IF p = BootPid THEN "run" ELSE "boot"]
  /\ victim = NoPid
  /\ due = [p \in Pids |-> 0]

TaskStep(p) ==
  \/ Yield(p)
  \/ \E n \in SleepLengths : SleepSetWake(p, n)
  \/ SleepBlock(p)
  \/ SleepYield(p)
  \/ Bootstrap(p)
  \/ ExitMark(p)
  \/ ExitClear(p)
  \/ ExitYield(p)
  \/ ExitFromInterrupt(p)
  \/ \E q \in Pids : KillFromInterrupt(p, q)
  \/ \E idx \in Pids : \E d \in {KernelDir, idx} : SpawnKernelTask(p, idx, d)

BootStep ==
  \/ StartSelfTest
  \/ SelfTestSpawn
  \/ FinishSelfTest
  \/ EnterMainLoop

Next ==
  \/ BootTick
  \/ TimerTick
  \/ \E p \in Pids : TaskStep(p)
  \/ \E q \in Pids : KillMark(q)
  \/ KillClear
  \/ BootStep

Spec == Init /\ [][Next]_vars

(* The PIT keeps interrupting: no code modelled here runs with interrupts  *)
(* off for ever.  Nothing is assumed of the tasks.                         *)
FairSpec == Spec /\ WF_vars(TimerTick)

-----------------------------------------------------------------------------
(* Properties *)

TypeOK ==
  /\ phase \in Phases
  /\ st \in [Pids -> States]
  /\ wake \in [Pids -> 0 .. TickModulus - 1]
  /\ frame \in [Pids -> Frames]
  /\ dir \in [Pids -> Pids \union {KernelDir}]
  /\ entry \in [Pids -> BOOLEAN]
  /\ current \in Pids \union {NoPid}
  /\ preempt \in BOOLEAN
  /\ quantum \in Nat
  /\ slice \in Nat
  /\ ticks \in 0 .. TickModulus - 1
  /\ cr3 \in Pids \union {KernelDir}
  /\ esp0 \in Pids \union {NoPid}
  /\ at \in [Pids -> Points]
  /\ victim \in Pids \union {NoPid}
  /\ due \in [Pids -> Nat]

(* sched_pick_next always has a slot to return: whoever is on the CPU, in  *)
(* whatever state, it finds a ready task, the running one, or an idle      *)
(* thread that can run.  Its callers treat a negative result as "no        *)
(* switch", which after an exit would go back to a terminated task.        *)
PickNextSucceeds == Booted => ~PickNext(st, NoPid)

(* Only the task on the CPU is RUNNING, also between the stores of a sleep *)
(* or an exit, where a tick can find the current task BLOCKED or           *)
(* TERMINATED, and after a tick woke it before it had left the CPU.        *)
OnlyCurrentRuns == \A p \in Pids : st[p] = "RUNNING" => p = current

(* Every task that is off the CPU and may get it back has a frame that was *)
(* built or saved and not yet returned from: sched_activate_slot resumes   *)
(* no context twice and none that does not exist.                          *)
FramesAreLive ==
  \A p \in Pids \ {current} : st[p] \in {"READY", "RUNNING", "BLOCKED"} => frame[p] \in {"fresh", "saved"}

(* The page directory and the ring-0 stack in use are those of the task on *)
(* the CPU, unless that task is past sched_mark_terminated.                *)
AddressSpaceOfCurrent ==
  Booted => /\ esp0 = current
            /\ st[current] # "TERMINATED" => cr3 = dir[current]

(* The code after the yield of sched_exit_current ("unexpected return      *)
(* after task exit") and the return of a ring-3 exit are never reached.    *)
NoReturnAfterExit == Booted => at[current] # "halted"

(* What a switch must leave in order, wherever the tick falls between the  *)
(* stores of a sleep, an exit or a kill: one running task, contexts that   *)
(* exist and are resumed once, CR3 and the TSS of the task on the CPU, and *)
(* no return into a task that has exited.                                  *)
SwitchIsSound ==
  /\ OnlyCurrentRuns
  /\ FramesAreLive
  /\ AddressSpaceOfCurrent
  /\ NoReturnAfterExit

(* sched_prepare_kernel_thread zeroes the kernel stack of the slot it is   *)
(* given: it is never the stack the CPU is on, though a task that is still *)
(* running its own exit has a slot that sched_find_free_slot_from accepts. *)
NewStackNotInUse ==
  [][\A p \in Pids : Booted /\ frame[p] # "fresh" /\ frame'[p] = "fresh" => p # current]_vars

(* A tick wakes a sleeper only once all the ticks it asked for have passed,*)
(* also when the counter wraps during the sleep and when the sleeper is    *)
(* preempted between its two stores.                                       *)
NeverWokenEarly ==
  [][\A p \in Pids : st[p] = "BLOCKED" /\ st'[p] = "READY" => due'[p] = 0]_vars

(* Round robin starves no one: once preemption stays on, a ready task gets *)
(* the CPU (or is terminated), whatever the other tasks do with it.        *)
ReadyTasksRun ==
  <>[]preempt => \A p \in Pids \ {IdlePid} : st[p] = "READY" ~> st[p] # "READY"

(* A sleeper is woken, with preemption on or off.                          *)
SleepersWake == \A p \in Pids : st[p] = "BLOCKED" ~> st[p] # "BLOCKED"

=============================================================================

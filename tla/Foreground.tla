----------------------------- MODULE Foreground -----------------------------
(***************************************************************************)
(* The shell that starts a foreground application and waits for it         *)
(* (shell_apps_try_execute_elf, shell_apps_wait_for_task_exit), on the     *)
(* scheduler.  The wait is a loop of hlt: it does not give up the CPU.     *)
(***************************************************************************)
EXTENDS Scheduler

VARIABLE waiting       \* the pid the shell waits for, or NoPid

fgVars == <<vars, waiting>>

(* From the start-up script, with preemption off, or from the main loop.   *)
LaunchForeground(idx) ==
  /\ waiting = NoPid
  /\ phase \in {"script", "shell"}
  /\ SpawnKernelTask(BootPid, idx, idx)
  /\ waiting' = idx

WaitForTaskExit ==
  /\ waiting # NoPid
  /\ OnCpu(BootPid, "run")
  /\ Free(waiting)
  /\ waiting' = NoPid
  /\ UNCHANGED vars

(* The steps of Scheduler; a waiting shell makes none of its own.  The     *)
(* table entry of the application it waits for stays in use, so that a     *)
(* thread which is given its slot is ended by the same system call.        *)
ShellStep ==
  \/ TaskStep(BootPid)
  \/ \E q \in Pids : KillMark(q)
  \/ KillClear
  \/ BootStep

SchedulerStep ==
  /\ \/ BootTick
     \/ TimerTick
     \/ \E p \in Pids \ {BootPid} : TaskStep(p)
     \/ waiting = NoPid /\ ShellStep
  /\ UNCHANGED waiting
  /\ waiting # NoPid /\ Free(waiting) => Free(waiting)'

FgInit == Init /\ waiting = NoPid

FgNext ==
  \/ \E idx \in Pids : LaunchForeground(idx)
  \/ WaitForTaskExit
  \/ SchedulerStep

FgSpec == FgInit /\ [][FgNext]_fgVars /\ WF_fgVars(TimerTick /\ UNCHANGED waiting)

-----------------------------------------------------------------------------
(* The programs: whoever gets the CPU again and again goes on with what it *)
(* has begun, the script has an end, the tasks of the self-test return and *)
(* so does the application the shell waits for.  Of background             *)
(* applications nothing is assumed.                                        *)
GoesOn(p) == Bootstrap(p) \/ SleepBlock(p) \/ SleepYield(p) \/ ExitClear(p) \/ ExitYield(p) \/ (p = BootPid /\ KillClear)
Returns(p) == (Testing \/ waiting = p) /\ (ExitMark(p) \/ ExitFromInterrupt(p))

ProgramsProceed ==
  /\ \A p \in Pids \ {IdlePid} : SF_fgVars(GoesOn(p) /\ UNCHANGED waiting)
  /\ \A p \in Pids \ {BootPid, IdlePid} : SF_fgVars(Returns(p) /\ UNCHANGED waiting)
  /\ SF_fgVars(waiting = NoPid /\ BootStep /\ UNCHANGED waiting)
  /\ SF_fgVars(WaitForTaskExit)

AtPrompt == phase = "shell" /\ waiting = NoPid /\ OnCpu(BootPid, "run")

(* p has the CPU, preemption is off, and p waits without a yield for an    *)
(* application, or is one that never yields.                               *)
KeepsCpu(p) == phase = "script" /\ current = p /\ (p = BootPid => waiting # NoPid /\ st[waiting] = "READY")

(* From power-on, and after every command, the shell gets back to its      *)
(* prompt: the self-test ends, the script ends, and every application it   *)
(* waits for gets the CPU, returns and is noticed.  There is one           *)
(* exception, and it is for ever: in the start-up script, which runs with  *)
(* preemption off, the wait of pid 0 (a loop of hlt) or an application     *)
(* that does not yield keeps the CPU.                                      *)
PromptReturns ==
  ProgramsProceed => []<>AtPrompt \/ \E p \in Pids : <>[]KeepsCpu(p)
=============================================================================

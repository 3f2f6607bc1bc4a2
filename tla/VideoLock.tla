------------------------------ MODULE VideoLock ------------------------------
(***************************************************************************)
(* The reentrant spin lock of the video driver (video_lock, video_unlock   *)
(* in video.c) under the preemptive scheduler of a single processor.       *)
(*                                                                         *)
(* Kernel threads (the shell and the videostress workers) draw with        *)
(* interrupts enabled, so the timer may switch tasks between any two       *)
(* stores of the lock.  A foreground application draws in a system call:   *)
(* the int 0x80 gate clears IF, so nothing preempts it until the call      *)
(* returns, except in the input calls, which execute sti before they       *)
(* present the frame.                                                      *)
(***************************************************************************)
EXTENDS Integers, FiniteSets

CONSTANTS Kernel,      \* the kernel threads that draw
          Apps,        \* the applications that draw through system calls
          Succ,        \* the order in which the scheduler picks ready tasks
          None,        \* VIDEO_LOCK_OWNER_NONE
          MaxDepth     \* bound on the nesting of video_lock calls

ASSUME TasksAssumption == Kernel \cap Apps = {}
ASSUME DepthAssumption == MaxDepth \in Nat \ {0}

Tasks == Kernel \cup Apps

(* scheduler_pick_next goes round the table: from any task it comes to     *)
(* every other.                                                            *)
ASSUME SuccAssumption ==
  /\ Succ \in [Tasks -> Tasks]
  /\ \A S \in SUBSET Tasks :
       S # {} /\ (\A t \in S : Succ[t] \in S) => S = Tasks

(* VIDEO_LOCK_OWNER_NONE is no task's pid.                                 *)
ASSUME NoneAssumption == None \notin Tasks

VARIABLES flag,   \* g_video_lock_flag
          owner,  \* g_video_lock_owner
          depth,  \* g_video_lock_depth
          pc,     \* per task, the next store of the lock operation under way
          held,   \* per task, its video_lock calls not yet matched
          masked, \* per task, TRUE while it runs with IF = 0
          cpu,    \* the task that is running
          ran     \* TRUE once it has executed since it was dispatched

lockVars == <<flag, owner, depth>>
taskVars == <<pc, held, masked>>
vars == <<flag, owner, depth, pc, held, masked, cpu, ran>>

Init ==
  /\ flag = 0
  /\ owner = None
  /\ depth = 0
  /\ pc = [t \in Tasks |-> "out"]
  /\ held = [t \in Tasks |-> 0]
  /\ masked = [t \in Tasks |-> FALSE]
  /\ cpu \in Tasks
  /\ ran = FALSE

(* Task t executes one step of its program and moves to label to.          *)
Goto(t, from, to) ==
  /\ cpu = t
  /\ ran' = TRUE
  /\ cpu' = cpu
  /\ pc[t] = from
  /\ pc' = [pc EXCEPT ![t] = to]

-----------------------------------------------------------------------------
(* A drawing operation starts: a kernel thread keeps IF = 1; a system call *)
(* of an application has IF = 0, or IF = 1 after an input call's sti.      *)
Enter(t) ==
  /\ Goto(t, "out", "test")
  /\ \E m \in BOOLEAN :
       /\ m => t \in Apps
       /\ masked' = [masked EXCEPT ![t] = m]
  /\ UNCHANGED <<flag, owner, depth, held>>

(* Nested video_lock call of the task that is inside.                      *)
CallAgain(t) ==
  /\ held[t] < MaxDepth
  /\ Goto(t, "in", "test")
  /\ UNCHANGED <<flag, owner, depth, held, masked>>

(* if (g_video_lock_owner == owner) { g_video_lock_depth++; return; }      *)
TestOwner(t) ==
  \/ /\ owner = t
     /\ Goto(t, "test", "in")
     /\ depth' = depth + 1
     /\ held' = [held EXCEPT ![t] = @ + 1]
     /\ UNCHANGED <<flag, owner, masked>>
  \/ /\ owner # t
     /\ Goto(t, "test", "spin")
     /\ UNCHANGED <<flag, owner, depth, held, masked>>

(* __sync_lock_test_and_set(&g_video_lock_flag, 1) that returns zero.      *)
TestAndSet(t) ==
  /\ flag = 0
  /\ Goto(t, "spin", "owner")
  /\ flag' = 1
  /\ UNCHANGED <<owner, depth, held, masked>>

(* The same while another task has the flag: the task goes on spinning.    *)
Spin(t) ==
  /\ flag = 1
  /\ Goto(t, "spin", "spin")
  /\ UNCHANGED <<flag, owner, depth, held, masked>>

SetOwner(t) ==
  /\ Goto(t, "owner", "depth")
  /\ owner' = t
  /\ UNCHANGED <<flag, depth, held, masked>>

SetDepth(t) ==
  /\ Goto(t, "depth", "in")
  /\ depth' = 1
  /\ held' = [held EXCEPT ![t] = 1]
  /\ UNCHANGED <<flag, owner, masked>>

(* video_unlock: the owner test, g_video_lock_depth--, and the test for    *)
(* the outermost call.                                                     *)
OwnedDepth(t) == IF owner = t THEN depth - 1 ELSE depth

Unlock(t) ==
  /\ pc[t] \in {"in", "leaving"}
  /\ depth' = OwnedDepth(t)
  /\ Goto(t, pc[t], IF depth' = 0 THEN "disown" ELSE "leaving")
  /\ held' = [held EXCEPT ![t] = @ - 1]
  /\ UNCHANGED <<flag, owner, masked>>

(* Mutant of ClearOwner: the owner is left set when the flag is released.  *)
ClearOwnerForgotten(t) ==
  /\ Goto(t, "disown", "release")
  /\ UNCHANGED <<flag, owner, depth, held, masked>>

ClearOwner(t) ==
  /\ Goto(t, "disown", "release")
  /\ owner' = None
  /\ UNCHANGED <<flag, depth, held, masked>>

(* Mutant of Release: the flag is cleared only for kernel threads.         *)
ReleaseKernelOnly(t) ==
  /\ Goto(t, "release", "rest")
  /\ flag' = IF t \in Kernel THEN 0 ELSE flag
  /\ masked' = [masked EXCEPT ![t] = FALSE]
  /\ UNCHANGED <<owner, depth, held>>

(* __sync_lock_release: the drawing operation ends.                        *)
Release(t) ==
  /\ Goto(t, "release", "rest")
  /\ flag' = 0
  /\ masked' = [masked EXCEPT ![t] = FALSE]
  /\ UNCHANGED <<owner, depth, held>>

(* After an operation the task lets the others run: scheduler_yield in     *)
(* video_stress_worker, timer_wait_for_interrupt in the shell's input loop *)
(* and in an application's wait for an event.                              *)
Rest(t) ==
  /\ cpu = t
  /\ pc[t] = "rest"
  /\ pc' = [pc EXCEPT ![t] = "out"]
  /\ cpu' = Succ[cpu]
  /\ ran' = FALSE
  /\ UNCHANGED <<flag, owner, depth, held, masked>>

(* IRQ0 preempts the running task, if its interrupts are enabled.  The     *)
(* quantum is far longer than an instruction: the task has executed.       *)
Preempt ==
  /\ ~masked[cpu]
  /\ ran
  /\ cpu' = Succ[cpu]
  /\ ran' = FALSE
  /\ UNCHANGED <<lockVars, taskVars>>

Step(t) ==
  \/ Enter(t) \/ CallAgain(t) \/ TestOwner(t) \/ TestAndSet(t) \/ Spin(t)
  \/ SetOwner(t) \/ SetDepth(t) \/ Unlock(t) \/ ClearOwner(t) \/ Release(t)
  \/ Rest(t)

Next == Preempt \/ \E t \in Tasks : Step(t)

Spec == Init /\ [][Next]_vars

(* The processor executes and the timer ticks.                             *)
Fairness ==
  /\ WF_vars(Preempt)
  /\ WF_vars(\E t \in Tasks : Step(t))

LiveSpec == Spec /\ Fairness

-----------------------------------------------------------------------------
(* Labels at which a task has the flag.                                    *)
Holding == {"owner", "depth", "in", "leaving", "disown", "release"}

(* Task t has the lock: it took the flag and has not released it.          *)
Holds(t) == pc[t] \in Holding \/ held[t] > 0

(* Type invariant of the lock words and of the tasks' control state.       *)
TypeOK ==
  /\ flag \in {0, 1}
  /\ owner \in Tasks \cup {None}
  /\ depth \in 0..MaxDepth
  /\ pc \in [Tasks -> Holding \cup {"out", "test", "spin", "rest"}]
  /\ held \in [Tasks -> 0..MaxDepth]
  /\ masked \in [Tasks -> BOOLEAN]
  /\ cpu \in Tasks
  /\ ran \in BOOLEAN

(* Two tasks are never between video_lock and video_unlock together,       *)
(* wherever the timer interrupts the stores of the lock words.             *)
MutualExclusion ==
  \A t, u \in Tasks : Holds(t) /\ Holds(u) => t = u

(* At most one task has the lock, and the lock words agree with who.  The  *)
(* pid comparison that makes the lock reentrant is never true of a task    *)
(* that does not have the lock, and the depth counts that task's open      *)
(* calls, so the flag is released by the last video_unlock and by no       *)
(* earlier one.  The flag is set exactly while some task has the lock: no  *)
(* unlock is lost, and none frees the lock under its holder.               *)
LockWordsSound ==
  /\ MutualExclusion
  /\ \A t \in Tasks :
       /\ owner = t => Holds(t)
       /\ owner = t /\ pc[t] # "depth" => depth = held[t]
  /\ flag = 1 <=> \E t \in Tasks : Holds(t)

(* A system call spins with IF = 0 on a lock that a suspended task has.    *)
MaskedSpin ==
  masked[cpu] /\ pc[cpu] = "spin" /\ \E t \in Tasks \ {cpu} : Holds(t)

(* Every task that waits for the lock gets it, so a drawing call returns   *)
(* and the videostress workers reach their end, unless a system call spins *)
(* with interrupts masked while the holder is suspended: there is no other *)
(* way for drawing to stop.                                                *)
EveryDrawProceeds ==
  \A t \in Tasks : pc[t] = "spin" ~> (Holds(t) \/ MaskedSpin)
=============================================================================

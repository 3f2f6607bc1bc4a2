------------------------------ MODULE AppTasks ------------------------------
(***************************************************************************)
(* The life cycle of user applications: the app table, the physical arena, *)
(* foreground and background launches, kill, threads, exit and fault of an *)
(* app group (shell/shell_apps.c, shell/shell_apps_launch.inc), over the   *)
(* scheduler's slots.                                                      *)
(*                                                                         *)
(* The shell (pid 0) runs with interrupts on: a launch, a kill and a reap  *)
(* are cut where an application can observe them half done.  What an       *)
(* application does through int 0x80 or a fault runs with interrupts off   *)
(* and is one action.  Any task may get the CPU between two actions, which *)
(* is what Scheduler allows once preemption is on.                         *)
(*                                                                         *)
(* Nothing in the code keeps an application from exiting or creating a     *)
(* thread while the shell is inside a command.  calm and grown record      *)
(* whether that disturbed a launch, so that the properties can tell the    *)
(* points where it is harmless from the others.                            *)
(***************************************************************************)
EXTENDS Integers, FiniteSets

CONSTANTS
  FirstPid, LastPid,  \* APP_SLOT_FIRST_PID, SCHEDULER_MAX_PROCESSES - 1
  PageCount,          \* APP_ARENA_PAGE_COUNT
  SlotSizes,          \* the slot sizes, in pages, that images ask for
  MaxWorkers          \* kernel tasks alive at once (videostress)

(* Where the shell stands.                                                 *)
ShellPoints == {"prompt", "reap", "read", "zero", "pages", "again", "find", "alloc",
                "copy", "fields", "map", "load", "spawn", "wait", "stop",
                "group", "kill", "mark", "clear"}

ASSUME AppTasksConstants ==
  /\ FirstPid \in Nat /\ LastPid \in Nat /\ 1 < FirstPid /\ FirstPid <= LastPid
  /\ PageCount \in Nat
  /\ SlotSizes \subseteq Nat \ {0}
  /\ MaxWorkers \in Nat

AppPids == FirstPid .. LastPid
NoPid == -1
NoPage == -1
KernelDir == -1
Pages == 0 .. PageCount - 1

VARIABLES
  tab,     \* g_app_tasks
  used,    \* the pages marked in g_app_phys_page_used
  alive,   \* the slots that are neither PROCESS_UNUSED nor PROCESS_TERMINATED
  dirOf,   \* pcb.context.page_directory: KernelDir or the entry that holds it,
           \* which is also the argument of shell_apps_background_thread
  at,      \* how far the task in the slot has come
  pc,      \* the shell's next step
  ret,     \* where the shell goes after the reap or the termination under way
  job,     \* the launch under way: background, pid, base, size
  idx,     \* the loop variable of the reap or the kill under way
  rel,     \* the argument, the locals and the caller of shell_apps_release_task
  victim,  \* the argument of scheduler_terminate_process
  group,   \* the leader of the group being killed
  before,  \* history: the slots of the applications alive when the command
           \* started, and of the threads created since
  calm,    \* history: no task has ended while the shell was inside a launch,
           \* no kernel worker has been started, and grown is FALSE
  grown    \* history: a thread was created where Disturbs says it matters

taskVars == <<alive, dirOf, at>>
memVars == <<tab, used>>
shellVars == <<pc, ret, job, idx, rel, victim, group, before>>
vars == <<tab, used, alive, dirOf, at, pc, ret, job, idx, rel, victim, group, before, calm, grown>>

(* A zeroed shell_app_task_t.  base and size are in pages; built says that *)
(* page_directory and user_pt hold the mapping of that span.               *)
ZeroTask == [inUse |-> FALSE, leader |-> 0, background |-> FALSE, join |-> FALSE,
             owns |-> FALSE, base |-> 0, size |-> 0, built |-> FALSE]

NoJob == [background |-> FALSE, pid |-> NoPid, base |-> NoPage, size |-> 0]
NoRel == [pid |-> NoPid, base |-> 0, size |-> 0, owns |-> FALSE, to |-> "prompt"]

Span(task) == task.base .. (task.base + task.size - 1)

(* shell_apps_group_leader_pid *)
GroupLeader(p) == IF tab[p].leader >= FirstPid THEN tab[p].leader ELSE p

Members(leader) == {p \in AppPids : tab[p].inUse /\ GroupLeader(p) = leader}

First(S, p) == p \in S /\ \A q \in S : p <= q

(* Mutant of Reapable: a slot that has run is never reaped.                *)
ReapableNever(p) == FALSE

(* The test of shell_apps_reap_terminated_tasks.                           *)
Reapable(p) == tab[p].inUse /\ p \notin alive /\ ~tab[p].join

-----------------------------------------------------------------------------
(* scheduler_spawn_kernel_task and sched_mark_terminated                   *)

SpawnSlot(p) == First(AppPids \ alive, p)

Started(p, directory, point) ==
  /\ alive' = alive \union {p}
  /\ dirOf' = [dirOf EXCEPT ![p] = directory]
  /\ at' = [at EXCEPT ![p] = point]

Ended(S) ==
  /\ alive' = alive \ S
  /\ dirOf' = [p \in AppPids |-> IF p \in S THEN KernelDir ELSE dirOf[p]]
  /\ at' = [p \in AppPids |-> IF p \in S THEN "gone" ELSE at[p]]

LiveApps == {p \in alive : dirOf[p] # KernelDir}

-----------------------------------------------------------------------------
(* The shell reads a command: run, runbg, kill or videostress.             *)

CommandLaunch(background, size) ==
  /\ pc = "prompt"
  /\ pc' = "reap"
  /\ ret' = "again"
  /\ idx' = FirstPid
  /\ job' = [NoJob EXCEPT !.background = background, !.size = size]
  /\ before' = LiveApps
  /\ UNCHANGED <<memVars, taskVars, rel, victim, group>>

CommandKill(p) ==
  /\ pc = "prompt"
  /\ pc' = "reap"
  /\ ret' = "group"
  /\ idx' = FirstPid
  /\ job' = [NoJob EXCEPT !.pid = p]
  /\ before' = LiveApps
  /\ UNCHANGED <<memVars, taskVars, rel, victim, group>>

Workers == {p \in alive : at[p] = "worker"}

(* video_start_stress_workers, one worker.                                 *)
CommandStress(p) ==
  /\ pc = "prompt"
  /\ Cardinality(Workers) < MaxWorkers
  /\ SpawnSlot(p)
  /\ Started(p, KernelDir, "worker")
  /\ UNCHANGED <<memVars, shellVars>>

(* The command is over; its locals are gone.                               *)
Done ==
  /\ pc' = "prompt"
  /\ ret' = "prompt"
  /\ job' = NoJob
  /\ idx' = FirstPid
  /\ victim' = NoPid
  /\ group' = NoPid
  /\ before' = {}

-----------------------------------------------------------------------------
(* shell_apps_reap_terminated_tasks, one table entry at a time.            *)

ReapScan ==
  /\ pc = "reap"
  /\ idx <= LastPid
  /\ IF Reapable(idx)
     THEN /\ pc' = "read"
          /\ rel' = [NoRel EXCEPT !.pid = idx, !.to = "reap"]
          /\ UNCHANGED idx
     ELSE /\ idx' = idx + 1
          /\ UNCHANGED <<pc, rel>>
  /\ UNCHANGED <<memVars, taskVars, ret, job, victim, group, before>>

ReapReturn ==
  /\ pc = "reap"
  /\ idx > LastPid
  /\ pc' = ret
  /\ UNCHANGED <<memVars, taskVars, ret, job, idx, rel, victim, group, before>>

(* The reap at the start of a launch is followed by that of                *)
(* shell_apps_find_free_pid.                                               *)
ReapAgain ==
  /\ pc = "again"
  /\ pc' = "reap"
  /\ ret' = "find"
  /\ idx' = FirstPid
  /\ UNCHANGED <<memVars, taskVars, job, rel, victim, group, before>>

(* shell_apps_release_task: the fields are read, the entry is zeroed, and  *)
(* the pages are returned.                                                 *)
ReleaseRead ==
  /\ pc = "read"
  /\ pc' = "zero"
  /\ rel' = [rel EXCEPT !.base = tab[rel.pid].base,
                        !.size = tab[rel.pid].size,
                        !.owns = tab[rel.pid].owns]
  /\ UNCHANGED <<memVars, taskVars, ret, job, idx, victim, group, before>>

ReleaseZero ==
  /\ pc = "zero"
  /\ pc' = "pages"
  /\ tab' = [tab EXCEPT ![rel.pid] = ZeroTask]
  /\ UNCHANGED <<used, taskVars, ret, job, idx, rel, victim, group, before>>

(* shell_apps_release_phys_range                                           *)
ReleasedPages(r) == IF r.owns THEN Span(r) ELSE {}

ReleasePages ==
  /\ pc = "pages"
  /\ used' = used \ ReleasedPages(rel)
  /\ rel' = NoRel
  /\ \/ rel.to = "reap" /\ pc' = "reap" /\ idx' = idx + 1 /\ UNCHANGED <<ret, job, victim, group, before>>
     \/ rel.to = "stop" /\ pc' = "stop" /\ UNCHANGED <<ret, idx, job, victim, group, before>>
     \/ rel.to = "prompt" /\ Done
  /\ UNCHANGED <<tab, taskVars>>

Release(p, to) ==
  /\ pc' = "read"
  /\ rel' = [NoRel EXCEPT !.pid = p, !.to = to]

-----------------------------------------------------------------------------
(* shell_apps_try_execute_elf, shell_apps_try_execute_com and              *)
(* shell_apps_run_background, once the image is known to be valid.         *)

FreeEntries == {p \in AppPids : ~tab[p].inUse}

(* shell_apps_find_free_pid, then the reap of shell_apps_allocate_phys_base*)
FindFreePid ==
  /\ pc = "find"
  /\ \E p \in FreeEntries :
       /\ First(FreeEntries, p)
       /\ job' = [job EXCEPT !.pid = p]
       /\ pc' = "reap"
       /\ ret' = "alloc"
       /\ idx' = FirstPid
  /\ UNCHANGED <<memVars, taskVars, rel, victim, group, before>>

(* "No scheduler slot available"                                           *)
FindNoPid ==
  /\ pc = "find"
  /\ FreeEntries = {}
  /\ Done
  /\ UNCHANGED <<memVars, taskVars, rel>>

(* The page numbers at which n pages in a row are free.                    *)
FreeRuns(n, taken) ==
  {b \in Pages : b + n <= PageCount /\ (b .. (b + n - 1)) \intersect taken = {}}

(* shell_apps_allocate_phys_base, the search and the marking under cli.    *)
AllocatePhysBase ==
  /\ pc = "alloc"
  /\ \E b \in FreeRuns(job.size, used) :
       /\ First(FreeRuns(job.size, used), b)
       /\ used' = used \union (b .. (b + job.size - 1))
       /\ job' = [job EXCEPT !.base = b]
  /\ pc' = "copy"
  /\ UNCHANGED <<tab, taskVars, ret, idx, rel, victim, group, before>>

(* "No app memory slot available"                                          *)
AllocateNoRoom ==
  /\ pc = "alloc"
  /\ FreeRuns(job.size, used) = {}
  /\ Done
  /\ UNCHANGED <<memVars, taskVars, rel>>

(* shell_apps_prepare_app_task: shell_apps_copy_host_state zeroes the      *)
(* entry and gives it the shell's own pid; then the fields; then           *)
(* paging_build_app_directory, which the checked sizes let succeed.        *)
PrepareCopy ==
  /\ pc = "copy"
  /\ pc' = "fields"
  /\ tab' = [tab EXCEPT ![job.pid] =
               [ZeroTask EXCEPT !.inUse = TRUE, !.background = job.background]]
  /\ UNCHANGED <<used, taskVars, ret, job, idx, rel, victim, group, before>>

PrepareFields ==
  /\ pc = "fields"
  /\ pc' = "map"
  /\ tab' = [tab EXCEPT ![job.pid].leader = job.pid,
                        ![job.pid].base = job.base,
                        ![job.pid].size = job.size,
                        ![job.pid].owns = TRUE,
                        ![job.pid].join = ~job.background]
  /\ UNCHANGED <<used, taskVars, ret, job, idx, rel, victim, group, before>>

PrepareMap ==
  /\ pc = "map"
  /\ pc' = "load"
  /\ tab' = [tab EXCEPT ![job.pid].built = TRUE]
  /\ UNCHANGED <<used, taskVars, ret, job, idx, rel, victim, group, before>>

(* The image is loaded, or found not to fit.                               *)
LoadImage ==
  /\ pc = "load"
  /\ \/ pc' = "spawn" /\ UNCHANGED rel
     \/ Release(job.pid, "prompt")
  /\ UNCHANGED <<memVars, taskVars, ret, job, idx, victim, group, before>>

(* scheduler_spawn_kernel_task gives the task the slot of its entry.       *)
SpawnTask ==
  /\ pc = "spawn"
  /\ SpawnSlot(job.pid)
  /\ Started(job.pid, job.pid, "boot")
  /\ \/ job.background /\ Done
     \/ ~job.background /\ pc' = "wait" /\ UNCHANGED <<ret, job, idx, victim, group, before>>
  /\ UNCHANGED <<memVars, rel>>

(* It gives another slot: the entry is released, then the task stopped.    *)
SpawnElsewhere ==
  /\ pc = "spawn"
  /\ \E p \in AppPids \ {job.pid} :
       /\ SpawnSlot(p)
       /\ Started(p, job.pid, "boot")
       /\ victim' = p
  /\ Release(job.pid, "stop")
  /\ UNCHANGED <<memVars, ret, job, idx, group, before>>

SpawnNowhere ==
  /\ pc = "spawn"
  /\ AppPids \subseteq alive
  /\ Release(job.pid, "prompt")
  /\ UNCHANGED <<memVars, taskVars, ret, job, idx, victim, group, before>>

(* Mutant of StopElsewhere: only the entry is released.                    *)
StopElsewhereNot ==
  /\ pc = "stop"
  /\ Done
  /\ UNCHANGED <<memVars, taskVars, rel>>

StopElsewhere ==
  /\ pc = "stop"
  /\ pc' = "mark"
  /\ ret' = "prompt"
  /\ UNCHANGED <<memVars, taskVars, job, idx, rel, victim, group, before>>

(* shell_apps_wait_for_task_exit, then the release of the entry.           *)
WaitForTaskExit ==
  /\ pc = "wait"
  /\ job.pid \notin alive
  /\ Release(job.pid, "prompt")
  /\ UNCHANGED <<memVars, taskVars, ret, job, idx, victim, group, before>>

-----------------------------------------------------------------------------
(* shell_apps_stop_background                                              *)

StopFindTask ==
  /\ pc = "group"
  /\ IF tab[job.pid].inUse
     THEN /\ pc' = "kill"
          /\ group' = GroupLeader(job.pid)
          /\ idx' = FirstPid
          /\ UNCHANGED <<ret, job, victim, before>>
     ELSE Done
  /\ UNCHANGED <<memVars, taskVars, rel>>

(* The members release_group_members terminates: all but the leader.       *)
StopsMember(p) == p \in Members(group) /\ p # group

StopMember ==
  /\ pc = "kill"
  /\ idx <= LastPid
  /\ IF StopsMember(idx)
     THEN /\ pc' = "mark"
          /\ ret' = "kill"
          /\ victim' = idx
     ELSE UNCHANGED <<pc, ret, victim>>
  /\ idx' = idx + 1
  /\ UNCHANGED <<memVars, taskVars, job, rel, group, before>>

(* Mutant of LastVictim: the task named in the command, not its leader.    *)
LastVictimNamed == job.pid

LastVictim == group

StopLeader ==
  /\ pc = "kill"
  /\ idx > LastPid
  /\ pc' = "mark"
  /\ ret' = "prompt"
  /\ victim' = LastVictim
  /\ UNCHANGED <<memVars, taskVars, job, idx, rel, group, before>>

(* scheduler_terminate_process with interrupts on: the state, then the     *)
(* other fields of sched_mark_terminated.                                  *)
Return ==
  \/ ret = "prompt" /\ Done
  \/ ret # "prompt" /\ pc' = ret /\ UNCHANGED <<ret, job, idx, victim, group, before>>

TerminateMark ==
  /\ pc = "mark"
  /\ IF victim \in alive
     THEN /\ alive' = alive \ {victim}
          /\ pc' = "clear"
          /\ UNCHANGED <<ret, job, idx, victim, group, before>>
     ELSE UNCHANGED alive /\ Return
  /\ UNCHANGED <<memVars, dirOf, at, rel>>

TerminateClear ==
  /\ pc = "clear"
  /\ dirOf' = [dirOf EXCEPT ![victim] = KernelDir]
  /\ at' = [at EXCEPT ![victim] = IF victim \in alive /\ @ # "boot" THEN @ ELSE "gone"]
  /\ Return
  /\ UNCHANGED <<memVars, alive, rel>>

-----------------------------------------------------------------------------
(* The applications.                                                       *)

(* shell_apps_background_thread; a cleared thread_entry ("gone") or entry  *)
(* makes the task exit.                                                    *)
BackgroundThread(p) ==
  /\ p \in alive
  /\ at[p] \in {"boot", "gone"}
  /\ IF at[p] = "boot" /\ tab[dirOf[p]].inUse
     THEN at' = [at EXCEPT ![p] = "user"] /\ UNCHANGED <<alive, dirOf>>
     ELSE Ended({p})
  /\ UNCHANGED <<memVars, shellVars>>

WorkerExit(p) ==
  /\ p \in Workers
  /\ Ended({p})
  /\ UNCHANGED <<memVars, shellVars>>

(* shell_apps_on_current_task_exit, then the exit of the task itself.      *)
ExitEnds(p) == {p} \union (IF tab[p].inUse /\ GroupLeader(p) = p THEN Members(p) ELSE {})

Exit(p) ==
  /\ p \in alive /\ at[p] = "user"
  /\ Ended(ExitEnds(p))
  /\ UNCHANGED <<memVars, shellVars>>

(* shell_apps_on_current_task_fault, then the exit of the task itself.     *)
FaultEnds(p) == {p} \union (IF tab[p].inUse THEN Members(GroupLeader(p)) ELSE {})

Fault(p) ==
  /\ p \in alive /\ at[p] = "user"
  /\ Ended(FaultEnds(p))
  /\ UNCHANGED <<memVars, shellVars>>

(* shell_apps_spawn_app_thread.  The whole reap happens first, then the    *)
(* entry is a copy of the caller's that owns no memory.                    *)
Reaped == {p \in AppPids : Reapable(p)}

ReapedTab == [p \in AppPids |-> IF p \in Reaped THEN ZeroTask ELSE tab[p]]

(* Mutant of ThreadTask: the copy keeps owns_app_memory.                   *)
ThreadTaskOwner(p) == [tab[p] EXCEPT !.leader = GroupLeader(p), !.join = FALSE]

(* shell_apps_clone_background_task                                        *)
ThreadTask(p) ==
  [tab[p] EXCEPT !.leader = GroupLeader(p), !.owns = FALSE, !.join = FALSE, !.built = TRUE]

SpawnThread(p) ==
  /\ p \in alive /\ at[p] = "user"
  /\ tab[p].inUse /\ tab[p].background
  /\ used' = used \ UNION {ReleasedPages(tab[q]) : q \in Reaped}
  /\ LET free == {q \in AppPids : ~ReapedTab[q].inUse}
     IN \/ /\ free = {} \/ AppPids \subseteq alive
           /\ tab' = ReapedTab
           /\ UNCHANGED taskVars
        \/ \E c \in free, s \in AppPids \ alive :
             /\ First(free, c)
             /\ SpawnSlot(s)
             /\ IF s = c
                THEN /\ tab' = [ReapedTab EXCEPT ![c] = ThreadTask(p)]
                     /\ Started(c, c, "boot")
                ELSE /\ tab' = ReapedTab
                     /\ UNCHANGED taskVars
  /\ before' = before \union {q \in alive' \ alive : pc \notin {"prompt", "wait"}}
  /\ UNCHANGED <<pc, ret, job, idx, rel, victim, group>>

-----------------------------------------------------------------------------
Init ==
  /\ tab = [p \in AppPids |-> ZeroTask]
  /\ used = {}
  /\ alive = {}
  /\ dirOf = [p \in AppPids |-> KernelDir]
  /\ at = [p \in AppPids |-> "gone"]
  /\ pc = "prompt"
  /\ ret = "prompt"
  /\ job = NoJob
  /\ idx = FirstPid
  /\ rel = NoRel
  /\ victim = NoPid
  /\ group = NoPid
  /\ before = {}
  /\ calm = TRUE
  /\ grown = FALSE

Command ==
  \/ \E background \in BOOLEAN, size \in SlotSizes : CommandLaunch(background, size)
  \/ \E p \in AppPids : CommandKill(p)
  \/ \E p \in AppPids : CommandStress(p)

ShellStep ==
  \/ ReapScan \/ ReapReturn \/ ReapAgain
  \/ ReleaseRead \/ ReleaseZero \/ ReleasePages
  \/ FindFreePid \/ FindNoPid \/ AllocatePhysBase \/ AllocateNoRoom
  \/ PrepareCopy \/ PrepareFields \/ PrepareMap \/ LoadImage
  \/ SpawnTask \/ SpawnElsewhere \/ SpawnNowhere \/ StopElsewhere
  \/ WaitForTaskExit
  \/ StopFindTask \/ StopMember \/ StopLeader
  \/ TerminateMark \/ TerminateClear

AppStep(p) ==
  \/ BackgroundThread(p)
  \/ WorkerExit(p)
  \/ Exit(p)
  \/ Fault(p)

(* The points at which the shell holds no entry or page that a task that   *)
(* ends could disturb.                                                     *)
Settled == {"prompt", "wait", "group", "kill", "mark", "clear"}

(* A thread of p is created after the shell has chosen the entry it is     *)
(* about to fill or to release, while the shell kills the group of p, or   *)
(* between the two stores that end a task, when its slot is free already.  *)
Disturbs(p) ==
  \/ job.size > 0 /\ job.pid # NoPid /\ pc # "wait"
  \/ pc \in {"read", "zero", "pages", "clear"}
  \/ group # NoPid /\ GroupLeader(p) = group

Next ==
  \/ /\ Command \/ ShellStep \/ \E p \in AppPids : AppStep(p)
     /\ calm' = (calm /\ Workers' \subseteq Workers /\ (pc \in Settled \/ alive \subseteq alive'))
     /\ UNCHANGED grown
  \/ \E p \in AppPids :
       /\ SpawnThread(p)
       /\ grown' = (grown \/ Disturbs(p))
       /\ calm' = (calm /\ ~grown')

Spec == Init /\ [][Next]_vars

-----------------------------------------------------------------------------
(* Properties *)

(* The records: shell_app_task_t, a launch, a release.                     *)
AppTask == [inUse : BOOLEAN, leader : AppPids \union {0}, background : BOOLEAN, join : BOOLEAN,
            owns : BOOLEAN, base : Nat, size : SlotSizes \union {0}, built : BOOLEAN]
Job == [background : BOOLEAN, pid : AppPids \union {NoPid}, base : Nat \union {NoPage}, size : SlotSizes \union {0}]
Rel == [pid : AppPids \union {NoPid}, base : Nat, size : SlotSizes \union {0}, owns : BOOLEAN,
        to : {"prompt", "reap", "stop"}]

TypeOK ==
  /\ tab \in [AppPids -> AppTask]
  /\ used \subseteq Pages
  /\ alive \subseteq AppPids
  /\ dirOf \in [AppPids -> AppPids \union {KernelDir}]
  /\ at \in [AppPids -> {"gone", "boot", "user", "worker"}]
  /\ pc \in ShellPoints /\ ret \in ShellPoints
  /\ job \in Job
  /\ idx \in FirstPid .. LastPid + 1
  /\ rel \in Rel
  /\ victim \in AppPids \union {NoPid}
  /\ group \in AppPids \union {NoPid}
  /\ before \subseteq AppPids
  /\ calm \in BOOLEAN
  /\ grown \in BOOLEAN

(* The page directory a live task runs on is whole: the storage inside the *)
(* app table is not zeroed by a release while sched_activate_slot can      *)
(* still load it into CR3, wherever tasks end, kernel workers take slots   *)
(* and a launch fails.  The exception is the task of a launch that got     *)
(* another slot than its entry's: its directory is released before it is   *)
(* terminated, and it can be dispatched in between; the command does not   *)
(* return before it is stopped.  Threads created where Disturbs says it    *)
(* matters are left out.                                                   *)
LiveDirectoriesIntact ==
  ~grown => \A p \in LiveApps : tab[dirOf[p]].built \/ (p = victim /\ pc \in {"pages", "stop", "mark"})

(* The pages a live task maps are reserved in the arena, so that no later  *)
(* launch is given them, and they belong to its group alone.  With the     *)
(* shell at its prompt, the arena holds exactly the spans of the entries   *)
(* that own memory: no launch, failed launch, kill or reap leaks a page or *)
(* frees one twice.                                                        *)
ArenaSound ==
  /\ ~grown => \A p \in LiveApps :
       /\ Span(tab[dirOf[p]]) \subseteq used
       /\ \A q \in LiveApps : GroupLeader(p) # GroupLeader(q) =>
            Span(tab[dirOf[p]]) \intersect Span(tab[dirOf[q]]) = {}
  /\ pc = "prompt" /\ ~grown => used = UNION {Span(tab[p]) : p \in {q \in AppPids : tab[q].inUse /\ tab[q].owns}}

(* What had terminated when a command was typed is reused: its launch is   *)
(* refused for want of a slot only if every slot held a live application   *)
(* then, and for want of memory only if the pages of the tasks alive then  *)
(* leave no run long enough.                                               *)
TerminatedReusable ==
  [][calm => /\ FindNoPid => before = AppPids
             /\ AllocateNoRoom =>
                  FreeRuns(job.size, UNION {Span(tab[p]) : p \in {q \in before : tab[q].inUse}}) = {}]_vars

(* A thread outlives its leader in no state: exit, fault and kill take the *)
(* threads with them before the memory they run in can be reaped; and when *)
(* kill reports its result, no member of the group is alive.  A thread     *)
(* created while the shell kills its group, or in the entry of a launch    *)
(* under way, is the exception (grown).                                    *)
GroupEndsTogether ==
  [][~grown' =>
     /\ \A p \in alive' : dirOf'[p] = p => GroupLeader(p)' \in alive'
     /\ group # NoPid /\ pc' = "prompt" => \A p \in alive' : p \notin Members(group)]_vars
=============================================================================

--------------------------- MODULE AppTasksProofs ---------------------------
(***************************************************************************)
(* The life cycle of applications for every number of slots, every arena   *)
(* and every set of slot sizes.                                            *)
(***************************************************************************)
EXTENDS AppTasks, TLAPS

-----------------------------------------------------------------------------
(* The inductive invariant *)

(* What the shell's locals are at each of its steps.                       *)
Launching == job.size > 0 /\ group = NoPid

Searching == Launching /\ job.pid = NoPid

Chosen == Launching /\ job.pid \in AppPids

Stopping == group = NoPid /\ job.size = 0 /\ job.pid \in AppPids

Killing == group \in AppPids /\ job.size = 0 /\ job.pid \in AppPids

Elsewhere == Chosen /\ victim \in AppPids \ {job.pid}

Releasing == pc \in {"read", "zero", "pages"}

(* The shell is inside shell_apps_reap_terminated_tasks.                   *)
Reaping == pc = "reap" \/ (Releasing /\ rel.to = "reap")

ShellInv ==
  /\ pc = "prompt" => job = NoJob /\ group = NoPid
  /\ Reaping => \/ ret \in {"again", "find"} /\ Searching
                \/ ret = "alloc" /\ Chosen
                \/ ret = "group" /\ Stopping
  /\ pc \in {"again", "find"} => Searching
  /\ pc \in {"alloc", "copy", "fields", "map", "load", "spawn", "wait"} => Chosen
  /\ pc \in {"copy", "fields"} => job.base \in Nat
  /\ pc = "wait" => ~job.background
  /\ Releasing => rel.pid \in AppPids
  /\ Releasing /\ rel.to = "reap" => idx = rel.pid
  /\ Releasing /\ rel.to # "reap" => Chosen /\ rel.pid = job.pid
  /\ Releasing /\ rel.to = "stop" => Elsewhere
  /\ pc = "stop" => Elsewhere
  /\ pc = "group" => Stopping
  /\ pc = "kill" => Killing
  /\ pc \in {"mark", "clear"} => \/ Elsewhere /\ ret = "prompt"
                                 \/ Killing /\ victim \in AppPids /\ ret = "kill"
                                 \/ Killing /\ victim = group /\ ret = "prompt" /\ idx > LastPid

(* The tasks that run on the directory of the entry of their own slot.     *)
Housed == {p \in alive : dirOf[p] = p}

(* The entry of a launch, from the search for its slot to its task's start.*)
EntryInv ==
  /\ pc \in {"alloc", "copy"} \/ (Reaping /\ ret = "alloc") => ~tab[job.pid].inUse
  /\ pc = "fields" => tab[job.pid] = [ZeroTask EXCEPT !.inUse = TRUE, !.background = job.background]
  /\ pc \in {"map", "load", "spawn", "wait"} =>
       /\ tab[job.pid].inUse /\ tab[job.pid].owns
       /\ tab[job.pid].leader = job.pid
       /\ tab[job.pid].base = job.base /\ tab[job.pid].size = job.size
       /\ tab[job.pid].join = ~job.background
  /\ pc \in {"load", "spawn", "wait"} => tab[job.pid].built
  /\ pc \in {"fields", "map", "load", "spawn"} => job.pid \notin Housed
  /\ pc = "wait" /\ job.pid \in alive => job.pid \in Housed

(* The entry that shell_apps_release_task is given belongs to no task that *)
(* runs on it, and the locals hold what the entry held.                    *)
ReleaseInv ==
  /\ pc \in {"read", "zero"} => tab[rel.pid].inUse /\ rel.pid \notin Housed
  /\ pc = "zero" => /\ rel.base = tab[rel.pid].base
                    /\ rel.size = tab[rel.pid].size
                    /\ rel.owns = tab[rel.pid].owns
  /\ pc = "pages" => ~tab[rel.pid].inUse

(* Only the launch under way has a joinable entry.                         *)
JoinInv ==
  \A p \in AppPids : tab[p].join =>
    /\ job.size > 0 /\ p = job.pid
    /\ \/ pc \in {"map", "load", "spawn", "wait"}
       \/ pc \in {"read", "zero"} /\ rel.to # "reap"

(* A launch that got another slot than its entry has its task stopped: up  *)
(* to then the stray runs on the entry of the launch, in the slot of the   *)
(* victim, and the victim is nothing else.                                 *)
StrayPoint == group = NoPid /\ (pc \in {"stop", "mark"} \/ (Releasing /\ rel.to = "stop"))

Stray(p) == StrayPoint /\ p = victim /\ dirOf[p] = job.pid

StrayInv == StrayPoint => victim \notin Housed

(* Its entry is that of the launch until it is zeroed.                     *)
StrayEntryInv ==
  StrayPoint => IF pc \in {"read", "zero"} THEN tab[job.pid].owns /\ tab[job.pid].built ELSE tab[job.pid] = ZeroTask

(* A live task is a kernel worker, or runs on its own entry, or is a stray.*)
KindInv ==
  \A p \in alive : \/ at[p] = "worker" /\ dirOf[p] = KernelDir
                   \/ at[p] \in {"boot", "user"} /\ (dirOf[p] = p \/ Stray(p))

(* The leader of a task that runs on its own entry does so too, leads      *)
(* itself, and owns the pages that both map.                               *)
LeaderInv ==
  \A p \in Housed :
    /\ tab[p].inUse /\ tab[p].built
    /\ GroupLeader(p) \in Housed
    /\ GroupLeader(GroupLeader(p)) = GroupLeader(p)
    /\ tab[GroupLeader(p)].owns
    /\ tab[GroupLeader(p)].base = tab[p].base
    /\ tab[GroupLeader(p)].size = tab[p].size

Owning == {p \in AppPids : tab[p].inUse /\ tab[p].owns}

(* Pages that are marked and not yet, or no longer, those of an entry.     *)
Pending ==
  IF pc \in {"copy", "fields"} THEN Span(job)
  ELSE IF pc = "pages" THEN ReleasedPages(rel) ELSE {}

ArenaInv ==
  /\ \A x \in Pages : x \in used <=> x \in Pending \/ \E p \in Owning : x \in Span(tab[p])
  /\ Pending \subseteq Pages
  /\ \A p \in Owning : Span(tab[p]) \subseteq Pages /\ Span(tab[p]) \intersect Pending = {}
  /\ \A p, q \in Owning : p # q => Span(tab[p]) \intersect Span(tab[q]) = {}

(* What a kill has passed is dead, or next to be; and what it terminates   *)
(* before the leader is no leader.                                         *)
KillInv ==
  group # NoPid =>
    /\ \A p \in alive : p \in Members(group) /\ p < idx /\ p # group => pc = "mark" /\ p = victim
    /\ pc = "mark" /\ ret = "kill" /\ victim \in Housed => GroupLeader(victim) # victim

(* Between the two stores of sched_mark_terminated the task is dead.       *)
ClearInv == pc = "clear" => victim \notin alive

Quiet ==
  /\ EntryInv /\ ReleaseInv /\ JoinInv /\ StrayInv /\ StrayEntryInv /\ KindInv
  /\ LeaderInv /\ ArenaInv /\ KillInv /\ ClearInv

(* An undisturbed launch: before it starts its task nobody joins the live  *)
(* tasks, and the entries of the dead that it has reaped stay free.        *)
LaunchPoint ==
  \/ pc \in {"again", "find", "alloc", "copy", "fields", "map", "load", "spawn"}
  \/ Reaping /\ ret # "group"

SlotPoint ==
  \/ pc \in {"alloc", "copy", "fields", "map", "load", "spawn"}
  \/ Reaping /\ ret = "alloc"

ReapedUpTo == IF Reaping /\ ret = "again" THEN idx ELSE LastPid + 1

CalmInv ==
  /\ ~grown
  /\ \A p \in alive : at[p] # "worker" /\ dirOf[p] = p
  /\ LaunchPoint =>
       /\ alive \subseteq before
       /\ \A p \in AppPids : p < ReapedUpTo /\ p # job.pid /\ tab[p].inUse => p \in alive
  /\ SlotPoint =>
       /\ job.pid \notin alive
       /\ \A p \in AppPids : p < job.pid => p \in alive

IInv ==
  /\ TypeOK
  /\ ShellInv
  /\ ~grown => Quiet
  /\ calm => CalmInv

-----------------------------------------------------------------------------
(* Types and the shell's control *)

(* The numbers that mark "none" are no slots.                              *)
LEMMA PidFacts ==
  /\ AppPids \subseteq Nat \ {0}
  /\ NoPid \notin AppPids
  /\ KernelDir \notin AppPids
  /\ FirstPid \in AppPids /\ LastPid \in AppPids
  /\ \A p \in AppPids : FirstPid <= p /\ p <= LastPid
  /\ \A p \in Int : FirstPid <= p /\ p <= LastPid => p \in AppPids
  /\ SlotSizes \subseteq Nat \ {0}
BY AppTasksConstants DEF AppPids, NoPid, KernelDir

(* A group leader is a slot.                                               *)
LEMMA LeaderIsPid ==
  ASSUME TypeOK, NEW p \in AppPids
  PROVE  GroupLeader(p) \in AppPids
BY PidFacts, AppTasksConstants DEF TypeOK, AppTask, GroupLeader

(* A step of a task: the shell's locals keep their values.                 *)
ShellLocals == <<pc, ret, job, idx, rel, victim, group>>

(* A zeroed entry, a fresh launch and a fresh release are of their types.  *)
LEMMA RecordTypes ==
  /\ ZeroTask \in AppTask
  /\ NoJob \in Job
  /\ NoRel \in Rel
BY PidFacts, Zenon DEF ZeroTask, AppTask, NoJob, Job, NoPage, NoRel, Rel

(* The shell's locals go through the steps of a command in order.          *)
LEMMA ShellStepInv ==
  ASSUME TypeOK, ShellInv, [Next]_vars
  PROVE  ShellInv'
<1> USE PidFacts, AppTasksConstants
<1> DEFINE Same == UNCHANGED ShellLocals
<1>0. ASSUME Same PROVE ShellInv'
  BY <1>0 DEF ShellLocals, ShellInv, Reaping, Releasing, Searching, Chosen, Stopping, Killing, Elsewhere, Launching
<1>1. CASE UNCHANGED vars
  BY <1>0, <1>1, Zenon DEF vars, ShellLocals
<1>2. CASE \E p \in AppPids : SpawnThread(p)
  BY <1>0, <1>2, Zenon DEF SpawnThread, ShellLocals
<1>3. CASE \E p \in AppPids : AppStep(p)
  BY <1>0, <1>3, Zenon DEF AppStep, BackgroundThread, WorkerExit, Exit, Fault, shellVars, ShellLocals
<1>4. CASE \E p \in AppPids : CommandStress(p)
  BY <1>0, <1>4, Zenon DEF CommandStress, shellVars, ShellLocals
<1> USE DEF ShellInv, Reaping, Releasing, Searching, Chosen, Stopping, Killing, Elsewhere, Launching, TypeOK
<1>5. ASSUME NEW background \in BOOLEAN, NEW size \in SlotSizes, CommandLaunch(background, size)
      PROVE  ShellInv'
  BY <1>5 DEF CommandLaunch, NoJob
<1>6. ASSUME NEW p \in AppPids, CommandKill(p)
      PROVE  ShellInv'
  BY <1>6, Zenon DEF CommandKill, NoJob
<1>7. CASE ReapScan
  <2>1. idx \in AppPids
    BY <1>7 DEF ReapScan
  <2>2. CASE Reapable(idx)
    BY <1>7, <2>1, <2>2 DEF ReapScan, NoRel
  <2>3. CASE ~Reapable(idx)
    BY <1>7, <2>3, Zenon DEF ReapScan
  <2> QED BY <2>2, <2>3, Zenon
<1>8. CASE ReapReturn
  BY <1>8, Zenon DEF ReapReturn
<1>9. CASE ReapAgain
  BY <1>9, Zenon DEF ReapAgain
<1>10. CASE ReleaseRead
  BY <1>10, Zenon DEF ReleaseRead, Rel
<1>11. CASE ReleaseZero
  BY <1>11, Zenon DEF ReleaseZero
<1>12. CASE ReleasePages
  BY <1>12, Zenon DEF ReleasePages, Done
<1>13. CASE FindFreePid
  BY <1>13 DEF FindFreePid, FreeEntries, Job
<1>14. CASE FindNoPid \/ AllocateNoRoom
  BY <1>14, Zenon DEF FindNoPid, AllocateNoRoom, Done
<1>15. CASE AllocatePhysBase
  BY <1>15 DEF AllocatePhysBase, FreeRuns, Pages, Job
<1>16. CASE PrepareCopy \/ PrepareFields \/ PrepareMap
  BY <1>16, Zenon DEF PrepareCopy, PrepareFields, PrepareMap
<1>17. CASE LoadImage
  BY <1>17 DEF LoadImage, Release, NoRel
<1>18. CASE SpawnTask
  BY <1>18, Zenon DEF SpawnTask, Done
<1>19. CASE SpawnElsewhere
  BY <1>19, Zenon DEF SpawnElsewhere, Release, NoRel
<1>20. CASE SpawnNowhere
  BY <1>20, Zenon DEF SpawnNowhere, Release, NoRel
<1>21. CASE StopElsewhere
  BY <1>21, Zenon DEF StopElsewhere
<1>22. CASE WaitForTaskExit
  BY <1>22, Zenon DEF WaitForTaskExit, Release, NoRel
<1>23. CASE StopFindTask
  BY <1>23, LeaderIsPid, Zenon DEF StopFindTask, Done
<1>24. CASE StopMember
  BY <1>24 DEF StopMember
<1>25. CASE StopLeader
  BY <1>25, Zenon DEF StopLeader, LastVictim
<1>26. CASE TerminateMark
  BY <1>26, Zenon DEF TerminateMark, Return, Done
<1>27. CASE TerminateClear
  BY <1>27, Zenon DEF TerminateClear, Return, Done
<1> QED
  BY <1>1, <1>2, <1>3, <1>4, <1>5, <1>6, <1>7, <1>8, <1>9, <1>10, <1>11, <1>12, <1>13, <1>14,
     <1>15, <1>16, <1>17, <1>18, <1>19, <1>20, <1>21, <1>22, <1>23, <1>24, <1>25, <1>26, <1>27, Zenon
  DEF Next, Command, ShellStep

(* The types of what the scheduler holds, and of the shell's locals.       *)
TaskTypes ==
  /\ alive \subseteq AppPids
  /\ dirOf \in [AppPids -> AppPids \union {KernelDir}]
  /\ at \in [AppPids -> {"gone", "boot", "user", "worker"}]

ShellTypes ==
  /\ pc \in ShellPoints /\ ret \in ShellPoints
  /\ job \in Job
  /\ idx \in FirstPid .. LastPid + 1
  /\ rel \in Rel
  /\ victim \in AppPids \union {NoPid}
  /\ group \in AppPids \union {NoPid}
  /\ before \subseteq AppPids

(* Ending tasks keeps the types of what the scheduler holds.               *)
LEMMA EndedTypes ==
  ASSUME TypeOK, NEW S, Ended(S)
  PROVE  TaskTypes'
BY Zenon DEF TypeOK, TaskTypes, Ended

(* So does starting one.                                                   *)
LEMMA StartedTypes ==
  ASSUME TypeOK, NEW p \in AppPids, NEW directory \in AppPids \union {KernelDir},
         NEW point \in {"boot", "worker"}, Started(p, directory, point)
  PROVE  TaskTypes'
BY Zenon DEF TypeOK, TaskTypes, Started

(* The entry of a new thread is an entry.                                  *)
LEMMA ThreadTaskType ==
  ASSUME TypeOK, NEW p \in AppPids
  PROVE  ThreadTask(p) \in AppTask
<1>1. tab[p] \in AppTask /\ GroupLeader(p) \in AppPids
  BY LeaderIsPid, Zenon DEF TypeOK
<1> QED BY <1>1, Zenon DEF ThreadTask, AppTask

(* Every action keeps the types.                                           *)
LEMMA TypeStepInv ==
  ASSUME TypeOK, ShellInv, [Next]_vars
  PROVE  TypeOK'
<1> USE PidFacts, AppTasksConstants, RecordTypes
<1>1. CASE UNCHANGED vars
  BY <1>1, Zenon DEF vars, TypeOK
<1>2. ASSUME NEW p \in AppPids, SpawnThread(p), grown' = (grown \/ Disturbs(p)), calm' = (calm /\ ~grown')
      PROVE  TypeOK'
  <2>1. used' \subseteq Pages
    BY <1>2, Zenon DEF SpawnThread, TypeOK
  <2>2. ReapedTab \in [AppPids -> AppTask]
    BY Zenon DEF ReapedTab, TypeOK
  <2>3. tab' \in [AppPids -> AppTask]
    BY <1>2, <2>2, ThreadTaskType, Zenon DEF SpawnThread
  <2>4. TaskTypes'
    <3>1. CASE UNCHANGED taskVars
      BY <3>1, Zenon DEF taskVars, TaskTypes, TypeOK
    <3>2. CASE \E c \in AppPids : Started(c, c, "boot")
      BY <3>2, StartedTypes, Zenon
    <3> QED BY <1>2, <3>1, <3>2, Zenon DEF SpawnThread
  <2>5. before' \subseteq AppPids
    BY <1>2, <2>4, Zenon DEF SpawnThread, TaskTypes, TypeOK
  <2>6. calm' \in BOOLEAN /\ grown' \in BOOLEAN
    BY <1>2, Zenon DEF TypeOK, Disturbs
  <2>7. UNCHANGED <<pc, ret, job, idx, rel, victim, group>>
    BY <1>2, Zenon DEF SpawnThread
  <2> QED BY <2>1, <2>3, <2>4, <2>5, <2>6, <2>7, Zenon DEF TaskTypes, TypeOK
<1> DEFINE Kept == calm' \in BOOLEAN /\ UNCHANGED grown
<1>3. ASSUME NEW p \in AppPids, AppStep(p), Kept
      PROVE  TypeOK'
  <2>1. TaskTypes'
    <3>1. CASE \E S : Ended(S)
      BY <3>1, EndedTypes, Zenon
    <3>2. CASE at' = [at EXCEPT ![p] = "user"] /\ UNCHANGED <<alive, dirOf>>
      BY <3>2, Zenon DEF TaskTypes, TypeOK
    <3> QED BY <1>3, <3>1, <3>2, Zenon DEF AppStep, BackgroundThread, WorkerExit, Exit, Fault
  <2>2. UNCHANGED <<memVars, shellVars>>
    BY <1>3, Zenon DEF AppStep, BackgroundThread, WorkerExit, Exit, Fault
  <2> QED BY <1>3, <2>1, <2>2, Zenon DEF TaskTypes, TypeOK, memVars, shellVars
<1>4. ASSUME NEW p \in AppPids, CommandStress(p), Kept
      PROVE  TypeOK'
  <2>1. TaskTypes'
    BY <1>4, StartedTypes, Zenon DEF CommandStress
  <2> QED BY <1>4, <2>1, Zenon DEF CommandStress, TaskTypes, TypeOK, memVars, shellVars
<1>0. ASSUME UNCHANGED <<memVars, taskVars>>, ShellTypes', Kept
      PROVE  TypeOK'
  BY <1>0, Zenon DEF TypeOK, ShellTypes, memVars, taskVars
<1>30. ASSUME Done, rel' \in Rel
       PROVE  ShellTypes'
  <2>1. FirstPid \in FirstPid .. LastPid + 1
    OBVIOUS
  <2> QED BY <1>30, <2>1, Zenon DEF Done, ShellTypes, ShellPoints
<1> USE DEF TypeOK, ShellPoints
<1>5. ASSUME NEW background \in BOOLEAN, NEW size \in SlotSizes, CommandLaunch(background, size), Kept
      PROVE  TypeOK'
  <2>1. job' \in Job
    BY <1>5, Zenon DEF CommandLaunch, NoJob, Job, NoPage
  <2> QED BY <1>5, <2>1 DEF CommandLaunch, LiveApps, memVars, taskVars
<1>6. ASSUME NEW p \in AppPids, CommandKill(p), Kept
      PROVE  TypeOK'
  <2>1. job' \in Job
    BY <1>6, Zenon DEF CommandKill, NoJob, Job, NoPage
  <2> QED BY <1>6, <2>1 DEF CommandKill, LiveApps, memVars, taskVars
<1>7. CASE ReapScan /\ Kept
  <2>1. idx \in AppPids
    BY <1>7 DEF ReapScan
  <2>2. [NoRel EXCEPT !.pid = idx, !.to = "reap"] \in Rel
    BY <2>1, Zenon DEF NoRel, Rel
  <2>3. idx + 1 \in FirstPid .. LastPid + 1
    BY <2>1
  <2>4. ShellTypes'
    BY <1>7, <2>2, <2>3 DEF ReapScan, ShellTypes
  <2> QED BY <1>0, <1>7, <2>4, Zenon DEF ReapScan
<1>8. CASE (ReapReturn \/ ReapAgain) /\ Kept
  <2>1. FirstPid \in FirstPid .. LastPid + 1
    OBVIOUS
  <2>2. ShellTypes'
    BY <1>8, <2>1 DEF ReapReturn, ReapAgain, ShellTypes
  <2> QED BY <1>0, <1>8, <2>2, Zenon DEF ReapReturn, ReapAgain
<1>9. CASE ReleaseRead /\ Kept
  <2>1. rel.pid \in AppPids
    BY <1>9, Zenon DEF ReleaseRead, ShellInv, Releasing
  <2>2. rel' \in Rel
    BY <1>9, <2>1 DEF ReleaseRead, Rel, AppTask
  <2> QED BY <1>9, <2>2 DEF ReleaseRead, memVars, taskVars
<1>10. CASE ReleaseZero /\ Kept
  BY <1>10 DEF ReleaseZero, memVars, taskVars
<1>11. CASE ReleasePages /\ Kept
  <2>1. used' \subseteq Pages /\ rel' \in Rel
    BY <1>11, Zenon DEF ReleasePages
  <2>2. rel.to = "reap" => idx + 1 \in FirstPid .. LastPid + 1
    BY <1>11 DEF ReleasePages, ShellInv, Releasing
  <2>3. ShellTypes'
    BY <1>11, <1>30, <2>1, <2>2 DEF ReleasePages, ShellTypes
  <2> QED BY <1>11, <2>1, <2>3, Zenon DEF ReleasePages, ShellTypes, taskVars
<1>12. CASE FindFreePid /\ Kept
  <2>1. job' \in Job
    BY <1>12 DEF FindFreePid, FreeEntries, Job
  <2> QED BY <1>12, <2>1 DEF FindFreePid, memVars, taskVars
<1>13. CASE (FindNoPid \/ AllocateNoRoom) /\ Kept
  BY <1>0, <1>13, <1>30, Zenon DEF FindNoPid, AllocateNoRoom
<1>14. CASE AllocatePhysBase /\ Kept
  <2>1. job' \in Job
    BY <1>14 DEF AllocatePhysBase, FreeRuns, Pages, Job
  <2>2. job.size \in SlotSizes \union {0}
    BY Zenon DEF Job
  <2>3. used' \subseteq Pages
    BY <1>14, <2>2 DEF AllocatePhysBase, FreeRuns, Pages
  <2> QED BY <1>14, <2>1, <2>3 DEF AllocatePhysBase, memVars, taskVars
<1>15. CASE PrepareCopy /\ Kept
  <2>1. [ZeroTask EXCEPT !.inUse = TRUE, !.background = job.background] \in AppTask
    BY DEF ZeroTask, AppTask, Job
  <2> QED BY <1>15, <2>1 DEF PrepareCopy, memVars, taskVars
<1>16. CASE PrepareFields /\ Kept
  <2>1. job.pid \in AppPids /\ job.base \in Nat /\ job.size \in SlotSizes \union {0}
    BY <1>16, Zenon DEF PrepareFields, ShellInv, Chosen, Launching, Job
  <2>2. tab' \in [AppPids -> AppTask]
    BY <1>16, <2>1 DEF PrepareFields, AppTask
  <2> QED BY <1>16, <2>2 DEF PrepareFields, memVars, taskVars
<1>17. CASE PrepareMap /\ Kept
  <2>1. \A p \in AppPids : [tab[p] EXCEPT !.built = TRUE] \in AppTask
    BY DEF AppTask
  <2>2. tab' \in [AppPids -> AppTask]
    BY <1>17, <2>1, Zenon DEF PrepareMap
  <2> QED BY <1>17, <2>2 DEF PrepareMap, taskVars
<1> USE DEF memVars, taskVars
<1>18. ASSUME NEW p \in AppPids, NEW to \in {"prompt", "stop"}, Release(p, to)
       PROVE  rel' \in Rel /\ pc' \in ShellPoints
  BY <1>18, Zenon DEF Release, NoRel, Rel
<1>19. pc \in {"load", "spawn", "wait"} => job.pid \in AppPids
  BY Zenon DEF ShellInv, Chosen
<1>20. CASE LoadImage /\ Kept
  BY <1>18, <1>19, <1>20 DEF LoadImage
<1>21. CASE SpawnTask /\ Kept
  <2>1. TaskTypes'
    BY <1>19, <1>21, StartedTypes, Zenon DEF SpawnTask
  <2>2. ShellTypes'
    BY <1>21, <1>30 DEF SpawnTask, ShellTypes
  <2> QED BY <1>21, <2>1, <2>2, Zenon DEF SpawnTask, TaskTypes, ShellTypes, memVars
<1>22. CASE SpawnElsewhere /\ Kept
  <2>1. TaskTypes' /\ victim' \in AppPids
    BY <1>19, <1>22, StartedTypes, Zenon DEF SpawnElsewhere
  <2>2. rel' \in Rel /\ pc' \in ShellPoints
    BY <1>18, <1>19, <1>22, Zenon DEF SpawnElsewhere
  <2> QED BY <1>22, <2>1, <2>2 DEF SpawnElsewhere, TaskTypes
<1>23. CASE (SpawnNowhere \/ WaitForTaskExit) /\ Kept
  <2>1. rel' \in Rel /\ pc' \in ShellPoints
    BY <1>18, <1>19, <1>23, Zenon DEF SpawnNowhere, WaitForTaskExit
  <2> QED BY <1>23, <2>1 DEF SpawnNowhere, WaitForTaskExit
<1>24. CASE StopElsewhere /\ Kept
  BY <1>24, Zenon DEF StopElsewhere
<1>25. CASE StopFindTask /\ Kept
  <2>1. job.pid \in AppPids
    BY <1>25, Zenon DEF StopFindTask, ShellInv, Stopping
  <2>2. GroupLeader(job.pid) \in AppPids
    BY <2>1, LeaderIsPid, Zenon
  <2>3. FirstPid \in FirstPid .. LastPid + 1
    OBVIOUS
  <2>4. ShellTypes'
    BY <1>25, <1>30, <2>2, <2>3 DEF StopFindTask, ShellTypes
  <2> QED BY <1>0, <1>25, <2>4, Zenon DEF StopFindTask
<1>26. CASE (StopMember \/ StopLeader) /\ Kept
  <2>1. pc = "kill" => group \in AppPids
    BY Zenon DEF ShellInv, Killing
  <2>2. idx <= LastPid => idx \in AppPids /\ idx + 1 \in FirstPid .. LastPid + 1
    OBVIOUS
  <2>3. ShellTypes'
    BY <1>26, <2>1, <2>2 DEF StopMember, StopLeader, LastVictim, ShellTypes
  <2> QED BY <1>0, <1>26, <2>3, Zenon DEF StopMember, StopLeader
<1>27. CASE TerminateMark /\ Kept
  <2>1. ShellTypes'
    BY <1>27, <1>30 DEF TerminateMark, Return, ShellTypes
  <2>2. TaskTypes'
    BY <1>27, Zenon DEF TerminateMark, TaskTypes
  <2> QED BY <1>27, <2>1, <2>2, Zenon DEF TerminateMark, ShellTypes, TaskTypes, memVars
<1>28. CASE TerminateClear /\ Kept
  <2>1. TaskTypes'
    BY <1>28, Zenon DEF TerminateClear, TaskTypes
  <2>2. ShellTypes'
    BY <1>28, <1>30 DEF TerminateClear, Return, ShellTypes
  <2> QED BY <1>28, <2>1, <2>2, Zenon DEF TerminateClear, TaskTypes, ShellTypes, memVars
<1>29. CASE /\ Command \/ ShellStep \/ \E p \in AppPids : AppStep(p)
            /\ calm' = (calm /\ Workers' \subseteq Workers /\ (pc \in Settled \/ alive \subseteq alive'))
            /\ UNCHANGED grown
  <2>1. Kept
    BY <1>29, Zenon
  <2> QED BY <1>29, <2>1, <1>3, <1>4, <1>5, <1>6, <1>7, <1>8, <1>9, <1>10, <1>11, <1>12, <1>13, <1>14, <1>15,
     <1>16, <1>17, <1>20, <1>21, <1>22, <1>23, <1>24, <1>25, <1>26, <1>27, <1>28
     DEF Command, ShellStep
<1> QED
  BY <1>1, <1>2, <1>29, Zenon DEF Next

-----------------------------------------------------------------------------
(* What an undisturbed system keeps.  Each lemma takes one conjunct.       *)

(* With the shell killing a group it is in the loop or in a termination.   *)
LEMMA GroupPoints ==
  ASSUME TypeOK, ShellInv, group # NoPid
  PROVE  pc \in {"kill", "mark", "clear"} /\ group \in AppPids /\ job.size = 0
<1>1. pc \in ShellPoints /\ group \in AppPids
  BY Zenon DEF TypeOK
<1>2. pc \in {"kill", "mark", "clear"}
  BY <1>1, Zenon DEF ShellInv, ShellPoints, Reaping, Releasing, Searching, Chosen, Stopping, Elsewhere, Launching
<1> QED BY <1>1, <1>2, Zenon DEF ShellInv, Killing, Elsewhere, Chosen, Launching

(* The points at which a thread can be created without disturbing.         *)
LEMMA ThreadPoints ==
  ASSUME TypeOK, ShellInv, NEW p \in AppPids, ~Disturbs(p)
  PROVE  /\ pc \in {"prompt", "reap", "again", "find", "wait", "group", "kill", "mark"}
         /\ pc = "reap" => ret # "alloc"
         /\ pc = "mark" => group # NoPid
         /\ GroupLeader(p) # group
         /\ job.pid # NoPid /\ job.size > 0 => pc = "wait"
<1> USE PidFacts
<1>1. pc \notin {"read", "zero", "pages", "clear"} /\ (job.size > 0 /\ job.pid # NoPid => pc = "wait")
  BY Zenon DEF Disturbs
<1>2. pc \notin {"alloc", "copy", "fields", "map", "load", "spawn", "stop"}
  BY <1>1, Zenon DEF ShellInv, Elsewhere, Chosen, Launching
<1>3. pc \in {"prompt", "reap", "again", "find", "wait", "group", "kill", "mark"}
  BY <1>1, <1>2, Zenon DEF TypeOK, ShellPoints
<1>4. pc = "reap" => ret # "alloc"
  BY <1>1, Zenon DEF ShellInv, Reaping, Chosen, Launching, Searching, Stopping
<1>5. pc = "mark" => group # NoPid
  BY <1>1, Zenon DEF ShellInv, Elsewhere, Chosen, Launching, Killing
<1>6. GroupLeader(p) # group
  BY LeaderIsPid, Zenon DEF Disturbs
<1> QED BY <1>1, <1>3, <1>4, <1>5, <1>6, Zenon

(* What the creation of a thread does to the tables: the dead are reaped,  *)
(* and possibly a copy of the caller's entry starts in a dead slot.        *)
ThreadStarts(p, c) ==
  /\ c \in AppPids \ alive
  /\ ~ReapedTab[c].inUse
  /\ tab' = [ReapedTab EXCEPT ![c] = ThreadTask(p)]
  /\ Started(c, c, "boot")

(* A new thread: only what has terminated is released, or the thread has started. *)
LEMMA ThreadCases ==
  ASSUME NEW p \in AppPids, SpawnThread(p)
  PROVE  \/ tab' = ReapedTab /\ UNCHANGED taskVars
         \/ \E c \in AppPids : ThreadStarts(p, c)
BY Zenon DEF SpawnThread, ThreadStarts

(* The caller of an undisturbed thread creation runs on its own entry.     *)
LEMMA ThreadCaller ==
  ASSUME TypeOK, ShellInv, KindInv, NEW p \in AppPids, SpawnThread(p), ~Disturbs(p)
  PROVE  p \in Housed
<1>1. pc # "stop" /\ ~Releasing /\ (pc = "mark" => group # NoPid)
  BY ThreadPoints, Zenon DEF Releasing
<1>2. ~Stray(p)
  BY <1>1, Zenon DEF Stray, StrayPoint
<1> QED BY <1>2, Zenon DEF SpawnThread, KindInv, Housed

(* A task that is alive in the table keeps its entry when the dead are     *)
(* reaped.                                                                 *)
LEMMA ReapedFacts ==
  ASSUME TypeOK
  PROVE  /\ ReapedTab \in [AppPids -> AppTask]
         /\ \A q \in alive : ReapedTab[q] = tab[q]
         /\ \A q \in AppPids : tab[q].join => ReapedTab[q] = tab[q]
         /\ \A q \in AppPids : ReapedTab[q] = tab[q] \/ (ReapedTab[q] = ZeroTask /\ q \in Reaped)
         /\ \A q \in AppPids : q \in Reaped => ReapedTab[q] = ZeroTask
BY RecordTypes, Zenon DEF TypeOK, ReapedTab, Reaped, Reapable

(* A set of tasks may end together when it holds every task whose leader   *)
(* it holds.                                                               *)
Closed(S) == \A q \in Housed : GroupLeader(q) \in S => q \in S

(* LeaderInv survives when the tasks that run on their own entries are     *)
(* among those that did, their entries are as they were, and none loses    *)
(* its leader.                                                             *)
LEMMA LeadersKept ==
  ASSUME LeaderInv,
         \A q \in Housed' : q \in Housed /\ tab'[q] = tab[q] /\ GroupLeader(q) \in Housed'
  PROVE  LeaderInv'
<1> SUFFICES ASSUME NEW q \in Housed'
             PROVE  /\ tab'[q].inUse /\ tab'[q].built
                    /\ GroupLeader(q)' \in Housed'
                    /\ GroupLeader(GroupLeader(q))' = GroupLeader(q)'
                    /\ tab'[GroupLeader(q)'].owns
                    /\ tab'[GroupLeader(q)'].base = tab'[q].base
                    /\ tab'[GroupLeader(q)'].size = tab'[q].size
  BY Zenon DEF LeaderInv
<1>1. q \in Housed /\ tab'[q] = tab[q] /\ GroupLeader(q) \in Housed'
  BY Zenon
<1>2. GroupLeader(q)' = GroupLeader(q)
  BY <1>1, Zenon DEF GroupLeader
<1>3. tab'[GroupLeader(q)] = tab[GroupLeader(q)]
  BY <1>1, Zenon
<1>4. GroupLeader(GroupLeader(q))' = GroupLeader(GroupLeader(q))
  BY <1>2, <1>3, Zenon DEF GroupLeader
<1> QED BY <1>1, <1>2, <1>3, <1>4 DEF LeaderInv

(* The tasks that exit, fault and termination end together.                *)
LEMMA EndsClosed ==
  ASSUME TypeOK, LeaderInv, NEW p \in AppPids
  PROVE  /\ Closed(ExitEnds(p))
         /\ Closed(FaultEnds(p))
         /\ p \notin Housed => Closed({p})
         /\ GroupLeader(p) # p => Closed({p})
<1> SUFFICES ASSUME NEW q \in Housed
             PROVE  /\ GroupLeader(q) \in ExitEnds(p) => q \in ExitEnds(p)
                    /\ GroupLeader(q) \in FaultEnds(p) => q \in FaultEnds(p)
                    /\ p \notin Housed => (GroupLeader(q) \in {p} => q \in {p})
                    /\ GroupLeader(p) # p => (GroupLeader(q) \in {p} => q \in {p})
  BY Zenon DEF Closed
<1>1. /\ q \in AppPids /\ tab[q].inUse /\ GroupLeader(q) \in Housed
      /\ GroupLeader(GroupLeader(q)) = GroupLeader(q)
      /\ tab[GroupLeader(q)].inUse
  BY Zenon DEF LeaderInv, Housed, TypeOK
<1>2. \A l : GroupLeader(q) \in Members(l) => q \in Members(l)
  BY <1>1, Zenon DEF Members
<1>3. GroupLeader(q) = p => GroupLeader(p) = p /\ tab[p].inUse /\ q \in Members(p)
  BY <1>1, Zenon DEF Members
<1> QED BY <1>1, <1>2, <1>3, Zenon DEF ExitEnds, FaultEnds

(* The steps that leave a system undisturbed.                              *)
QuietNext ==
  \/ Command \/ ShellStep
  \/ \E p \in AppPids : AppStep(p)
  \/ \E p \in AppPids : SpawnThread(p) /\ ~Disturbs(p)

(* A step that ends tasks ends a closed set of them.                       *)
LEMMA AppStepCases ==
  ASSUME TypeOK, KindInv, LeaderInv, NEW p \in AppPids, AppStep(p)
  PROVE  /\ UNCHANGED <<memVars, shellVars>>
         /\ \/ /\ p \in alive /\ at[p] = "boot"
               /\ at' = [at EXCEPT ![p] = "user"] /\ UNCHANGED <<alive, dirOf>>
            \/ \E S : Closed(S) /\ Ended(S)
<1>1. UNCHANGED <<memVars, shellVars>>
  BY Zenon DEF AppStep, BackgroundThread, WorkerExit, Exit, Fault
<1>2. CASE BackgroundThread(p)
  <2>1. CASE at[p] = "boot" /\ tab[dirOf[p]].inUse
    BY <1>1, <1>2, <2>1, Zenon DEF BackgroundThread
  <2>2. CASE ~(at[p] = "boot" /\ tab[dirOf[p]].inUse)
    <3>1. p \notin Housed
      BY <1>2, <2>2, Zenon DEF BackgroundThread, KindInv, LeaderInv, Housed
    <3> QED BY <1>1, <1>2, <2>2, <3>1, EndsClosed, Zenon DEF BackgroundThread
  <2> QED BY <2>1, <2>2, Zenon
<1>3. CASE WorkerExit(p)
  <2>1. p \notin Housed
    BY <1>3, PidFacts, Zenon DEF WorkerExit, Workers, KindInv, Housed
  <2> QED BY <1>1, <1>3, <2>1, EndsClosed, Zenon DEF WorkerExit
<1>4. CASE Exit(p)
  BY <1>1, <1>4, EndsClosed, Zenon DEF Exit
<1>5. CASE Fault(p)
  BY <1>1, <1>5, EndsClosed, Zenon DEF Fault
<1> QED BY <1>2, <1>3, <1>4, <1>5, Zenon DEF AppStep

(* The tasks that are left when a set of them has ended.                   *)
LEMMA EndedHoused ==
  ASSUME TypeOK, NEW S, Ended(S)
  PROVE  /\ Housed' = Housed \ S
         /\ alive' = alive \ S
         /\ \A q \in alive' : dirOf'[q] = dirOf[q] /\ at'[q] = at[q]
BY Zenon DEF TypeOK, Ended, Housed

(* The tasks on their own entries once one has started.                    *)
LEMMA StartedHoused ==
  ASSUME TypeOK, NEW p \in AppPids \ alive, NEW directory \in AppPids \union {KernelDir},
         NEW point \in {"boot", "worker"}, Started(p, directory, point)
  PROVE  /\ Housed' = Housed \union (IF directory = p THEN {p} ELSE {})
         /\ alive' = alive \union {p}
         /\ dirOf'[p] = directory /\ at'[p] = point
         /\ \A q \in alive : dirOf'[q] = dirOf[q] /\ at'[q] = at[q]
BY DEF TypeOK, Started, Housed

(* Each leader keeps its entry, its pages and its life while a thread of   *)
(* its group lives.                                                        *)
LEMMA LeaderStep ==
  ASSUME TypeOK, ShellInv, Quiet, QuietNext
  PROVE  LeaderInv'
<1> USE DEF Quiet
<1>0. ASSUME UNCHANGED <<tab, alive, dirOf>>
      PROVE  LeaderInv'
  BY <1>0 DEF LeaderInv, Housed, GroupLeader
<1>1. ASSUME NEW p \in AppPids, CommandStress(p)
      PROVE  LeaderInv'
  <2>1. p \in AppPids \ alive /\ KernelDir # p
    BY <1>1, PidFacts, Zenon DEF CommandStress, SpawnSlot, First
  <2>2. Housed' = Housed
    BY <1>1, <2>1, StartedHoused DEF CommandStress
  <2>3. tab' = tab
    BY <1>1, Zenon DEF CommandStress, memVars
  <2> QED BY <2>2, <2>3, LeadersKept, Zenon DEF LeaderInv
<1>2. CASE ReleaseZero
  <2>1. rel.pid \notin Housed
    BY <1>2, Zenon DEF ReleaseZero, ReleaseInv
  <2>2. Housed' = Housed
    BY <1>2, Zenon DEF ReleaseZero, taskVars, Housed
  <2>3. \A q \in Housed : tab'[q] = tab[q]
    BY <1>2, <2>1, Zenon DEF ReleaseZero, TypeOK, Housed
  <2> QED BY <2>2, <2>3, LeadersKept, Zenon DEF LeaderInv
<1>3. CASE PrepareCopy \/ PrepareFields \/ PrepareMap
  <2>1. job.pid \notin Housed
    BY <1>3, Zenon DEF PrepareCopy, PrepareFields, PrepareMap, EntryInv, LeaderInv
  <2>2. Housed' = Housed
    BY <1>3, Zenon DEF PrepareCopy, PrepareFields, PrepareMap, taskVars, Housed
  <2>3. \A q \in Housed : tab'[q] = tab[q]
    BY <1>3, <2>1, Zenon DEF PrepareCopy, PrepareFields, PrepareMap, TypeOK, Housed
  <2> QED BY <2>2, <2>3, LeadersKept, Zenon DEF LeaderInv
<1>4. CASE SpawnTask
  <2>1. job.pid \in AppPids \ alive
    BY <1>4, Zenon DEF SpawnTask, SpawnSlot, First
  <2>2. Housed' = Housed \union {job.pid} /\ tab' = tab
    BY <1>4, <2>1, StartedHoused, Zenon DEF SpawnTask, memVars
  <2>3. GroupLeader(job.pid) = job.pid
    BY <1>4, Zenon DEF SpawnTask, EntryInv, GroupLeader
  <2>4. tab[job.pid].inUse /\ tab[job.pid].built /\ tab[job.pid].owns
    BY <1>4, Zenon DEF SpawnTask, EntryInv
  <2>5. \A q : GroupLeader(q)' = IF tab[q].leader >= FirstPid THEN tab[q].leader ELSE q
    BY <2>2, Zenon DEF GroupLeader
  <2> QED BY <2>2, <2>3, <2>4, <2>5 DEF LeaderInv, GroupLeader
<1>5. CASE SpawnElsewhere
  <2>1. PICK p \in AppPids \ {job.pid} : SpawnSlot(p) /\ Started(p, job.pid, "boot")
    BY <1>5, Zenon DEF SpawnElsewhere
  <2>2. job.pid \in AppPids
    BY <1>5, Zenon DEF SpawnElsewhere, ShellInv, Chosen
  <2>3. p \in AppPids \ alive /\ job.pid # p
    BY <2>1, Zenon DEF SpawnSlot, First
  <2>5. Housed' = Housed
    BY <2>1, <2>2, <2>3, StartedHoused
  <2>4. tab' = tab
    BY <1>5, Zenon DEF SpawnElsewhere, memVars
  <2> QED BY <2>4, <2>5, LeadersKept, Zenon DEF LeaderInv
<1>6. CASE TerminateMark
  <2>1. tab' = tab /\ dirOf' = dirOf
    BY <1>6, Zenon DEF TerminateMark, memVars
  <2>2. CASE victim \notin alive
    BY <1>0, <1>6, <2>1, <2>2, Zenon DEF TerminateMark
  <2>3. CASE victim \in alive
    <3>1. Housed' = Housed \ {victim}
      BY <1>6, <2>1, <2>3, Zenon DEF TerminateMark, Housed
    <3>2. victim \in AppPids
      BY <2>3, Zenon DEF TypeOK
    <3>3. CASE victim \notin Housed \/ GroupLeader(victim) # victim
      <4>1. Closed({victim})
        BY <3>2, <3>3, EndsClosed, Zenon
      <4> QED BY <2>1, <3>1, <4>1, LeadersKept, Zenon DEF LeaderInv, Closed
    <3>4. CASE victim \in Housed /\ GroupLeader(victim) = victim
      <4>1. group # NoPid
        BY <1>6, <3>4, Zenon DEF TerminateMark, StrayInv, StrayPoint
      <4>2. ret # "kill"
        BY <1>6, <3>4, <4>1, Zenon DEF TerminateMark, KillInv
      <4>3. victim = group /\ idx > LastPid
        BY <1>6, <4>1, <4>2, Zenon DEF TerminateMark, ShellInv, Elsewhere, Chosen, Launching
      <4>4. ASSUME NEW q \in Housed, GroupLeader(q) = victim, q # victim
            PROVE  FALSE
        <5>1. q \in alive /\ q \in AppPids /\ q \in Members(group)
          BY <4>3, <4>4, Zenon DEF Housed, TypeOK, LeaderInv, Members
        <5>2. q < idx
          BY <4>3, <5>1, PidFacts, AppTasksConstants DEF TypeOK
        <5> QED BY <4>1, <4>3, <4>4, <5>1, <5>2, Zenon DEF KillInv
      <4> QED BY <2>1, <3>1, <4>4, LeadersKept, Zenon DEF LeaderInv
    <3> QED BY <3>3, <3>4, Zenon
  <2> QED BY <2>2, <2>3, Zenon
<1>7. CASE TerminateClear
  <2>1. tab' = tab /\ alive' = alive
    BY <1>7, Zenon DEF TerminateClear, memVars
  <2>2. victim \notin alive
    BY <1>7, Zenon DEF TerminateClear, ClearInv
  <2>3. Housed' = Housed
    BY <1>7, <2>1, <2>2, Zenon DEF TerminateClear, Housed, TypeOK
  <2> QED BY <2>1, <2>3, LeadersKept, Zenon DEF LeaderInv
<1>8. ASSUME NEW p \in AppPids, AppStep(p)
      PROVE  LeaderInv'
  <2>1. tab' = tab
    BY <1>8, AppStepCases, Zenon DEF memVars
  <2>2. ASSUME NEW S, Closed(S), Ended(S)
        PROVE  LeaderInv'
    <3>1. Housed' = Housed \ S
      BY <2>2, EndedHoused, Zenon
    <3> QED BY <2>1, <2>2, <3>1, LeadersKept, Zenon DEF LeaderInv, Closed
  <2> QED BY <1>0, <1>8, <2>1, <2>2, AppStepCases, Zenon
<1>9. ASSUME NEW p \in AppPids, SpawnThread(p), ~Disturbs(p)
      PROVE  LeaderInv'
  <2>1. p \in Housed
    BY <1>9, ThreadCaller, Zenon
  <2>2. \A q \in Housed : ReapedTab[q] = tab[q]
    BY ReapedFacts, Zenon DEF Housed
  <2>3. CASE tab' = ReapedTab /\ UNCHANGED taskVars
    <3>1. Housed' = Housed
      BY <2>3, Zenon DEF taskVars, Housed
    <3> QED BY <2>2, <2>3, <3>1, LeadersKept, Zenon DEF LeaderInv
  <2>4. ASSUME NEW c \in AppPids, ThreadStarts(p, c)
        PROVE  LeaderInv'
    <3>1. c \notin alive /\ c \notin Housed
      BY <2>4, Zenon DEF ThreadStarts, Housed
    <3>2. Housed' = Housed \union {c}
      BY <2>4, StartedHoused, Zenon DEF ThreadStarts
    <3>3. \A q \in Housed : tab'[q] = tab[q]
      BY <2>2, <2>4, <3>1, ReapedFacts, Zenon DEF ThreadStarts, Housed, TypeOK
    <3>4. tab'[c] = ThreadTask(p)
      BY <2>4, ReapedFacts, Zenon DEF ThreadStarts
    <3>5. \A q \in Housed : GroupLeader(q)' = GroupLeader(q)
      BY <3>3, Zenon DEF GroupLeader
    <3>6. GroupLeader(p) \in Housed /\ GroupLeader(p) \in AppPids
      BY <2>1, LeaderIsPid, Zenon DEF LeaderInv
    <3>7. /\ tab'[c].leader = GroupLeader(p) /\ tab'[c].inUse /\ tab'[c].built
          /\ tab'[c].base = tab[p].base /\ tab'[c].size = tab[p].size
      <4>1. tab[p] \in AppTask
        BY Zenon DEF TypeOK
      <4>2. tab[p].inUse
        BY <2>1, Zenon DEF LeaderInv
      <4> QED BY <3>4, <4>1, <4>2 DEF ThreadTask, AppTask
    <3>8. GroupLeader(c)' = GroupLeader(p)
      BY <3>6, <3>7, PidFacts, Zenon DEF GroupLeader
    <3>9. \A q \in Housed : /\ tab'[q].inUse /\ tab'[q].built
                            /\ GroupLeader(q)' \in Housed'
                            /\ GroupLeader(GroupLeader(q))' = GroupLeader(q)'
                            /\ tab'[GroupLeader(q)'].owns
                            /\ tab'[GroupLeader(q)'].base = tab'[q].base
                            /\ tab'[GroupLeader(q)'].size = tab'[q].size
      <4> SUFFICES ASSUME NEW q \in Housed
                   PROVE  /\ tab'[q].inUse /\ tab'[q].built
                          /\ GroupLeader(q)' \in Housed'
                          /\ GroupLeader(GroupLeader(q))' = GroupLeader(q)'
                          /\ tab'[GroupLeader(q)'].owns
                          /\ tab'[GroupLeader(q)'].base = tab'[q].base
                          /\ tab'[GroupLeader(q)'].size = tab'[q].size
        BY Zenon
      <4>1. GroupLeader(q)' = GroupLeader(q) /\ GroupLeader(q) \in Housed
        BY <3>5, Zenon DEF LeaderInv
      <4>2. GroupLeader(GroupLeader(q))' = GroupLeader(GroupLeader(q))
        BY <3>3, <4>1, Zenon DEF GroupLeader
      <4> QED BY <3>2, <3>3, <4>1, <4>2 DEF LeaderInv
    <3>10. /\ tab'[c].inUse /\ tab'[c].built
           /\ GroupLeader(c)' \in Housed'
           /\ GroupLeader(GroupLeader(c))' = GroupLeader(c)'
           /\ tab'[GroupLeader(c)'].owns
           /\ tab'[GroupLeader(c)'].base = tab'[c].base
           /\ tab'[GroupLeader(c)'].size = tab'[c].size
      <4>1. GroupLeader(GroupLeader(c))' = GroupLeader(GroupLeader(p))
        BY <3>3, <3>6, <3>8, Zenon DEF GroupLeader
      <4> QED BY <2>1, <3>2, <3>3, <3>6, <3>7, <3>8, <4>1 DEF LeaderInv
    <3> QED BY <3>2, <3>9, <3>10, Zenon DEF LeaderInv
  <2> QED BY <1>9, <2>3, <2>4, ThreadCases, Zenon
<1>10. CASE \/ \E background \in BOOLEAN, size \in SlotSizes : CommandLaunch(background, size)
            \/ \E p \in AppPids : CommandKill(p)
            \/ ReapScan \/ ReapReturn \/ ReapAgain \/ ReleaseRead \/ ReleasePages
            \/ FindFreePid \/ FindNoPid \/ AllocatePhysBase \/ AllocateNoRoom
            \/ LoadImage \/ SpawnNowhere \/ StopElsewhere \/ WaitForTaskExit
            \/ StopFindTask \/ StopMember \/ StopLeader
  BY <1>0, <1>10, Zenon DEF CommandLaunch, CommandKill, ReapScan, ReapReturn, ReapAgain, ReleaseRead, ReleasePages,
     FindFreePid, FindNoPid, AllocatePhysBase, AllocateNoRoom, LoadImage, SpawnNowhere, StopElsewhere,
     WaitForTaskExit, StopFindTask, StopMember, StopLeader, memVars, taskVars
<1> QED
  BY <1>1, <1>2, <1>3, <1>4, <1>5, <1>6, <1>7, <1>8, <1>9, <1>10, Zenon DEF QuietNext, Command, ShellStep

(* The slots of a live task stay taken: a task can come to run on its own  *)
(* entry only by being started.                                            *)
LEMMA AppStepHoused ==
  ASSUME TypeOK, KindInv, LeaderInv, NEW p \in AppPids, AppStep(p)
  PROVE  /\ Housed' \subseteq Housed /\ alive' \subseteq alive
         /\ \A q \in alive' : q \in Housed => q \in Housed'
<1>1. UNCHANGED <<alive, dirOf>> \/ \E S : Ended(S)
  BY AppStepCases, Zenon
<1>2. CASE UNCHANGED <<alive, dirOf>>
  BY <1>2, Zenon DEF Housed
<1>3. ASSUME NEW S, Ended(S)
      PROVE  /\ Housed' \subseteq Housed /\ alive' \subseteq alive
             /\ \A q \in alive' : q \in Housed => q \in Housed'
  BY <1>3, EndedHoused, Zenon
<1> QED BY <1>1, <1>2, <1>3, Zenon

(* The entry of a launch is the launch's alone until its task runs.        *)
LEMMA EntryStep ==
  ASSUME TypeOK, ShellInv, Quiet, QuietNext
  PROVE  EntryInv'
<1> USE DEF Quiet
<1>1. ASSUME NEW p \in AppPids, AppStep(p)
      PROVE  EntryInv'
  <2>1. /\ UNCHANGED <<tab, pc, ret, job, rel>>
        /\ Housed' \subseteq Housed /\ alive' \subseteq alive
        /\ \A q \in alive' : q \in Housed => q \in Housed'
    BY <1>1, AppStepCases, AppStepHoused, Zenon DEF memVars, shellVars
  <2> QED BY <2>1, Zenon DEF EntryInv, Reaping, Releasing
<1>2. ASSUME NEW p \in AppPids, SpawnThread(p), ~Disturbs(p)
      PROVE  EntryInv'
  <2>1. /\ pc \in {"prompt", "reap", "again", "find", "wait", "group", "kill", "mark"}
        /\ pc = "reap" => ret # "alloc"
    BY <1>2, ThreadPoints, Zenon
  <2>2. UNCHANGED <<pc, ret, job, rel>>
    BY <1>2, Zenon DEF SpawnThread
  <2>3. CASE pc # "wait"
    BY <2>1, <2>2, <2>3, Zenon DEF EntryInv, Reaping, Releasing
  <2>4. CASE pc = "wait"
    <3>1. job.pid \in AppPids /\ ~job.background
      BY <2>4, Zenon DEF ShellInv, Chosen
    <3>2. tab[job.pid].join /\ tab[job.pid].inUse
      BY <2>4, <3>1, Zenon DEF EntryInv
    <3>3. ReapedTab[job.pid] = tab[job.pid]
      BY <3>1, <3>2, ReapedFacts, Zenon
    <3>4. CASE tab' = ReapedTab /\ UNCHANGED taskVars
      BY <2>2, <2>4, <3>3, <3>4, Zenon DEF EntryInv, Reaping, Releasing, taskVars, Housed
    <3>5. ASSUME NEW c \in AppPids, ThreadStarts(p, c)
          PROVE  EntryInv'
      <4>1. c # job.pid
        BY <3>2, <3>3, <3>5, Zenon DEF ThreadStarts
      <4>2. tab'[job.pid] = tab[job.pid]
        BY <3>1, <3>3, <3>5, <4>1, ReapedFacts, Zenon DEF ThreadStarts
      <4>3. (job.pid \in alive' <=> job.pid \in alive) /\ (job.pid \in Housed' <=> job.pid \in Housed)
        BY <3>5, <4>1, StartedHoused DEF ThreadStarts
      <4> QED BY <2>2, <2>4, <4>2, <4>3, Zenon DEF EntryInv, Reaping, Releasing
    <3> QED BY <1>2, <3>4, <3>5, ThreadCases, Zenon
  <2> QED BY <2>3, <2>4, Zenon
<1>3. CASE \/ Command
           \/ ReapAgain \/ FindNoPid \/ AllocateNoRoom \/ StopElsewhere
           \/ StopFindTask \/ StopMember \/ StopLeader
  BY <1>3, Zenon DEF Command, CommandLaunch, CommandKill, CommandStress, shellVars, ReapAgain, FindNoPid, AllocateNoRoom,
     StopElsewhere, StopFindTask, StopMember, StopLeader, Done, EntryInv, Reaping, Releasing
<1>4. CASE TerminateMark \/ TerminateClear
  <2>1. pc' \in {"clear", "kill", "prompt"}
    BY <1>4, Zenon DEF TerminateMark, TerminateClear, Return, Done, ShellInv
  <2> QED BY <2>1, Zenon DEF EntryInv, Reaping, Releasing
<1>5. CASE ReapScan
  BY <1>5, Zenon DEF ReapScan, EntryInv, Reaping, Releasing, memVars
<1>6. CASE ReapReturn
  <2>1. pc' = ret /\ ret \in {"again", "find", "alloc", "group"} /\ UNCHANGED <<tab, job, ret>>
    BY <1>6, Zenon DEF ReapReturn, ShellInv, Reaping, memVars
  <2> QED BY <1>6, <2>1, Zenon DEF ReapReturn, EntryInv, Reaping, Releasing
<1>7. CASE ReleaseRead
  <2>1. rel'.to = rel.to
    BY <1>7, Zenon DEF ReleaseRead, TypeOK, Rel
  <2> QED BY <1>7, <2>1, Zenon DEF ReleaseRead, EntryInv, Reaping, Releasing, memVars
<1>8. CASE ReleaseZero
  <2>1. rel.pid \in AppPids
    BY <1>8, Zenon DEF ReleaseZero, ShellInv, Releasing
  <2>2. Reaping' = Reaping /\ pc' = "pages" /\ UNCHANGED <<job, ret>>
    BY <1>8, Zenon DEF ReleaseZero, Reaping, Releasing
  <2>3. Reaping /\ ret = "alloc" => ~tab'[job.pid].inUse
    BY <1>8, <2>1, Zenon DEF ReleaseZero, EntryInv, TypeOK, ZeroTask, ShellInv, Reaping, Releasing, Chosen, Launching, Searching, Stopping
  <2> QED BY <2>2, <2>3, Zenon DEF EntryInv
<1>9. CASE ReleasePages
  BY <1>9, Zenon DEF ReleasePages, Done, EntryInv, Reaping, Releasing
<1>10. CASE FindFreePid
  <2>1. pc' = "reap" /\ tab' = tab /\ ~tab[job'.pid].inUse
    BY <1>10, Zenon DEF FindFreePid, FreeEntries, memVars, TypeOK, Job
  <2> QED BY <2>1, Zenon DEF EntryInv
<1>11. CASE AllocatePhysBase
  <2>1. pc' = "copy" /\ tab' = tab /\ job'.pid = job.pid
    BY <1>11, Zenon DEF AllocatePhysBase, TypeOK, Job
  <2> QED BY <1>11, <2>1, Zenon DEF EntryInv, AllocatePhysBase, Reaping, Releasing
<1>12. CASE PrepareCopy
  <2>1. job.pid \in AppPids /\ job.pid \notin Housed
    BY <1>12, Zenon DEF PrepareCopy, ShellInv, Chosen, EntryInv, LeaderInv
  <2>2. tab'[job.pid] = [ZeroTask EXCEPT !.inUse = TRUE, !.background = job.background]
    BY <1>12, <2>1, Zenon DEF PrepareCopy, TypeOK
  <2>3. pc' = "fields" /\ UNCHANGED <<job, Housed>>
    BY <1>12, Zenon DEF PrepareCopy, Housed, taskVars
  <2> QED BY <2>1, <2>2, <2>3, Zenon DEF EntryInv, Reaping, Releasing
<1>13. CASE PrepareFields
  <2>1. job.pid \in AppPids /\ job.pid \notin Housed /\ tab[job.pid].inUse
    BY <1>13, Zenon DEF PrepareFields, ShellInv, Chosen, EntryInv, ZeroTask
  <2>2. /\ tab'[job.pid].leader = job.pid /\ tab'[job.pid].base = job.base
        /\ tab'[job.pid].size = job.size /\ tab'[job.pid].owns
        /\ tab'[job.pid].join = ~job.background /\ tab'[job.pid].inUse
    BY <1>13, <2>1 DEF PrepareFields, TypeOK, AppTask
  <2>3. pc' = "map" /\ UNCHANGED <<job, Housed>>
    BY <1>13, Zenon DEF PrepareFields, Housed, taskVars
  <2> QED BY <2>1, <2>2, <2>3, Zenon DEF EntryInv, Reaping, Releasing
<1>14. CASE PrepareMap
  <2>1. job.pid \in AppPids /\ job.pid \notin Housed
    BY <1>14, Zenon DEF PrepareMap, ShellInv, Chosen, EntryInv
  <2>2. tab'[job.pid] = [tab[job.pid] EXCEPT !.built = TRUE] /\ tab[job.pid] \in AppTask
    BY <1>14, <2>1, Zenon DEF PrepareMap, TypeOK
  <2>3. pc' = "load" /\ UNCHANGED <<job, Housed>>
    BY <1>14, Zenon DEF PrepareMap, Housed, taskVars
  <2> QED BY <1>14, <2>1, <2>2, <2>3 DEF PrepareMap, EntryInv, Reaping, Releasing, AppTask
<1>15. CASE LoadImage
  <2>1. UNCHANGED <<tab, job, Housed>>
    BY <1>15, Zenon DEF LoadImage, memVars, taskVars, Housed
  <2>2. pc' = "spawn" \/ (pc' = "read" /\ rel'.to = "prompt")
    BY <1>15, Zenon DEF LoadImage, Release, NoRel
  <2> QED BY <1>15, <2>1, <2>2, Zenon DEF LoadImage, EntryInv, Reaping, Releasing
<1>16. CASE SpawnTask
  <2>1. job.pid \in AppPids \ alive
    BY <1>16, Zenon DEF SpawnTask, SpawnSlot, First
  <2>2. job.pid \in Housed' /\ tab' = tab
    BY <1>16, <2>1, StartedHoused DEF SpawnTask, memVars
  <2>3. pc' = "prompt" \/ (pc' = "wait" /\ job' = job)
    BY <1>16, Zenon DEF SpawnTask, Done
  <2> QED BY <1>16, <2>2, <2>3, Zenon DEF SpawnTask, EntryInv, Reaping, Releasing
<1>17. CASE SpawnElsewhere \/ SpawnNowhere \/ WaitForTaskExit
  BY <1>17, Zenon DEF SpawnElsewhere, SpawnNowhere, WaitForTaskExit, Release, NoRel, EntryInv, Reaping, Releasing
<1> QED
  BY <1>1, <1>2, <1>3, <1>4, <1>5, <1>6, <1>7, <1>8, <1>9, <1>10, <1>11, <1>12, <1>13, <1>14, <1>15, <1>16, <1>17, Zenon
  DEF QuietNext, ShellStep

(* shell_apps_release_task works on an entry no task runs on.              *)
LEMMA ReleaseStep ==
  ASSUME TypeOK, ShellInv, Quiet, QuietNext
  PROVE  ReleaseInv'
<1> USE DEF Quiet
<1>1. ASSUME NEW p \in AppPids, AppStep(p)
      PROVE  ReleaseInv'
  <2>1. UNCHANGED <<tab, pc, rel>> /\ Housed' \subseteq Housed
    BY <1>1, AppStepCases, AppStepHoused, Zenon DEF memVars, shellVars
  <2> QED BY <2>1, Zenon DEF ReleaseInv
<1>2. ASSUME NEW p \in AppPids, SpawnThread(p), ~Disturbs(p)
      PROVE  ReleaseInv'
  <2>1. pc' \notin {"read", "zero", "pages"}
    BY <1>2, ThreadPoints, Zenon DEF SpawnThread
  <2> QED BY <2>1, Zenon DEF ReleaseInv
<1>3. CASE \/ Command
           \/ ReapAgain \/ ReleasePages \/ FindFreePid \/ FindNoPid \/ AllocatePhysBase \/ AllocateNoRoom
           \/ PrepareCopy \/ PrepareFields \/ PrepareMap \/ SpawnTask
           \/ StopElsewhere \/ StopFindTask \/ StopMember \/ StopLeader
  <2>1. pc' \notin {"read", "zero", "pages"}
    BY <1>3, Zenon DEF Command, CommandLaunch, CommandKill, CommandStress, shellVars, ReapAgain, ReleasePages, FindFreePid,
     FindNoPid, AllocatePhysBase, AllocateNoRoom, PrepareCopy, PrepareFields, PrepareMap, SpawnTask,
     StopElsewhere, StopFindTask, StopMember, StopLeader, Done
  <2> QED BY <2>1, Zenon DEF ReleaseInv
<1>4. CASE ReapReturn \/ TerminateMark \/ TerminateClear
  <2>1. pc' \notin {"read", "zero", "pages"}
    BY <1>4, Zenon DEF ReapReturn, TerminateMark, TerminateClear, Return, Done, ShellInv, Reaping
  <2> QED BY <2>1, Zenon DEF ReleaseInv
<1>5. CASE ReapScan
  <2>1. CASE Reapable(idx)
    <3>1. pc' = "read" /\ rel'.pid = idx /\ UNCHANGED <<tab, Housed>>
      BY <1>5, <2>1, Zenon DEF ReapScan, NoRel, memVars, taskVars, Housed
    <3>2. tab[idx].inUse /\ idx \notin Housed
      BY <2>1, Zenon DEF Reapable, Housed
    <3> QED BY <3>1, <3>2, Zenon DEF ReleaseInv
  <2>2. CASE ~Reapable(idx)
    BY <1>5, <2>2, Zenon DEF ReapScan, ReleaseInv
  <2> QED BY <2>1, <2>2, Zenon
<1>6. CASE ReleaseRead
  <2>1. /\ pc' = "zero" /\ UNCHANGED <<tab, Housed>> /\ rel'.pid = rel.pid
        /\ rel'.base = tab[rel.pid].base /\ rel'.size = tab[rel.pid].size
        /\ rel'.owns = tab[rel.pid].owns
    BY <1>6, Zenon DEF ReleaseRead, memVars, taskVars, Housed, TypeOK, Rel
  <2> QED BY <1>6, <2>1 DEF ReleaseRead, ReleaseInv
<1>7. CASE ReleaseZero
  <2>1. rel.pid \in AppPids
    BY <1>7, Zenon DEF ReleaseZero, ShellInv, Releasing
  <2> QED BY <1>7, <2>1, Zenon DEF ReleaseZero, ReleaseInv, TypeOK, ZeroTask
<1>8. CASE LoadImage \/ SpawnNowhere
  <2>1. UNCHANGED <<tab, Housed>> /\ tab[job.pid].inUse /\ job.pid \notin Housed
    BY <1>8, Zenon DEF LoadImage, SpawnNowhere, memVars, taskVars, Housed, EntryInv
  <2>2. pc' = "spawn" \/ (pc' = "read" /\ rel'.pid = job.pid)
    BY <1>8, Zenon DEF LoadImage, SpawnNowhere, Release, NoRel
  <2> QED BY <2>1, <2>2, Zenon DEF ReleaseInv
<1>9. CASE SpawnElsewhere
  <2>1. pc' = "read" /\ rel'.pid = job.pid /\ tab' = tab
    BY <1>9, Zenon DEF SpawnElsewhere, Release, NoRel, memVars
  <2>2. PICK p \in AppPids \ {job.pid} : SpawnSlot(p) /\ Started(p, job.pid, "boot")
    BY <1>9, Zenon DEF SpawnElsewhere
  <2>3. p \in AppPids \ alive /\ job.pid \in AppPids
    BY <1>9, <2>2, Zenon DEF SpawnSlot, First, SpawnElsewhere, ShellInv, Chosen
  <2>4. Housed' = Housed
    BY <2>2, <2>3, StartedHoused
  <2> QED BY <1>9, <2>1, <2>4, Zenon DEF SpawnElsewhere, ReleaseInv, EntryInv
<1>10. CASE WaitForTaskExit
  <2>1. pc' = "read" /\ rel'.pid = job.pid /\ UNCHANGED <<tab, Housed>>
    BY <1>10, Zenon DEF WaitForTaskExit, Release, NoRel, memVars, taskVars, Housed
  <2>2. tab[job.pid].inUse /\ job.pid \notin Housed
    BY <1>10, Zenon DEF WaitForTaskExit, EntryInv, Housed
  <2> QED BY <2>1, <2>2, Zenon DEF ReleaseInv
<1> QED
  BY <1>1, <1>2, <1>3, <1>4, <1>5, <1>6, <1>7, <1>8, <1>9, <1>10, Zenon DEF QuietNext, ShellStep

(* Nothing but the launch under way has a joinable entry.                  *)
LEMMA JoinStep ==
  ASSUME TypeOK, ShellInv, Quiet, QuietNext
  PROVE  JoinInv'
<1> USE DEF Quiet
<1>1. ASSUME NEW p \in AppPids, AppStep(p)
      PROVE  JoinInv'
  BY <1>1, AppStepCases, Zenon DEF memVars, shellVars, JoinInv
<1>2. ASSUME NEW p \in AppPids, SpawnThread(p), ~Disturbs(p)
      PROVE  JoinInv'
  <2>1. UNCHANGED <<pc, job, rel>>
    BY <1>2, Zenon DEF SpawnThread
  <2>2. ~ThreadTask(p).join
    <3>1. tab[p] \in AppTask
      BY Zenon DEF TypeOK
    <3> QED BY <3>1, Zenon DEF ThreadTask, AppTask
  <2>3. \A q \in AppPids : tab'[q].join => tab[q].join
    <3>1. \A q \in AppPids : ReapedTab[q].join => tab[q].join
      BY ReapedFacts DEF ZeroTask
    <3>2. \A c \in AppPids : ThreadStarts(p, c) => \A q \in AppPids : tab'[q].join => tab[q].join
      BY <2>2, <3>1, ReapedFacts, Zenon DEF ThreadStarts
    <3> QED BY <1>2, <3>1, <3>2, ThreadCases, Zenon
  <2> QED BY <2>1, <2>3, Zenon DEF JoinInv
<1>3. CASE Command
  BY <1>3, Zenon DEF Command, CommandLaunch, CommandKill, CommandStress, memVars, shellVars, JoinInv
<1>4. CASE \/ ReapScan \/ ReapReturn \/ ReapAgain \/ ReleasePages
           \/ FindFreePid \/ FindNoPid \/ AllocatePhysBase \/ AllocateNoRoom
           \/ StopElsewhere \/ StopFindTask \/ StopMember \/ StopLeader
           \/ TerminateMark \/ TerminateClear
  <2>1. tab' = tab
    BY <1>4, Zenon DEF ReapScan, ReapReturn, ReapAgain, ReleasePages,
     FindFreePid, FindNoPid, AllocatePhysBase, AllocateNoRoom, StopElsewhere, StopFindTask, StopMember, StopLeader,
     TerminateMark, TerminateClear, memVars
  <2>2. pc \notin {"map", "load", "spawn", "wait", "read", "zero"}
    BY <1>4, Zenon DEF ReapScan, ReapReturn, ReapAgain, ReleasePages,
     FindFreePid, FindNoPid, AllocatePhysBase, AllocateNoRoom, StopElsewhere, StopFindTask, StopMember, StopLeader,
     TerminateMark, TerminateClear
  <2> QED BY <2>1, <2>2, Zenon DEF JoinInv
<1>5. CASE ReleaseRead
  <2>1. rel'.to = rel.to
    BY <1>5, Zenon DEF ReleaseRead, TypeOK, Rel
  <2> QED BY <1>5, <2>1, Zenon DEF ReleaseRead, JoinInv, memVars
<1>6. CASE ReleaseZero
  <2>1. rel.pid \in AppPids /\ (rel.to # "reap" => rel.pid = job.pid)
    BY <1>6, Zenon DEF ReleaseZero, ShellInv, Releasing
  <2>2. \A q \in AppPids : ~tab'[q].join
    BY <1>6, <2>1, Zenon DEF ReleaseZero, JoinInv, TypeOK, ZeroTask
  <2> QED BY <2>2, Zenon DEF JoinInv
<1>7. CASE PrepareCopy
  <2>1. \A q \in AppPids : ~tab'[q].join
    BY <1>7, Zenon DEF PrepareCopy, JoinInv, TypeOK, ZeroTask
  <2> QED BY <2>1, Zenon DEF JoinInv
<1>8. CASE PrepareFields
  <2>1. job.pid \in AppPids /\ job.size > 0
    BY <1>8, Zenon DEF PrepareFields, ShellInv, Chosen, Launching
  <2>2. \A q \in AppPids : q # job.pid => tab'[q] = tab[q]
    BY <1>8, Zenon DEF PrepareFields, TypeOK
  <2> QED BY <1>8, <2>1, <2>2, Zenon DEF PrepareFields, JoinInv
<1>9. CASE PrepareMap
  <2>1. job.pid \in AppPids /\ job.size > 0
    BY <1>9, Zenon DEF PrepareMap, ShellInv, Chosen, Launching
  <2>2. \A q \in AppPids : q # job.pid => tab'[q] = tab[q]
    BY <1>9, Zenon DEF PrepareMap, TypeOK
  <2> QED BY <1>9, <2>1, <2>2, Zenon DEF PrepareMap, JoinInv
<1>10. CASE LoadImage \/ SpawnElsewhere \/ SpawnNowhere \/ WaitForTaskExit
  <2>1. tab' = tab /\ job' = job
    BY <1>10, Zenon DEF LoadImage, SpawnElsewhere, SpawnNowhere, WaitForTaskExit, memVars
  <2>2. pc' = "spawn" \/ (pc' = "read" /\ rel'.to # "reap")
    BY <1>10, Zenon DEF LoadImage, SpawnElsewhere, SpawnNowhere, WaitForTaskExit, Release, NoRel
  <2> QED BY <2>1, <2>2, Zenon DEF JoinInv
<1>11. CASE SpawnTask
  <2>1. job.pid \in AppPids /\ (job.background => ~tab[job.pid].join) /\ tab' = tab
    BY <1>11, Zenon DEF SpawnTask, ShellInv, Chosen, EntryInv, memVars
  <2>2. \A q \in AppPids : tab[q].join => q = job.pid /\ job.size > 0
    BY Zenon DEF JoinInv
  <2>3. (job.background /\ pc' = "prompt") \/ (pc' = "wait" /\ job' = job)
    BY <1>11, Zenon DEF SpawnTask, Done
  <2> QED BY <2>1, <2>2, <2>3, Zenon DEF JoinInv
<1> QED
  BY <1>1, <1>2, <1>3, <1>4, <1>5, <1>6, <1>7, <1>8, <1>9, <1>10, <1>11, Zenon DEF QuietNext, ShellStep

(* The stray is stopped before anything else gets its slot.                *)
LEMMA StrayStep ==
  ASSUME TypeOK, ShellInv, Quiet, QuietNext
  PROVE  StrayInv'
<1> USE DEF Quiet
<1>1. ASSUME NEW p \in AppPids, AppStep(p)
      PROVE  StrayInv'
  <2>1. UNCHANGED <<pc, group, rel, victim>> /\ Housed' \subseteq Housed
    BY <1>1, AppStepCases, AppStepHoused, Zenon DEF shellVars
  <2> QED BY <2>1, Zenon DEF StrayInv, StrayPoint, Releasing
<1>2. ASSUME NEW p \in AppPids, SpawnThread(p), ~Disturbs(p)
      PROVE  StrayInv'
  <2>1. ~StrayPoint'
    BY <1>2, ThreadPoints, Zenon DEF SpawnThread, StrayPoint, Releasing
  <2> QED BY <2>1, Zenon DEF StrayInv
<1>3. CASE \/ Command \/ ReapScan
           \/ ReapAgain \/ FindFreePid \/ FindNoPid \/ AllocatePhysBase \/ AllocateNoRoom
           \/ PrepareCopy \/ PrepareFields \/ PrepareMap \/ SpawnTask \/ LoadImage
           \/ SpawnNowhere \/ WaitForTaskExit \/ StopFindTask
  <2>1. ~StrayPoint'
    BY <1>3, Zenon DEF Command, CommandLaunch, CommandKill, CommandStress, shellVars, ReapScan, ReapAgain, FindFreePid,
     FindNoPid, AllocatePhysBase, AllocateNoRoom, PrepareCopy, PrepareFields, PrepareMap, SpawnTask, LoadImage,
     SpawnNowhere, WaitForTaskExit, StopFindTask, Release, NoRel, Done, StrayPoint, Releasing
  <2> QED BY <2>1, Zenon DEF StrayInv
<1>4. CASE ReapReturn \/ TerminateMark \/ TerminateClear
  <2>1. pc' \notin {"stop", "mark", "read", "zero", "pages"}
    BY <1>4, Zenon DEF ReapReturn, TerminateMark, TerminateClear, Return, Done, ShellInv, Reaping
  <2> QED BY <2>1, Zenon DEF StrayInv, StrayPoint, Releasing
<1>5. CASE StopMember \/ StopLeader
  <2>1. group' # NoPid
    BY <1>5, PidFacts, Zenon DEF StopMember, StopLeader, ShellInv, Killing
  <2> QED BY <2>1, Zenon DEF StrayInv, StrayPoint
<1>6. CASE ReleaseRead \/ ReleaseZero \/ ReleasePages \/ StopElsewhere
  <2>1. StrayPoint' => StrayPoint /\ victim' = victim
    BY <1>6, Zenon DEF ReleaseRead, ReleaseZero, ReleasePages, StopElsewhere, Done, StrayPoint, Releasing, TypeOK, Rel
  <2>2. Housed' = Housed
    BY <1>6, Zenon DEF ReleaseRead, ReleaseZero, ReleasePages, StopElsewhere, taskVars, Housed
  <2> QED BY <2>1, <2>2, Zenon DEF StrayInv
<1>7. CASE SpawnElsewhere
  <2>1. PICK p \in AppPids \ {job.pid} : SpawnSlot(p) /\ Started(p, job.pid, "boot") /\ victim' = p
    BY <1>7, Zenon DEF SpawnElsewhere
  <2>2. p \in AppPids \ alive /\ job.pid \in AppPids
    BY <1>7, <2>1, Zenon DEF SpawnSlot, First, SpawnElsewhere, ShellInv, Chosen
  <2>3. Housed' = Housed /\ p \notin Housed
    BY <2>1, <2>2, StartedHoused DEF Housed
  <2> QED BY <2>1, <2>3, Zenon DEF StrayInv
<1> QED
  BY <1>1, <1>2, <1>3, <1>4, <1>5, <1>6, <1>7, Zenon DEF QuietNext, ShellStep

(* The stray's entry is zeroed whole, and by nothing but its release.      *)
LEMMA StrayEntryStep ==
  ASSUME TypeOK, ShellInv, Quiet, QuietNext
  PROVE  StrayEntryInv'
<1> USE DEF Quiet
<1>1. ASSUME NEW p \in AppPids, AppStep(p)
      PROVE  StrayEntryInv'
  <2>1. UNCHANGED <<tab, pc, group, rel, job>>
    BY <1>1, AppStepCases, Zenon DEF memVars, shellVars
  <2> QED BY <2>1, Zenon DEF StrayEntryInv, StrayPoint, Releasing
<1>2. ASSUME NEW p \in AppPids, SpawnThread(p), ~Disturbs(p)
      PROVE  StrayEntryInv'
  <2>1. ~StrayPoint'
    BY <1>2, ThreadPoints, Zenon DEF SpawnThread, StrayPoint, Releasing
  <2> QED BY <2>1, Zenon DEF StrayEntryInv
<1>3. CASE \/ Command \/ ReapScan
           \/ ReapAgain \/ FindFreePid \/ FindNoPid \/ AllocatePhysBase \/ AllocateNoRoom
           \/ PrepareCopy \/ PrepareFields \/ PrepareMap \/ SpawnTask \/ LoadImage
           \/ SpawnNowhere \/ WaitForTaskExit \/ StopFindTask
  <2>1. ~StrayPoint'
    BY <1>3, Zenon DEF Command, CommandLaunch, CommandKill, CommandStress, shellVars, ReapScan, ReapAgain, FindFreePid,
     FindNoPid, AllocatePhysBase, AllocateNoRoom, PrepareCopy, PrepareFields, PrepareMap, SpawnTask, LoadImage,
     SpawnNowhere, WaitForTaskExit, StopFindTask, Release, NoRel, Done, StrayPoint, Releasing
  <2> QED BY <2>1, Zenon DEF StrayEntryInv
<1>4. CASE ReapReturn \/ TerminateMark \/ TerminateClear
  <2>1. pc' \notin {"stop", "mark", "read", "zero", "pages"}
    BY <1>4, Zenon DEF ReapReturn, TerminateMark, TerminateClear, Return, Done, ShellInv, Reaping
  <2> QED BY <2>1, Zenon DEF StrayEntryInv, StrayPoint, Releasing
<1>5. CASE StopMember \/ StopLeader
  <2>1. group' # NoPid
    BY <1>5, PidFacts, Zenon DEF StopMember, StopLeader, ShellInv, Killing
  <2> QED BY <2>1, Zenon DEF StrayEntryInv, StrayPoint
<1>6. CASE ReleaseRead
  <2>1. pc' = "zero" /\ UNCHANGED <<tab, job, group>> /\ rel'.to = rel.to /\ pc = "read"
    BY <1>6, Zenon DEF ReleaseRead, memVars, TypeOK, Rel
  <2> QED BY <2>1, Zenon DEF StrayEntryInv, StrayPoint, Releasing
<1>7. CASE ReleaseZero
  <2>1. pc' = "pages" /\ UNCHANGED <<job, group, rel>> /\ pc = "zero" /\ tab' = [tab EXCEPT ![rel.pid] = ZeroTask]
    BY <1>7, Zenon DEF ReleaseZero
  <2>2. StrayPoint' => rel.pid = job.pid /\ rel.pid \in AppPids
    BY <2>1, Zenon DEF StrayPoint, Releasing, ShellInv
  <2>3. StrayPoint' => tab'[job.pid] = ZeroTask
    BY <2>1, <2>2, Zenon DEF TypeOK
  <2> QED BY <2>1, <2>3, Zenon DEF StrayEntryInv
<1>8. CASE ReleasePages \/ StopElsewhere
  <2>1. tab' = tab /\ (pc' \in {"stop", "mark"} => job' = job) /\ pc' \notin {"read", "zero", "pages"} /\ pc \in {"pages", "stop"}
    BY <1>8, Zenon DEF ReleasePages, StopElsewhere, Done, memVars
  <2>2. StrayPoint' => StrayPoint /\ pc' \in {"stop", "mark"}
    BY <1>8, Zenon DEF ReleasePages, StopElsewhere, Done, StrayPoint, Releasing
  <2> QED BY <2>1, <2>2, Zenon DEF StrayEntryInv
<1>9. CASE SpawnElsewhere
  <2>1. pc' = "read" /\ tab' = tab /\ job' = job /\ tab[job.pid].owns /\ tab[job.pid].built
    BY <1>9, Zenon DEF SpawnElsewhere, Release, memVars, EntryInv
  <2> QED BY <2>1, Zenon DEF StrayEntryInv
<1> QED
  BY <1>1, <1>2, <1>3, <1>4, <1>5, <1>6, <1>7, <1>8, <1>9, Zenon DEF QuietNext, ShellStep

(* Every live task is a worker, runs on its own entry, or is the stray.    *)
LEMMA KindStep ==
  ASSUME TypeOK, ShellInv, Quiet, QuietNext
  PROVE  KindInv'
<1> USE DEF Quiet
<1>0. ASSUME \A q \in alive' : q \in alive /\ at'[q] = at[q] /\ dirOf'[q] = dirOf[q],
             StrayPoint => (StrayPoint' /\ victim' = victim /\ job' = job) \/ victim \notin alive'
      PROVE  KindInv'
  <2> SUFFICES ASSUME NEW q \in alive'
               PROVE  \/ at'[q] = "worker" /\ dirOf'[q] = KernelDir
                      \/ at'[q] \in {"boot", "user"} /\ (dirOf'[q] = q \/ Stray(q)')
    BY Zenon DEF KindInv
  <2>1. Stray(q) => Stray(q)'
    BY <1>0, Zenon DEF Stray
  <2> QED BY <1>0, <2>1, Zenon DEF KindInv
<1>1. ASSUME NEW p \in AppPids, AppStep(p)
      PROVE  KindInv'
  <2>1. UNCHANGED <<pc, group, rel, victim, job>>
    BY <1>1, AppStepCases, Zenon DEF shellVars
  <2>2. StrayPoint' = StrayPoint
    BY <2>1, Zenon DEF StrayPoint, Releasing
  <2>3. ASSUME NEW S, Ended(S)
        PROVE  KindInv'
    <3>1. \A q \in alive' : q \in alive /\ at'[q] = at[q] /\ dirOf'[q] = dirOf[q]
      BY <2>3, EndedHoused, Zenon
    <3> QED BY <1>0, <2>1, <2>2, <3>1, Zenon
  <2>4. CASE p \in alive /\ at[p] = "boot" /\ at' = [at EXCEPT ![p] = "user"] /\ UNCHANGED <<alive, dirOf>>
    <3>1. \A q \in alive : Stray(q)' = Stray(q)
      BY <2>1, <2>2, <2>4, Zenon DEF Stray
    <3> QED BY <2>4, <3>1, Zenon DEF KindInv, TypeOK
  <2> QED BY <1>1, <2>3, <2>4, AppStepCases, Zenon
<1>2. ASSUME NEW p \in AppPids, SpawnThread(p), ~Disturbs(p)
      PROVE  KindInv'
  <2>1. ~StrayPoint
    BY <1>2, ThreadPoints, Zenon DEF StrayPoint, Releasing
  <2>2. CASE UNCHANGED taskVars
    BY <1>0, <2>1, <2>2, Zenon DEF taskVars
  <2>3. ASSUME NEW c \in AppPids, ThreadStarts(p, c)
        PROVE  KindInv'
    <3>1. /\ alive' = alive \union {c} /\ dirOf'[c] = c /\ at'[c] = "boot"
          /\ \A q \in alive : dirOf'[q] = dirOf[q] /\ at'[q] = at[q]
      BY <2>3, StartedHoused, Zenon DEF ThreadStarts
    <3> QED BY <2>1, <3>1 DEF KindInv, Stray
  <2> QED BY <1>2, <2>2, <2>3, ThreadCases, Zenon
<1>3. ASSUME NEW p \in AppPids, CommandStress(p)
      PROVE  KindInv'
  <2>1. p \in AppPids \ alive /\ ~StrayPoint
    BY <1>3, Zenon DEF CommandStress, SpawnSlot, First, StrayPoint, Releasing
  <2>2. /\ alive' = alive \union {p} /\ dirOf'[p] = KernelDir /\ at'[p] = "worker"
        /\ \A q \in alive : dirOf'[q] = dirOf[q] /\ at'[q] = at[q]
    BY <1>3, <2>1, StartedHoused DEF CommandStress
  <2> QED BY <2>1, <2>2 DEF KindInv, Stray
<1>4. CASE \/ \E background \in BOOLEAN, size \in SlotSizes : CommandLaunch(background, size)
           \/ \E p \in AppPids : CommandKill(p)
           \/ ReapScan \/ ReapReturn \/ ReapAgain \/ FindFreePid \/ FindNoPid \/ AllocatePhysBase \/ AllocateNoRoom
           \/ PrepareCopy \/ PrepareFields \/ PrepareMap \/ LoadImage
           \/ SpawnNowhere \/ WaitForTaskExit \/ StopFindTask \/ StopMember \/ StopLeader
  <2>1. UNCHANGED <<alive, at, dirOf>>
    BY <1>4, Zenon DEF CommandLaunch, CommandKill, ReapScan, ReapReturn, ReapAgain, FindFreePid,
     FindNoPid, AllocatePhysBase, AllocateNoRoom, PrepareCopy, PrepareFields, PrepareMap, LoadImage,
     SpawnNowhere, WaitForTaskExit, StopFindTask, StopMember, StopLeader, taskVars
  <2>2. ~StrayPoint
    BY <1>4, Zenon DEF CommandLaunch, CommandKill, ReapScan, ReapReturn, ReapAgain, FindFreePid,
     FindNoPid, AllocatePhysBase, AllocateNoRoom, PrepareCopy, PrepareFields, PrepareMap, LoadImage,
     SpawnNowhere, WaitForTaskExit, StopFindTask, StopMember, StopLeader, StrayPoint, Releasing
  <2> QED BY <1>0, <2>1, <2>2, Zenon
<1>5. CASE ReleaseRead \/ ReleaseZero \/ ReleasePages \/ StopElsewhere
  <2>1. UNCHANGED <<alive, at, dirOf>>
    BY <1>5, Zenon DEF ReleaseRead, ReleaseZero, ReleasePages, StopElsewhere, taskVars
  <2>2. StrayPoint => StrayPoint' /\ victim' = victim /\ job' = job
    BY <1>5, Zenon DEF ReleaseRead, ReleaseZero, ReleasePages, StopElsewhere, StrayPoint, Releasing, TypeOK, Rel
  <2> QED BY <1>0, <2>1, <2>2, Zenon
<1>6. CASE TerminateMark
  <2>1. alive' = alive \ {victim} /\ UNCHANGED <<at, dirOf>>
    BY <1>6, Zenon DEF TerminateMark
  <2> QED BY <1>0, <2>1, Zenon
<1>7. CASE TerminateClear
  <2>1. victim \notin alive /\ alive' = alive
    BY <1>7, Zenon DEF TerminateClear, ClearInv
  <2>2. \A q \in alive : at'[q] = at[q] /\ dirOf'[q] = dirOf[q]
    BY <1>7, <2>1, Zenon DEF TerminateClear, TypeOK
  <2> QED BY <1>0, <2>1, <2>2, Zenon
<1>8. CASE SpawnTask
  <2>1. job.pid \in AppPids \ alive /\ ~StrayPoint
    BY <1>8, Zenon DEF SpawnTask, SpawnSlot, First, StrayPoint, Releasing
  <2>2. /\ alive' = alive \union {job.pid} /\ dirOf'[job.pid] = job.pid /\ at'[job.pid] = "boot"
        /\ \A q \in alive : dirOf'[q] = dirOf[q] /\ at'[q] = at[q]
    BY <1>8, <2>1, StartedHoused, Zenon DEF SpawnTask
  <2> QED BY <2>1, <2>2 DEF KindInv, Stray
<1>9. CASE SpawnElsewhere
  <2>1. PICK p \in AppPids \ {job.pid} : SpawnSlot(p) /\ Started(p, job.pid, "boot") /\ victim' = p
    BY <1>9, Zenon DEF SpawnElsewhere
  <2>2. p \in AppPids \ alive /\ job.pid \in AppPids /\ ~StrayPoint /\ group = NoPid
    BY <1>9, <2>1, Zenon DEF SpawnSlot, First, SpawnElsewhere, ShellInv, Chosen, Launching, StrayPoint, Releasing
  <2>3. /\ alive' = alive \union {p} /\ dirOf'[p] = job.pid /\ at'[p] = "boot"
        /\ \A q \in alive : dirOf'[q] = dirOf[q] /\ at'[q] = at[q]
    BY <2>1, <2>2, StartedHoused, Zenon
  <2>4. StrayPoint' /\ job' = job
    BY <1>9, <2>2, Zenon DEF SpawnElsewhere, Release, NoRel, StrayPoint, Releasing
  <2> QED BY <2>1, <2>2, <2>3, <2>4 DEF KindInv, Stray
<1> QED
  BY <1>1, <1>2, <1>3, <1>4, <1>5, <1>6, <1>7, <1>8, <1>9, Zenon DEF QuietNext, Command, ShellStep

(* Between the two stores that end a task its slot stays dead.             *)
LEMMA ClearStep ==
  ASSUME TypeOK, ShellInv, Quiet, QuietNext
  PROVE  ClearInv'
<1> USE DEF Quiet
<1>1. ASSUME NEW p \in AppPids, AppStep(p)
      PROVE  ClearInv'
  BY <1>1, AppStepCases, AppStepHoused, Zenon DEF shellVars, ClearInv
<1>2. ASSUME NEW p \in AppPids, SpawnThread(p), ~Disturbs(p)
      PROVE  ClearInv'
  BY <1>2, ThreadPoints, Zenon DEF SpawnThread, ClearInv
<1>3. CASE TerminateMark
  BY <1>3, Zenon DEF TerminateMark, ClearInv, Return, Done, ShellInv
<1>4. CASE ReapReturn \/ TerminateClear
  BY <1>4, Zenon DEF ReapReturn, TerminateClear, ClearInv, Return, Done, ShellInv, Reaping
<1>5. CASE Command \/ (ShellStep /\ ~TerminateMark /\ ~ReapReturn /\ ~TerminateClear)
  BY <1>5, Zenon DEF Command, CommandLaunch, CommandKill, CommandStress, shellVars, ShellStep, ReapScan, ReapAgain,
     ReleaseRead, ReleaseZero, ReleasePages, FindFreePid, FindNoPid, AllocatePhysBase, AllocateNoRoom,
     PrepareCopy, PrepareFields, PrepareMap, LoadImage, SpawnTask, SpawnElsewhere, SpawnNowhere, StopElsewhere,
     WaitForTaskExit, StopFindTask, StopMember, StopLeader, Release, Done, ClearInv
<1> QED BY <1>1, <1>2, <1>3, <1>4, <1>5, Zenon DEF QuietNext, ShellStep

(* The loop of shell_apps_stop_background leaves no member alive behind it.*)
LEMMA KillStep ==
  ASSUME TypeOK, ShellInv, Quiet, QuietNext
  PROVE  KillInv'
<1> USE DEF Quiet
<1>0. ASSUME group' = NoPid
      PROVE  KillInv'
  BY <1>0, Zenon DEF KillInv
<1>1. ASSUME NEW p \in AppPids, AppStep(p)
      PROVE  KillInv'
  <2>1. UNCHANGED <<tab, pc, ret, idx, victim, group>> /\ alive' \subseteq alive /\ Housed' \subseteq Housed
    BY <1>1, AppStepCases, AppStepHoused, Zenon DEF memVars, shellVars
  <2>2. Members(group)' = Members(group) /\ GroupLeader(victim)' = GroupLeader(victim)
    BY <2>1, Zenon DEF Members, GroupLeader
  <2> QED BY <2>1, <2>2, Zenon DEF KillInv
<1>2. ASSUME NEW p \in AppPids, SpawnThread(p), ~Disturbs(p)
      PROVE  KillInv'
  <2>1. UNCHANGED <<pc, ret, idx, victim, group>>
    BY <1>2, Zenon DEF SpawnThread
  <2>2. p \in Housed /\ GroupLeader(p) \in Housed /\ GroupLeader(p) # group /\ GroupLeader(p) \in AppPids
    BY <1>2, ThreadCaller, ThreadPoints, LeaderIsPid, Zenon DEF LeaderInv
  <2>3. \A q \in alive : ReapedTab[q] = tab[q]
    BY ReapedFacts, Zenon
  <2>4. CASE tab' = ReapedTab /\ UNCHANGED taskVars
    <3>1. UNCHANGED <<alive, Housed>>
      BY <2>4, Zenon DEF taskVars, Housed
    <3>2. \A q \in alive : (q \in Members(group)' <=> q \in Members(group)) /\ GroupLeader(q)' = GroupLeader(q)
      BY <2>1, <2>3, <2>4, Zenon DEF Members, GroupLeader
    <3>3. victim \in Housed => GroupLeader(victim)' = GroupLeader(victim)
      BY <2>1, <3>2, Zenon DEF Housed, GroupLeader
    <3> QED BY <2>1, <3>1, <3>2, <3>3, Zenon DEF KillInv
  <2>5. ASSUME NEW c \in AppPids, ThreadStarts(p, c)
        PROVE  KillInv'
    <3>1. c \notin alive /\ alive' = alive \union {c} /\ Housed' = Housed \union {c}
      BY <2>5, StartedHoused, Zenon DEF ThreadStarts
    <3>2. \A q \in alive : tab'[q] = tab[q]
      BY <2>3, <2>5, <3>1, ReapedFacts, Zenon DEF ThreadStarts, TypeOK
    <3>3. \A q \in alive : (q \in Members(group)' <=> q \in Members(group)) /\ GroupLeader(q)' = GroupLeader(q)
      BY <2>1, <3>2, Zenon DEF Members, GroupLeader
    <3>4. tab'[c].leader = GroupLeader(p)
      <4>1. tab[p] \in AppTask /\ tab'[c] = ThreadTask(p)
        BY <2>5, ReapedFacts, Zenon DEF ThreadStarts, TypeOK
      <4> QED BY <4>1, Zenon DEF ThreadTask, AppTask
    <3>5. GroupLeader(c)' = GroupLeader(p)
      BY <2>2, <3>4, PidFacts, Zenon DEF GroupLeader
    <3>6. c \notin Members(group)' /\ GroupLeader(c)' # c
      BY <2>1, <2>2, <3>1, <3>5, Zenon DEF Members, Housed
    <3>7. victim \in Housed => GroupLeader(victim)' = GroupLeader(victim)
      BY <2>1, <3>3, Zenon DEF Housed, GroupLeader
    <3>8. victim = c => GroupLeader(victim)' # victim'
      BY <2>1, <3>6, Zenon DEF GroupLeader
    <3> QED BY <2>1, <3>1, <3>3, <3>6, <3>7, <3>8, Zenon DEF KillInv
  <2> QED BY <1>2, <2>4, <2>5, ThreadCases, Zenon
<1>3. CASE \/ Command
           \/ ReapScan \/ ReapReturn \/ ReapAgain \/ ReleaseRead \/ ReleaseZero \/ ReleasePages
           \/ FindFreePid \/ FindNoPid \/ AllocatePhysBase \/ AllocateNoRoom
           \/ PrepareCopy \/ PrepareFields \/ PrepareMap \/ LoadImage
           \/ SpawnTask \/ SpawnElsewhere \/ SpawnNowhere \/ StopElsewhere \/ WaitForTaskExit
  <2>1. group' \in {group, NoPid} /\ pc \notin {"kill", "mark", "clear"}
    BY <1>3, Zenon DEF Command, CommandLaunch, CommandKill, CommandStress, shellVars, ReapScan, ReapReturn, ReapAgain,
     ReleaseRead, ReleaseZero, ReleasePages, FindFreePid, FindNoPid, AllocatePhysBase, AllocateNoRoom,
     PrepareCopy, PrepareFields, PrepareMap, LoadImage, SpawnTask, SpawnElsewhere, SpawnNowhere, StopElsewhere,
     WaitForTaskExit, Done
  <2> QED BY <1>0, <2>1, GroupPoints, Zenon
<1>4. CASE StopFindTask
  <2>1. CASE ~tab[job.pid].inUse
    BY <1>0, <1>4, <2>1, Zenon DEF StopFindTask, Done
  <2>2. CASE tab[job.pid].inUse
    <3>1. pc' = "kill" /\ idx' = FirstPid /\ alive' = alive
      BY <1>4, <2>2, Zenon DEF StopFindTask, taskVars
    <3>2. \A q \in alive : ~(q < FirstPid)
      BY PidFacts, AppTasksConstants DEF TypeOK
    <3> QED BY <3>1, <3>2, Zenon DEF KillInv
  <2> QED BY <2>1, <2>2, Zenon
<1>5. CASE StopMember
  <2>1. UNCHANGED <<tab, alive, group>> /\ idx' = idx + 1 /\ pc = "kill"
    BY <1>5, Zenon DEF StopMember, memVars, taskVars
  <2>2. group # NoPid /\ Members(group)' = Members(group)
    BY <2>1, PidFacts, Zenon DEF ShellInv, Killing, Members, GroupLeader
  <2>3. \A q \in alive : q \in Members(group) /\ q < idx + 1 /\ q # group => q = idx
    <3>1. idx \in Int /\ \A q \in alive : q \in Int
      BY PidFacts, AppTasksConstants DEF TypeOK
    <3>2. \A q \in alive : q \in Members(group) /\ q # group => ~(q < idx)
      BY <2>1, <2>2, Zenon DEF KillInv
    <3> QED BY <3>1, <3>2
  <2>4. CASE StopsMember(idx)
    <3>1. pc' = "mark" /\ victim' = idx
      BY <1>5, <2>4, Zenon DEF StopMember
    <3>2. GroupLeader(idx) # idx
      BY <2>4, Zenon DEF StopsMember, Members
    <3>3. GroupLeader(victim)' = GroupLeader(idx)
      BY <2>1, <3>1, Zenon DEF GroupLeader
    <3> QED BY <2>1, <2>2, <2>3, <3>1, <3>2, <3>3, Zenon DEF KillInv
  <2>5. CASE ~StopsMember(idx)
    <3>1. pc' = "kill"
      BY <1>5, <2>1, <2>5, Zenon DEF StopMember
    <3>2. \A q \in alive : ~(q \in Members(group) /\ q < idx + 1 /\ q # group)
      BY <2>3, <2>5, Zenon DEF StopsMember
    <3> QED BY <2>1, <2>2, <3>1, <3>2, Zenon DEF KillInv
  <2> QED BY <2>4, <2>5, Zenon
<1>6. CASE StopLeader
  <2>1. UNCHANGED <<tab, alive, group, idx>> /\ pc' = "mark" /\ ret' = "prompt" /\ pc = "kill"
    BY <1>6, Zenon DEF StopLeader, memVars, taskVars
  <2>2. group # NoPid /\ Members(group)' = Members(group)
    BY <2>1, PidFacts, Zenon DEF ShellInv, Killing, Members, GroupLeader
  <2> QED BY <2>1, <2>2, Zenon DEF KillInv
<1>7. CASE TerminateMark \/ TerminateClear
  <2>1. tab' = tab /\ alive' = alive \ {victim} /\ pc' \in {"clear", "kill", "prompt"}
    BY <1>7, Zenon DEF TerminateMark, TerminateClear, Return, Done, memVars, ShellInv, ClearInv
  <2>2. group' = NoPid \/ UNCHANGED <<group, idx>>
    BY <1>7, Zenon DEF TerminateMark, TerminateClear, Return, Done
  <2>3. UNCHANGED group => Members(group)' = Members(group)
    BY <2>1, Zenon DEF Members, GroupLeader
  <2> QED BY <1>0, <2>1, <2>2, <2>3, Zenon DEF KillInv
<1> QED BY <1>1, <1>2, <1>3, <1>4, <1>5, <1>6, <1>7, Zenon DEF QuietNext, ShellStep

(* The arena invariant is about the owners, their spans, the marked pages  *)
(* and the pending ones, and nothing else.                                 *)
LEMMA ArenaKept ==
  ASSUME ArenaInv, Owning' = Owning, \A q \in Owning : Span(tab[q])' = Span(tab[q]),
         used' = used, Pending' = Pending
  PROVE  ArenaInv'
BY Zenon DEF ArenaInv

(* Every page marked belongs to one owner, or is on its way to or from one.*)
LEMMA ArenaStep ==
  ASSUME TypeOK, ShellInv, Quiet, QuietNext
  PROVE  ArenaInv'
<1> USE DEF Quiet
<1>0. ASSUME UNCHANGED <<tab, used>>, Pending' = Pending
      PROVE  ArenaInv'
  <2>1. Owning' = Owning /\ \A q \in Owning : Span(tab[q])' = Span(tab[q])
    BY <1>0, Zenon DEF Owning, Span
  <2> QED BY <1>0, <2>1, ArenaKept, Zenon
<1>1. ASSUME NEW p \in AppPids, AppStep(p)
      PROVE  ArenaInv'
  <2>1. UNCHANGED <<tab, used, pc, job, rel>>
    BY <1>1, AppStepCases, Zenon DEF memVars, shellVars
  <2> QED BY <1>0, <2>1, Zenon DEF Pending, Span, ReleasedPages
<1>2. ASSUME NEW p \in AppPids, SpawnThread(p), ~Disturbs(p)
      PROVE  ArenaInv'
  <2>1. Pending = {} /\ Pending' = {}
    BY <1>2, ThreadPoints, Zenon DEF SpawnThread, Pending
  <2>2. \A x : x \in used' <=> x \in used /\ \A q \in Reaped : x \notin ReleasedPages(tab[q])
    BY <1>2, Zenon DEF SpawnThread
  <2>3. Owning' = Owning \ Reaped /\ \A q \in Owning' : tab'[q] = tab[q]
    <3>1. ~ThreadTask(p).owns
      <4>1. tab[p] \in AppTask
        BY Zenon DEF TypeOK
      <4> QED BY <4>1, Zenon DEF ThreadTask, AppTask
    <3>2. \A q \in AppPids : q \notin Reaped => ReapedTab[q] = tab[q]
      BY ReapedFacts, Zenon
    <3>3. \A q \in Reaped : q \in AppPids /\ ~ReapedTab[q].inUse
      BY ReapedFacts DEF Reaped, ZeroTask
    <3>4. CASE tab' = ReapedTab
      BY <3>2, <3>3, <3>4, Zenon DEF Owning
    <3>5. ASSUME NEW c \in AppPids, ThreadStarts(p, c)
          PROVE  Owning' = Owning \ Reaped /\ \A q \in Owning' : tab'[q] = tab[q]
      <4>1. tab'[c] = ThreadTask(p) /\ \A q \in AppPids \ {c} : tab'[q] = ReapedTab[q]
        BY <3>5, ReapedFacts, Zenon DEF ThreadStarts
      <4>2. c \notin Owning \ Reaped
        BY <3>2, <3>5, Zenon DEF ThreadStarts, Owning
      <4>3. c \notin Owning'
        BY <3>1, <4>1, Zenon DEF Owning
      <4>4. \A q \in AppPids \ {c} : q \in Owning' <=> q \in Owning \ Reaped
        BY <3>2, <3>3, <4>1, Zenon DEF Owning
      <4>5. Owning' \subseteq AppPids /\ Owning \subseteq AppPids
        BY Zenon DEF Owning
      <4>6. Owning' = Owning \ Reaped
        BY <4>2, <4>3, <4>4, <4>5, Zenon
      <4> QED BY <3>2, <4>1, <4>3, <4>5, <4>6, Zenon
    <3> QED BY <1>2, <3>4, <3>5, ThreadCases, Zenon
  <2>4. \A q \in Owning' : Span(tab[q])' = Span(tab[q])
    BY <2>3, Zenon DEF Span
  <2>5. \A q \in Reaped : ReleasedPages(tab[q]) = IF q \in Owning THEN Span(tab[q]) ELSE {}
    BY Zenon DEF ReleasedPages, Reaped, Reapable, Owning
  <2>6. \A x \in Pages : x \in used' <=> \E q \in Owning' : x \in Span(tab[q])
    BY <2>1, <2>2, <2>3, <2>5 DEF ArenaInv
  <2> QED BY <2>1, <2>3, <2>4, <2>6, Zenon DEF ArenaInv
<1>3. CASE AllocatePhysBase
  <2>1. PICK b \in FreeRuns(job.size, used) : used' = used \union (b .. (b + job.size - 1)) /\ job' = [job EXCEPT !.base = b]
    BY <1>3, Zenon DEF AllocatePhysBase
  <2>2. job.size \in Nat
    <3>1. job.size \in SlotSizes \union {0}
      BY Zenon DEF TypeOK, Job
    <3>2. SlotSizes \union {0} \subseteq Nat
      BY PidFacts
    <3> QED BY <3>1, <3>2, Zenon
  <2>3. Pending = {} /\ Pending' = b .. (b + job.size - 1)
    BY <1>3, <2>1, Zenon DEF AllocatePhysBase, Pending, Span, TypeOK, Job
  <2>4. Pending' \subseteq Pages /\ Pending' \intersect used = {}
    BY <2>1, <2>2, <2>3, AppTasksConstants DEF FreeRuns, Pages
  <2>5. used' = used \union Pending'
    BY <2>1, <2>3, Zenon
  <2>6. Owning' = Owning /\ \A q \in Owning : Span(tab[q])' = Span(tab[q])
    BY <1>3, Zenon DEF AllocatePhysBase, Owning, Span
  <2> HIDE DEF Pending
  <2> QED BY <2>3, <2>4, <2>5, <2>6, Zenon DEF ArenaInv
<1>4. CASE PrepareCopy
  <2>1. job.pid \in AppPids /\ ~tab[job.pid].inUse
    BY <1>4, Zenon DEF PrepareCopy, ShellInv, Chosen, EntryInv
  <2>2. \A q \in AppPids : q # job.pid => tab'[q] = tab[q]
    BY <1>4, Zenon DEF PrepareCopy, TypeOK
  <2>3. ~tab'[job.pid].owns
    BY <1>4, <2>1, Zenon DEF PrepareCopy, TypeOK, ZeroTask
  <2>4. Owning' = Owning /\ \A q \in Owning : Span(tab[q])' = Span(tab[q])
    BY <2>1, <2>2, <2>3, Zenon DEF Owning, Span
  <2>5. Pending' = Pending /\ used' = used
    BY <1>4, Zenon DEF PrepareCopy, Pending, Span
  <2> QED BY <2>4, <2>5, ArenaKept, Zenon
<1>5. CASE PrepareFields
  <2>1. job.pid \in AppPids /\ tab[job.pid].inUse /\ ~tab[job.pid].owns
    BY <1>5, Zenon DEF PrepareFields, ShellInv, Chosen, EntryInv, ZeroTask
  <2>2. \A q \in AppPids : q # job.pid => tab'[q] = tab[q]
    BY <1>5, Zenon DEF PrepareFields, TypeOK
  <2>3. tab'[job.pid].inUse /\ tab'[job.pid].owns /\ tab'[job.pid].base = job.base /\ tab'[job.pid].size = job.size
    BY <1>5, <2>1 DEF PrepareFields, TypeOK, AppTask
  <2>4. Pending = Span(job) /\ Pending' = {} /\ used' = used /\ job' = job
    BY <1>5, Zenon DEF PrepareFields, Pending
  <2>5. Owning' = Owning \union {job.pid} /\ job.pid \notin Owning
    BY <2>1, <2>2, <2>3, Zenon DEF Owning
  <2>6. \A q \in Owning : Span(tab[q])' = Span(tab[q])
    BY <2>1, <2>2, Zenon DEF Owning, Span
  <2>7. Span(tab[job.pid])' = Pending
    BY <2>3, <2>4, Zenon DEF Span
  <2> QED BY <2>4, <2>5, <2>6, <2>7, Zenon DEF ArenaInv
<1>6. CASE PrepareMap
  <2>1. \A q \in AppPids : /\ tab'[q].inUse = tab[q].inUse /\ tab'[q].owns = tab[q].owns
                           /\ tab'[q].base = tab[q].base /\ tab'[q].size = tab[q].size
    BY <1>6 DEF PrepareMap, TypeOK, AppTask
  <2>2. Owning' = Owning /\ \A q \in Owning : Span(tab[q])' = Span(tab[q])
    BY <2>1, Zenon DEF Owning, Span
  <2>3. Pending' = Pending /\ used' = used
    BY <1>6, Zenon DEF PrepareMap, Pending
  <2> QED BY <2>2, <2>3, ArenaKept, Zenon
<1>7. CASE ReleaseZero
  <2>1. rel.pid \in AppPids /\ tab[rel.pid].inUse
    BY <1>7, Zenon DEF ReleaseZero, ShellInv, Releasing, ReleaseInv
  <2>2. \A q \in AppPids : q # rel.pid => tab'[q] = tab[q]
    BY <1>7, Zenon DEF ReleaseZero, TypeOK
  <2>3. ~tab'[rel.pid].inUse
    BY <1>7, <2>1, Zenon DEF ReleaseZero, TypeOK, ZeroTask
  <2>4. Pending = {} /\ used' = used /\ Pending' = ReleasedPages(rel)
    BY <1>7, Zenon DEF ReleaseZero, Pending, ReleasedPages, Span
  <2>5. Pending' = IF rel.pid \in Owning THEN Span(tab[rel.pid]) ELSE {}
    BY <1>7, <2>1, <2>4, Zenon DEF ReleaseZero, ReleaseInv, ReleasedPages, Owning, Span
  <2>6. Owning' = Owning \ {rel.pid} /\ \A q \in Owning' : Span(tab[q])' = Span(tab[q])
    BY <2>1, <2>2, <2>3, Zenon DEF Owning, Span
  <2> HIDE DEF Pending
  <2> QED BY <2>4, <2>5, <2>6 DEF ArenaInv
<1>8. CASE ReleasePages
  <2>1. Pending = ReleasedPages(rel) /\ Pending' = {} /\ used' = used \ Pending
    BY <1>8, Zenon DEF ReleasePages, Pending, Done
  <2>2. Owning' = Owning /\ \A q \in Owning : Span(tab[q])' = Span(tab[q])
    BY <1>8, Zenon DEF ReleasePages, Owning, Span
  <2> HIDE DEF Pending
  <2> QED BY <2>1, <2>2, Zenon DEF ArenaInv
<1>9. CASE \/ Command
           \/ ReapScan \/ ReapAgain \/ ReleaseRead \/ FindFreePid \/ FindNoPid \/ AllocateNoRoom
           \/ LoadImage \/ SpawnTask \/ SpawnElsewhere \/ SpawnNowhere \/ StopElsewhere \/ WaitForTaskExit
           \/ StopFindTask \/ StopMember \/ StopLeader
  <2>1. UNCHANGED <<tab, used>> /\ pc \notin {"copy", "fields", "pages"} /\ pc' \notin {"copy", "fields", "pages"}
    BY <1>9, Zenon DEF Command, CommandLaunch, CommandKill, CommandStress, shellVars, memVars, ReapScan, ReapAgain,
     ReleaseRead, FindFreePid, FindNoPid, AllocateNoRoom, LoadImage, SpawnTask, SpawnElsewhere, SpawnNowhere,
     StopElsewhere, WaitForTaskExit, StopFindTask, StopMember, StopLeader, Release, Done
  <2> QED BY <1>0, <2>1, Zenon DEF Pending
<1>10. CASE ReapReturn \/ TerminateMark \/ TerminateClear
  <2>1. UNCHANGED <<tab, used>> /\ pc \notin {"copy", "fields", "pages"} /\ pc' \notin {"copy", "fields", "pages"}
    BY <1>10, Zenon DEF ReapReturn, TerminateMark, TerminateClear, Return, Done, memVars, ShellInv, Reaping
  <2> QED BY <1>0, <2>1, Zenon DEF Pending
<1> QED BY <1>1, <1>2, <1>3, <1>4, <1>5, <1>6, <1>7, <1>8, <1>9, <1>10, Zenon DEF QuietNext, ShellStep

(* A step keeps a system undisturbed.                                      *)
LEMMA QuietStep ==
  ASSUME TypeOK, ShellInv, Quiet, QuietNext
  PROVE  Quiet'
BY EntryStep, ReleaseStep, JoinStep, StrayStep, StrayEntryStep, KindStep, LeaderStep, ArenaStep, KillStep, ClearStep, Zenon DEF Quiet

-----------------------------------------------------------------------------
(* What an undisturbed launch can count on *)

(* The steps that calm allows.                                             *)
CalmNext ==
  \/ /\ Command \/ ShellStep \/ \E p \in AppPids : AppStep(p)
     /\ Workers' \subseteq Workers
     /\ pc \in Settled \/ alive \subseteq alive'
  \/ \E p \in AppPids : SpawnThread(p) /\ ~Disturbs(p)

LiveOnOwn == \A p \in alive : at[p] # "worker" /\ dirOf[p] = p

(* The first free slot is the one of the entry that the launch has chosen. *)
LEMMA SpawnsInPlace ==
  ASSUME TypeOK, ShellInv, CalmInv, pc = "spawn", NEW p \in AppPids, SpawnSlot(p)
  PROVE  p = job.pid
<1>1. job.pid \in AppPids /\ job.pid \notin alive /\ \A q \in AppPids : q < job.pid => q \in alive
  BY Zenon DEF CalmInv, SlotPoint, ShellInv, Chosen
<1>2. p \notin alive /\ p <= job.pid
  BY <1>1, Zenon DEF SpawnSlot, First
<1>3. \A q \in AppPids : q \in Int
  BY PidFacts
<1>4. p \in Int /\ job.pid \in Int
  BY <1>1, <1>3, Zenon
<1> QED BY <1>1, <1>2, <1>4

(* Without workers and strays every live task runs on its own entry.       *)
LEMMA LiveOnOwnStep ==
  ASSUME TypeOK, ShellInv, Quiet, CalmInv, CalmNext
  PROVE  LiveOnOwn'
<1> USE DEF Quiet
<1>0. LiveOnOwn
  BY Zenon DEF CalmInv, LiveOnOwn
<1>1. ASSUME \A q \in alive' : q \in alive /\ at'[q] = at[q] /\ dirOf'[q] = dirOf[q]
      PROVE  LiveOnOwn'
  BY <1>0, <1>1, Zenon DEF LiveOnOwn
<1>2. ASSUME NEW c \in AppPids \ alive, Started(c, c, "boot")
      PROVE  LiveOnOwn'
  <2>1. /\ alive' = alive \union {c} /\ dirOf'[c] = c /\ at'[c] = "boot"
        /\ \A q \in alive : dirOf'[q] = dirOf[q] /\ at'[q] = at[q]
    BY <1>2, StartedHoused, Zenon
  <2> QED BY <1>0, <2>1, Zenon DEF LiveOnOwn
<1>3. ASSUME NEW p \in AppPids, AppStep(p)
      PROVE  LiveOnOwn'
  <2>1. ASSUME NEW S, Ended(S)
        PROVE  LiveOnOwn'
    BY <1>1, <2>1, EndedHoused, Zenon
  <2>2. CASE at' = [at EXCEPT ![p] = "user"] /\ UNCHANGED <<alive, dirOf>>
    BY <1>0, <2>2, Zenon DEF LiveOnOwn, TypeOK
  <2> QED BY <1>3, <2>1, <2>2, AppStepCases, Zenon
<1>4. ASSUME NEW p \in AppPids, SpawnThread(p)
      PROVE  LiveOnOwn'
  BY <1>1, <1>2, <1>4, ThreadCases, Zenon DEF taskVars, ThreadStarts
<1>5. ASSUME NEW p \in AppPids, CommandStress(p)
      PROVE  ~(Workers' \subseteq Workers)
  <2>1. p \in AppPids \ alive
    BY <1>5, Zenon DEF CommandStress, SpawnSlot, First
  <2>2. p \in alive' /\ at'[p] = "worker"
    BY <1>5, <2>1, StartedHoused DEF CommandStress
  <2> QED BY <2>1, <2>2, Zenon DEF Workers
<1>6. CASE SpawnTask
  <2>1. job.pid \in AppPids \ alive
    BY <1>6, Zenon DEF SpawnTask, SpawnSlot, First
  <2> QED BY <1>2, <1>6, <2>1, Zenon DEF SpawnTask
<1>7. ~SpawnElsewhere
  BY SpawnsInPlace, Zenon DEF SpawnElsewhere
<1>8. CASE TerminateMark
  BY <1>1, <1>8, Zenon DEF TerminateMark
<1>9. CASE TerminateClear
  <2>1. victim \notin alive /\ alive' = alive
    BY <1>9, Zenon DEF TerminateClear, ClearInv
  <2>2. \A q \in alive : at'[q] = at[q] /\ dirOf'[q] = dirOf[q]
    BY <1>9, <2>1, Zenon DEF TerminateClear, TypeOK
  <2> QED BY <1>1, <2>1, <2>2, Zenon
<1>10. CASE \/ \E background \in BOOLEAN, size \in SlotSizes : CommandLaunch(background, size)
            \/ \E p \in AppPids : CommandKill(p)
            \/ ReapScan \/ ReapReturn \/ ReapAgain \/ ReleaseRead \/ ReleaseZero \/ ReleasePages
            \/ FindFreePid \/ FindNoPid \/ AllocatePhysBase \/ AllocateNoRoom
            \/ PrepareCopy \/ PrepareFields \/ PrepareMap \/ LoadImage
            \/ SpawnNowhere \/ StopElsewhere \/ WaitForTaskExit \/ StopFindTask \/ StopMember \/ StopLeader
  <2>1. UNCHANGED <<alive, at, dirOf>>
    BY <1>10, Zenon DEF CommandLaunch, CommandKill, ReapScan, ReapReturn, ReapAgain, ReleaseRead, ReleaseZero, ReleasePages,
     FindFreePid, FindNoPid, AllocatePhysBase, AllocateNoRoom, PrepareCopy, PrepareFields, PrepareMap, LoadImage,
     SpawnNowhere, StopElsewhere, WaitForTaskExit, StopFindTask, StopMember, StopLeader, taskVars
  <2> QED BY <1>1, <2>1, Zenon
<1> QED
  BY <1>3, <1>4, <1>5, <1>6, <1>7, <1>8, <1>9, <1>10, Zenon DEF CalmNext, Command, ShellStep

(* What the launch has found out about the slots stays true.               *)
ReapedDead == \A p \in AppPids : p < ReapedUpTo /\ p # job.pid /\ tab[p].inUse => p \in alive

LaunchCounts ==
  /\ LaunchPoint => alive \subseteq before /\ ReapedDead
  /\ SlotPoint => job.pid \notin alive /\ \A p \in AppPids : p < job.pid => p \in alive

(* An undisturbed step keeps the account of the launch that is under way. *)
LEMMA LaunchStep ==
  ASSUME TypeOK, ShellInv, Quiet, CalmInv, CalmNext
  PROVE  LaunchCounts'
<1> USE DEF Quiet
<1>0. LaunchCounts /\ LiveOnOwn
  BY Zenon DEF CalmInv, LaunchCounts, ReapedDead, LiveOnOwn
<1>1. ASSUME ~LaunchPoint', ~SlotPoint'
      PROVE  LaunchCounts'
  BY <1>1, Zenon DEF LaunchCounts
<1>2. pc \in Settled => ~LaunchPoint /\ ~SlotPoint
  BY Zenon DEF Settled, LaunchPoint, SlotPoint, Reaping, Releasing
<1>3. ASSUME NEW p \in AppPids, AppStep(p), pc \in Settled \/ alive \subseteq alive'
      PROVE  LaunchCounts'
  <2>1. UNCHANGED <<tab, pc, ret, job, idx, rel, before>> /\ alive' \subseteq alive
    BY <1>3, AppStepCases, AppStepHoused, Zenon DEF memVars, shellVars
  <2>2. LaunchPoint' = LaunchPoint /\ SlotPoint' = SlotPoint /\ ReapedUpTo' = ReapedUpTo
    BY <2>1, Zenon DEF LaunchPoint, SlotPoint, Reaping, Releasing, ReapedUpTo
  <2>3. CASE pc \in Settled
    BY <1>1, <1>2, <2>2, <2>3, Zenon
  <2>4. CASE alive \subseteq alive'
    BY <1>0, <2>1, <2>2, <2>4, Zenon DEF LaunchCounts, ReapedDead
  <2> QED BY <1>3, <2>3, <2>4, Zenon
<1>4. ASSUME NEW p \in AppPids, SpawnThread(p), ~Disturbs(p)
      PROVE  LaunchCounts'
  <2>1. UNCHANGED <<pc, ret, job, idx, rel>>
    BY <1>4, Zenon DEF SpawnThread
  <2>2. LaunchPoint' = LaunchPoint /\ SlotPoint' = SlotPoint /\ ReapedUpTo' = ReapedUpTo
    BY <2>1, Zenon DEF LaunchPoint, SlotPoint, Reaping, Releasing, ReapedUpTo
  <2>3. ~SlotPoint
    BY <1>4, ThreadPoints, Zenon DEF SlotPoint, Reaping, Releasing
  <2>4. CASE ~LaunchPoint
    BY <1>1, <2>2, <2>3, <2>4, Zenon
  <2>5. CASE LaunchPoint
    <3>1. pc \notin {"prompt", "wait"}
      BY <2>5, Zenon DEF LaunchPoint, Reaping, Releasing
    <3>2. before' = before \union (alive' \ alive)
      BY <1>4, <3>1, Zenon DEF SpawnThread
    <3>3. alive \subseteq before
      BY <1>0, <2>5, Zenon DEF LaunchCounts
    <3>4. alive' \subseteq before'
      BY <3>2, <3>3, Zenon
    <3>5. \A q \in AppPids : ReapedTab[q].inUse => tab[q].inUse
      BY ReapedFacts DEF ZeroTask
    <3>6. ReapedDead
      BY <1>0, <2>5, Zenon DEF LaunchCounts
    <3>7. CASE tab' = ReapedTab /\ UNCHANGED taskVars
      BY <2>1, <2>2, <2>3, <3>4, <3>5, <3>6, <3>7, Zenon DEF LaunchCounts, ReapedDead, taskVars
    <3>8. ASSUME NEW c \in AppPids, ThreadStarts(p, c)
          PROVE  LaunchCounts'
      <4>1. alive' = alive \union {c} /\ \A q \in AppPids : q # c => tab'[q] = ReapedTab[q]
        BY <3>8, ReapedFacts, Zenon DEF ThreadStarts, Started
      <4> QED BY <2>1, <2>2, <2>3, <3>4, <3>5, <3>6, <4>1, Zenon DEF LaunchCounts, ReapedDead
    <3> QED BY <1>4, <3>7, <3>8, ThreadCases, Zenon
  <2> QED BY <2>4, <2>5, Zenon
<1>5. ASSUME NEW background \in BOOLEAN, NEW size \in SlotSizes, CommandLaunch(background, size)
      PROVE  LaunchCounts'
  <2>1. pc' = "reap" /\ ret' = "again" /\ idx' = FirstPid /\ before' = LiveApps /\ alive' = alive
    BY <1>5, Zenon DEF CommandLaunch, taskVars
  <2>2. LiveApps = alive
    <3>1. \A q \in alive : q # KernelDir
      BY PidFacts, Zenon DEF TypeOK
    <3> QED BY <1>0, <3>1, Zenon DEF LiveApps, LiveOnOwn
  <2>3. ~SlotPoint' /\ ReapedUpTo' = FirstPid
    BY <2>1, Zenon DEF SlotPoint, ReapedUpTo, Reaping, Releasing
  <2>4. \A q \in AppPids : ~(q < FirstPid)
    BY PidFacts, AppTasksConstants
  <2> QED BY <2>1, <2>2, <2>3, <2>4, Zenon DEF LaunchCounts, ReapedDead
<1>6. CASE \/ \E p \in AppPids : CommandKill(p)
           \/ \E p \in AppPids : CommandStress(p)
           \/ FindNoPid \/ AllocateNoRoom \/ SpawnTask
           \/ SpawnElsewhere \/ SpawnNowhere \/ StopElsewhere \/ WaitForTaskExit
           \/ StopFindTask \/ StopMember \/ StopLeader
  BY <1>1, <1>6, Zenon DEF CommandKill, CommandStress, shellVars, FindNoPid, AllocateNoRoom, SpawnTask, SpawnElsewhere,
     SpawnNowhere, StopElsewhere, WaitForTaskExit, StopFindTask, StopMember, StopLeader, Release, NoRel, Done,
     LaunchPoint, SlotPoint, Reaping, Releasing
<1>7. CASE TerminateMark \/ TerminateClear
  <2>1. pc' \in {"clear", "kill", "prompt"}
    BY <1>7, Zenon DEF TerminateMark, TerminateClear, Return, Done, ShellInv
  <2> QED BY <1>1, <2>1, Zenon DEF LaunchPoint, SlotPoint, Reaping, Releasing
<1>8. CASE ReapScan
  <2>1. UNCHANGED <<tab, alive, job, ret, before>> /\ Reaping /\ Reaping' /\ pc' \in {"reap", "read"}
    BY <1>8, Zenon DEF ReapScan, memVars, taskVars, Reaping, Releasing, NoRel
  <2>2. LaunchPoint' = LaunchPoint /\ SlotPoint' = SlotPoint
    BY <1>8, <2>1, Zenon DEF ReapScan, LaunchPoint, SlotPoint
  <2>3. CASE Reapable(idx)
    <3>1. ReapedUpTo' = ReapedUpTo
      BY <1>8, <2>1, <2>3, Zenon DEF ReapScan, ReapedUpTo
    <3> QED BY <1>0, <2>1, <2>2, <3>1, Zenon DEF LaunchCounts, ReapedDead
  <2>4. CASE ~Reapable(idx)
    <3>1. \A q \in AppPids : ~tab[q].join
      BY <1>8, Zenon DEF ReapScan, JoinInv
    <3>2. idx \in AppPids /\ idx' = idx + 1
      BY <1>8, <2>4, PidFacts, AppTasksConstants DEF ReapScan, TypeOK
    <3>3. tab[idx].inUse => idx \in alive
      BY <2>4, <3>1, <3>2, Zenon DEF Reapable
    <3>4. ReapedUpTo' = IF ret = "again" THEN idx + 1 ELSE LastPid + 1
      BY <2>1, <3>2, Zenon DEF ReapedUpTo
    <3>5. ReapedUpTo = IF ret = "again" THEN idx ELSE LastPid + 1
      BY <2>1, Zenon DEF ReapedUpTo
    <3>6. \A q \in AppPids : q < idx + 1 => q < idx \/ q = idx
      BY <3>2, PidFacts
    <3>7. ReapedDead => ReapedDead'
      BY <2>1, <3>3, <3>4, <3>5, <3>6, Zenon DEF ReapedDead
    <3> QED BY <1>0, <2>1, <2>2, <3>7, Zenon DEF LaunchCounts
  <2> QED BY <2>3, <2>4, Zenon
<1>9. CASE ReapReturn
  <2>1. UNCHANGED <<tab, alive, job, ret, before>> /\ Reaping /\ pc' = ret /\ idx > LastPid
    BY <1>9, Zenon DEF ReapReturn, memVars, taskVars, Reaping
  <2>2. ret \in {"again", "find", "alloc", "group"}
    BY <2>1, Zenon DEF ShellInv
  <2>3. ~Reaping' /\ ReapedUpTo' = LastPid + 1
    BY <2>1, <2>2, Zenon DEF Reaping, Releasing, ReapedUpTo
  <2>4. (LaunchPoint' => LaunchPoint) /\ (SlotPoint' => SlotPoint)
    BY <2>1, <2>2, <2>3, Zenon DEF LaunchPoint, SlotPoint
  <2>5. \A q \in AppPids : q < idx /\ q < LastPid + 1
    BY <2>1, PidFacts, AppTasksConstants DEF TypeOK
  <2>6. ReapedDead => ReapedDead'
    BY <2>1, <2>5, Zenon DEF ReapedDead, ReapedUpTo
  <2> QED BY <1>0, <2>1, <2>4, <2>6, Zenon DEF LaunchCounts
<1>10. CASE ReapAgain
  <2>1. UNCHANGED <<tab, alive, job, before>> /\ pc = "again" /\ pc' = "reap" /\ ret' = "find"
    BY <1>10, Zenon DEF ReapAgain, memVars, taskVars
  <2>2. LaunchPoint /\ ~SlotPoint' /\ ReapedUpTo' = LastPid + 1 /\ ReapedUpTo = LastPid + 1
    BY <2>1, Zenon DEF LaunchPoint, SlotPoint, ReapedUpTo, Reaping, Releasing
  <2> QED BY <1>0, <2>1, <2>2, Zenon DEF LaunchCounts, ReapedDead
<1>11. CASE ReleaseRead \/ ReleaseZero
  <2>1. /\ UNCHANGED <<alive, job, ret, before, idx>> /\ Reaping' = Reaping
        /\ pc \in {"read", "zero"} /\ pc' \in {"zero", "pages"}
    BY <1>11, Zenon DEF ReleaseRead, ReleaseZero, taskVars, Reaping, Releasing, TypeOK, Rel
  <2>2. LaunchPoint' = LaunchPoint /\ SlotPoint' = SlotPoint /\ ReapedUpTo' = ReapedUpTo
    BY <2>1, Zenon DEF LaunchPoint, SlotPoint, ReapedUpTo
  <2>3. \A q \in AppPids : tab'[q].inUse => tab[q].inUse
    BY <1>11 DEF ReleaseRead, ReleaseZero, memVars, TypeOK, ZeroTask
  <2> QED BY <1>0, <2>1, <2>2, <2>3, Zenon DEF LaunchCounts, ReapedDead
<1>12. CASE ReleasePages
  <2>1. CASE rel.to # "reap"
    BY <1>1, <1>12, <2>1, Zenon DEF ReleasePages, Done, LaunchPoint, SlotPoint, Reaping, Releasing, TypeOK, Rel
  <2>2. CASE rel.to = "reap"
    <3>1. UNCHANGED <<tab, alive, job, ret, before>> /\ pc' = "reap" /\ idx' = idx + 1 /\ pc = "pages"
      BY <1>12, <2>2, Zenon DEF ReleasePages, taskVars
    <3>2. Reaping /\ Reaping'
      BY <2>2, <3>1, Zenon DEF Reaping, Releasing
    <3>3. LaunchPoint' = LaunchPoint /\ SlotPoint' = SlotPoint
      BY <3>1, <3>2, Zenon DEF LaunchPoint, SlotPoint
    <3>4. idx \in AppPids /\ ~tab[idx].inUse
      BY <2>2, <3>1, Zenon DEF ShellInv, Releasing, ReleaseInv
    <3>5. ReapedUpTo' = IF ret = "again" THEN idx + 1 ELSE LastPid + 1
      BY <3>1, <3>2, Zenon DEF ReapedUpTo
    <3>6. ReapedUpTo = IF ret = "again" THEN idx ELSE LastPid + 1
      BY <3>2, Zenon DEF ReapedUpTo
    <3>7. \A q \in AppPids : q < idx + 1 => q < idx \/ q = idx
      BY <3>4, PidFacts
    <3>8. ReapedDead => ReapedDead'
      BY <3>1, <3>4, <3>5, <3>6, <3>7, Zenon DEF ReapedDead
    <3> QED BY <1>0, <3>1, <3>3, <3>8, Zenon DEF LaunchCounts
  <2> QED BY <2>1, <2>2, Zenon
<1>13. CASE FindFreePid
  <2>1. PICK p \in FreeEntries : First(FreeEntries, p) /\ job' = [job EXCEPT !.pid = p]
    BY <1>13, Zenon DEF FindFreePid
  <2>2. /\ UNCHANGED <<tab, alive, before>> /\ pc = "find" /\ pc' = "reap" /\ ret' = "alloc"
        /\ job'.pid = p /\ job.pid = NoPid
    BY <1>13, <2>1, Zenon DEF FindFreePid, memVars, taskVars, ShellInv, Searching, TypeOK, Job
  <2>3. LaunchPoint /\ ReapedUpTo = LastPid + 1 /\ ReapedUpTo' = LastPid + 1
    BY <2>2, Zenon DEF LaunchPoint, ReapedUpTo, Reaping, Releasing
  <2>4. \A q \in AppPids : tab[q].inUse => q \in alive
    <3>1. \A q \in AppPids : q < LastPid + 1 /\ q # NoPid
      BY PidFacts, AppTasksConstants
    <3> QED BY <1>0, <2>2, <2>3, <3>1, Zenon DEF LaunchCounts, ReapedDead
  <2>5. p \notin alive
    <3>1. ~tab[p].inUse
      BY <2>1, Zenon DEF FreeEntries
    <3> QED BY <1>0, <3>1, Zenon DEF LiveOnOwn, LeaderInv, Housed
  <2>6. \A q \in AppPids : q < p => q \in alive
    <3>1. p \in Int /\ \A q \in AppPids : q \in Int
      BY <2>1, PidFacts DEF FreeEntries
    <3>2. \A q \in AppPids : ~tab[q].inUse => p <= q
      BY <2>1, Zenon DEF First, FreeEntries
    <3> QED BY <2>4, <3>1, <3>2
  <2> QED BY <1>0, <2>2, <2>3, <2>4, <2>5, <2>6, Zenon DEF LaunchCounts, ReapedDead
<1>14. CASE AllocatePhysBase \/ PrepareCopy \/ PrepareFields \/ PrepareMap \/ LoadImage
  <2>1. /\ UNCHANGED <<alive, before>> /\ job'.pid = job.pid
        /\ pc \in {"alloc", "copy", "fields", "map", "load"}
        /\ pc' \in {"copy", "fields", "map", "load", "spawn"} \/ (pc' = "read" /\ rel'.to = "prompt")
    BY <1>14, Zenon DEF AllocatePhysBase, PrepareCopy, PrepareFields, PrepareMap, LoadImage, Release, NoRel, taskVars, TypeOK, Job
  <2>2. LaunchPoint /\ SlotPoint /\ ReapedUpTo = LastPid + 1 /\ ReapedUpTo' = LastPid + 1
    BY <2>1, Zenon DEF LaunchPoint, SlotPoint, ReapedUpTo, Reaping, Releasing
  <2>3. \A q \in AppPids : q # job.pid => tab'[q] = tab[q]
    BY <1>14, Zenon DEF AllocatePhysBase, PrepareCopy, PrepareFields, PrepareMap, LoadImage, memVars, TypeOK
  <2> QED BY <1>0, <2>1, <2>2, <2>3, Zenon DEF LaunchCounts, ReapedDead
<1> QED
  BY <1>3, <1>4, <1>5, <1>6, <1>7, <1>8, <1>9, <1>10, <1>11, <1>12, <1>13, <1>14, Zenon DEF CalmNext, Command, ShellStep

-----------------------------------------------------------------------------
(* The invariant and the theorems *)

(* At boot nothing runs, nothing is marked and the shell is at its prompt. *)
LEMMA InitInv ==
  ASSUME Init
  PROVE  IInv
<1>1. TypeOK
  <2>1. FirstPid \in FirstPid .. LastPid + 1
    BY AppTasksConstants
  <2> QED BY <2>1, RecordTypes, Zenon DEF Init, TypeOK, ShellPoints
<1>2. ShellInv
  BY Zenon DEF Init, ShellInv, Reaping, Releasing
<1>3. Quiet
  <2>1. Housed = {} /\ Owning = {} /\ Pending = {}
    BY Zenon DEF Init, Housed, Owning, Pending, ZeroTask
  <2>2. \A p \in AppPids : tab[p] = ZeroTask
    BY Zenon DEF Init
  <2>3. EntryInv /\ ReleaseInv /\ StrayInv /\ StrayEntryInv /\ KindInv /\ KillInv /\ ClearInv
    BY Zenon DEF Init, EntryInv, ReleaseInv, StrayInv, StrayEntryInv, StrayPoint, KindInv, KillInv, ClearInv, Reaping, Releasing
  <2>4. JoinInv
    <3>1. ZeroTask.join = FALSE
      BY Zenon DEF ZeroTask
    <3>2. \A p \in AppPids : tab[p].join = FALSE
      BY <2>2, <3>1, Zenon
    <3> QED BY <3>2, Zenon DEF JoinInv
  <2>5. LeaderInv
    BY <2>1, Zenon DEF LeaderInv
  <2>6. ArenaInv
    BY <2>1, Zenon DEF Init, ArenaInv
  <2> QED BY <2>3, <2>4, <2>5, <2>6, Zenon DEF Quiet
<1>4. CalmInv
  <2>1. ~LaunchPoint /\ ~SlotPoint
    BY Zenon DEF Init, LaunchPoint, SlotPoint, Reaping, Releasing
  <2>2. ~grown /\ alive = {}
    BY Zenon DEF Init
  <2> QED BY <2>1, <2>2, Zenon DEF CalmInv
<1> QED BY <1>1, <1>2, <1>3, <1>4, Zenon DEF IInv

(* A step after which the system is undisturbed is one that leaves it so.  *)
LEMMA QuietNextCases ==
  ASSUME Next, ~grown'
  PROVE  ~grown /\ QuietNext
<1>1. CASE (Command \/ ShellStep \/ \E p \in AppPids : AppStep(p)) /\ UNCHANGED grown
  BY <1>1, Zenon DEF QuietNext
<1>2. ASSUME NEW p \in AppPids, SpawnThread(p), grown' = (grown \/ Disturbs(p))
      PROVE  ~grown /\ QuietNext
  <2>1. ~grown /\ ~Disturbs(p)
    BY <1>2, Zenon
  <2> QED BY <1>2, <2>1, Zenon DEF QuietNext
<1> QED BY <1>1, <1>2, Zenon DEF Next

(* Every step keeps the invariant.                                         *)
LEMMA StepInv ==
  ASSUME IInv, [Next]_vars
  PROVE  IInv'
<1>1. TypeOK' /\ ShellInv'
  BY TypeStepInv, ShellStepInv, Zenon DEF IInv
<1>2. CASE UNCHANGED vars
  <2> USE <1>2 DEF vars
  <2>1. Housed' = Housed /\ Owning' = Owning /\ Pending' = Pending
    BY Zenon DEF Housed, Owning, Pending, Span, ReleasedPages
  <2>2. \A p : GroupLeader(p)' = GroupLeader(p) /\ Span(tab[p])' = Span(tab[p])
    BY Zenon DEF GroupLeader, Span
  <2>3. Reaping' = Reaping /\ Releasing' = Releasing /\ StrayPoint' = StrayPoint
    BY Zenon DEF Reaping, Releasing, StrayPoint
  <2>4. Quiet => EntryInv' /\ ReleaseInv' /\ JoinInv' /\ StrayInv' /\ StrayEntryInv' /\ KindInv' /\ ClearInv'
    BY <2>1, <2>3 DEF Quiet, EntryInv, ReleaseInv, JoinInv, StrayInv, StrayEntryInv, KindInv, Stray, ClearInv
  <2>5. Quiet => LeaderInv'
    BY <2>1, Zenon DEF Quiet, LeaderInv, GroupLeader
  <2>6. Quiet => ArenaInv'
    BY <2>1, <2>2, ArenaKept, Zenon DEF Quiet
  <2>7. Quiet => KillInv'
    BY <2>1, Zenon DEF Quiet, KillInv, Members, GroupLeader
  <2>8. CalmInv => CalmInv'
    BY <2>3, Zenon DEF CalmInv, LaunchPoint, SlotPoint, ReapedUpTo
  <2> QED BY <1>1, <2>4, <2>5, <2>6, <2>7, <2>8, Zenon DEF IInv, Quiet
<1>3. ASSUME Next, ~grown'
      PROVE  ~grown /\ QuietNext
  BY <1>3, QuietNextCases, Zenon
<1>4. ASSUME Next, calm'
      PROVE  calm /\ ~grown' /\ CalmNext
  <2>1. CASE /\ Command \/ ShellStep \/ \E p \in AppPids : AppStep(p)
             /\ calm' = (calm /\ Workers' \subseteq Workers /\ (pc \in Settled \/ alive \subseteq alive'))
             /\ UNCHANGED grown
    <3>1. calm /\ Workers' \subseteq Workers /\ (pc \in Settled \/ alive \subseteq alive')
      BY <1>4, <2>1, Zenon
    <3>2. ~grown
      BY <3>1, Zenon DEF IInv, CalmInv
    <3> QED BY <2>1, <3>1, <3>2, Zenon DEF CalmNext
  <2>2. ASSUME NEW p \in AppPids, SpawnThread(p), grown' = (grown \/ Disturbs(p)), calm' = (calm /\ ~grown')
        PROVE  calm /\ ~grown' /\ CalmNext
    <3>1. calm /\ ~grown'
      BY <1>4, <2>2, Zenon
    <3> QED BY <2>2, <3>1, Zenon DEF CalmNext
  <2> QED BY <1>4, <2>1, <2>2, Zenon DEF Next
<1>5. CASE Next
  <2>1. ~grown' => Quiet'
    BY <1>3, <1>5, QuietStep, Zenon DEF IInv
  <2>2. ASSUME calm'
        PROVE  CalmInv'
    <3>1. calm /\ ~grown' /\ CalmNext
      BY <1>4, <1>5, <2>2, Zenon
    <3>2. TypeOK /\ ShellInv /\ CalmInv /\ Quiet
      BY <3>1, Zenon DEF IInv, CalmInv
    <3>3. LiveOnOwn' /\ LaunchCounts'
      BY <3>1, <3>2, LiveOnOwnStep, LaunchStep, Zenon
    <3> QED BY <3>1, <3>3, Zenon DEF CalmInv, LiveOnOwn, LaunchCounts, ReapedDead
  <2> QED BY <1>1, <2>1, <2>2, Zenon DEF IInv
<1> QED BY <1>2, <1>5, Zenon

(* The invariant holds in every reachable state.                           *)
THEOREM AppTasksInvariant == Spec => []IInv
BY InitInv, StepInv, PTL DEF Spec

(* A task that runs on an app directory runs on its own entry, where its   *)
(* leader owns what it maps, or is the stray of a launch, whose entry is   *)
(* still the launch's or zeroed.                                           *)
LEMMA LiveTask ==
  ASSUME IInv, ~grown, NEW p \in LiveApps
  PROVE  \/ /\ p \in Housed /\ dirOf[p] = p /\ tab[p].built
            /\ GroupLeader(p) \in Owning \intersect Housed
            /\ Span(tab[p]) = Span(tab[GroupLeader(p)])
         \/ /\ p = victim /\ dirOf[p] = job.pid /\ job.pid \notin Housed
            /\ \/ job.pid \in Owning /\ tab[job.pid].built
               \/ pc \in {"pages", "stop", "mark"} /\ Span(tab[job.pid]) = {}
<1>1. TypeOK /\ ShellInv /\ ReleaseInv /\ StrayEntryInv /\ KindInv /\ LeaderInv
  BY Zenon DEF IInv, Quiet
<1>2. p \in alive /\ (p \in Housed \/ Stray(p))
  BY <1>1, Zenon DEF LiveApps, KindInv, Housed
<1>3. CASE p \in Housed
  <2>1. GroupLeader(p) \in Housed /\ Housed \subseteq AppPids
    BY <1>1, <1>3, Zenon DEF LeaderInv, Housed, TypeOK
  <2> QED BY <1>1, <1>3, <2>1, Zenon DEF LeaderInv, Housed, Owning, Span
<1>4. CASE Stray(p) /\ p \notin Housed
  <2>1. p = victim /\ dirOf[p] = job.pid /\ StrayPoint
    BY <1>4, Zenon DEF Stray
  <2>2. job.pid \in AppPids
    BY <1>1, <2>1, PidFacts, Zenon DEF StrayPoint, ShellInv, Elsewhere, Chosen, Killing
  <2>3. CASE pc \in {"read", "zero"}
    <3>1. rel.pid = job.pid
      BY <1>1, <2>1, <2>3, Zenon DEF StrayPoint, Releasing, ShellInv
    <3>2. tab[job.pid].inUse /\ job.pid \notin Housed /\ tab[job.pid].owns /\ tab[job.pid].built
      BY <1>1, <2>1, <2>3, <3>1, Zenon DEF ReleaseInv, StrayEntryInv
    <3> QED BY <2>1, <2>2, <3>2, Zenon DEF Owning
  <2>4. CASE pc \notin {"read", "zero"}
    <3>1. tab[job.pid] = ZeroTask /\ pc \in {"pages", "stop", "mark"}
      BY <1>1, <2>1, <2>4, Zenon DEF StrayEntryInv, StrayPoint, Releasing
    <3>2. job.pid \notin Housed
      <4>1. ~tab[job.pid].inUse
        BY <3>1 DEF ZeroTask
      <4> QED BY <1>1, <4>1, Zenon DEF LeaderInv
    <3>3. Span(tab[job.pid]) = {}
      BY <3>1 DEF Span, ZeroTask
    <3> QED BY <2>1, <3>1, <3>2, <3>3, Zenon
  <2> QED BY <2>3, <2>4, Zenon
<1> QED BY <1>2, <1>3, <1>4, Zenon

(* For every number of slots and every arena, the page directory of a live *)
(* task stays built unless a launch was disturbed: what                    *)
(* sched_activate_slot loads into CR3 is whole, but for the stray between  *)
(* the release of its entry and its end.                                   *)
THEOREM DirectoriesStayIntact == Spec => []LiveDirectoriesIntact
<1>1. IInv => LiveDirectoriesIntact
  BY LiveTask, Zenon DEF LiveDirectoriesIntact
<1> QED BY <1>1, AppTasksInvariant, PTL

(* The arena never gives a page of a live task to another group, and back  *)
(* at the prompt its bitmap holds the spans of the owning entries and no   *)
(* other page, whatever was launched, killed, reaped or failed.            *)
THEOREM ArenaStaysSound == Spec => []ArenaSound
<1>1. ASSUME IInv
      PROVE  ArenaSound
  <2>1. ASSUME ~grown
        PROVE  ArenaInv /\ \A o \in Owning : Span(tab[o]) \subseteq used
    BY <1>1, <2>1, Zenon DEF IInv, Quiet, ArenaInv
  <2>2. ASSUME ~grown, NEW p \in LiveApps
        PROVE  Span(tab[dirOf[p]]) \subseteq used
    BY <1>1, <2>1, <2>2, LiveTask, Zenon
  <2>3. ASSUME ~grown, NEW p \in LiveApps, NEW q \in LiveApps, GroupLeader(p) # GroupLeader(q)
        PROVE  Span(tab[dirOf[p]]) \intersect Span(tab[dirOf[q]]) = {}
    <3> DEFINE Maps(x, o) ==
                 /\ Span(tab[dirOf[x]]) = Span(tab[o])
                 /\ (o \in Housed /\ o = GroupLeader(x)) \/ (o \notin Housed /\ o = job.pid /\ x = victim)
    <3>1. ASSUME NEW x \in LiveApps
          PROVE  Span(tab[dirOf[x]]) = {} \/ \E o \in Owning : Maps(x, o)
      BY <1>1, <2>3, LiveTask, Zenon
    <3>2. ASSUME NEW o \in Owning, NEW r \in Owning, Maps(p, o), Maps(q, r)
          PROVE  Span(tab[dirOf[p]]) \intersect Span(tab[dirOf[q]]) = {}
      <4>1. o # r
        <5>1. p # q
          BY <2>3, Zenon
        <5>2. o = r => o \in Housed
          BY <3>2, <5>1, Zenon
        <5>3. o \in Housed => o = GroupLeader(p)
          BY <3>2, Zenon
        <5>4. r \in Housed => r = GroupLeader(q)
          BY <3>2, Zenon
        <5> HIDE DEF Maps
        <5> QED BY <2>3, <5>2, <5>3, <5>4
      <4> QED BY <2>1, <2>3, <3>2, <4>1, Zenon DEF ArenaInv
    <3>3. CASE Span(tab[dirOf[p]]) = {} \/ Span(tab[dirOf[q]]) = {}
      BY <3>3, Zenon
    <3> HIDE DEF Maps
    <3> QED BY <3>1, <3>2, <3>3, Zenon
  <2>4. ASSUME pc = "prompt", ~grown
        PROVE  used = UNION {Span(tab[p]) : p \in {q \in AppPids : tab[q].inUse /\ tab[q].owns}}
    <3>1. ArenaInv /\ Pending = {} /\ used \subseteq Pages
      BY <1>1, <2>4, Zenon DEF IInv, Quiet, TypeOK, Pending
    <3>2. \A x : x \in used <=> \E p \in Owning : x \in Span(tab[p])
      BY <3>1, Zenon DEF ArenaInv
    <3> QED BY <3>2, Zenon DEF Owning
  <2> QED BY <2>2, <2>3, <2>4, Zenon DEF ArenaSound
<1> QED BY <1>1, AppTasksInvariant, PTL

(* No step leaves a thread alive without its leader, and a kill is not     *)
(* over before the last member of the group is dead.                       *)
THEOREM GroupsEndTogether == Spec => GroupEndsTogether
<1>1. ASSUME IInv, IInv', [Next]_vars, ~grown'
      PROVE  /\ \A p \in alive' : dirOf'[p] = p => GroupLeader(p)' \in alive'
             /\ group # NoPid /\ pc' = "prompt" => \A p \in alive' : p \notin Members(group)
  <2>1. LeaderInv'
    BY <1>1, Zenon DEF IInv, Quiet
  <2>2. \A p \in alive' : dirOf'[p] = p => GroupLeader(p)' \in alive'
    BY <2>1, Zenon DEF LeaderInv, Housed
  <2>3. ASSUME group # NoPid, pc' = "prompt"
        PROVE  \A p \in alive' : p \notin Members(group)
    <3>1. TypeOK /\ ShellInv /\ pc \in {"kill", "mark", "clear"} /\ job.size = 0
      BY <1>1, <2>3, GroupPoints, Zenon DEF IInv
    <3>2. Next
      BY <1>1, <2>3, <3>1, Zenon DEF vars
    <3>3. ~grown /\ QuietNext
      BY <1>1, <3>2, QuietNextCases, Zenon
    <3>4. Quiet
      BY <1>1, <3>3, Zenon DEF IInv
    <3>5. \A p \in AppPids : AppStep(p) => pc' = pc
      BY Zenon DEF AppStep, BackgroundThread, WorkerExit, Exit, Fault, shellVars
    <3>6. \A p \in AppPids : SpawnThread(p) => pc' = pc
      BY Zenon DEF SpawnThread
    <3>7. TerminateMark \/ TerminateClear
      BY <2>3, <3>1, <3>3, <3>5, <3>6, Zenon DEF QuietNext, Command, ShellStep, CommandLaunch, CommandKill, CommandStress,
         ReapScan, ReapReturn, ReapAgain, ReleaseRead, ReleaseZero, ReleasePages, FindFreePid, FindNoPid,
         AllocatePhysBase, AllocateNoRoom, PrepareCopy, PrepareFields, PrepareMap, LoadImage, SpawnTask,
         SpawnElsewhere, SpawnNowhere, StopElsewhere, WaitForTaskExit, StopFindTask, StopMember, StopLeader
    <3>8. ret = "prompt" /\ victim \notin alive /\ alive' = alive
      <4>1. CASE TerminateMark
        BY <2>3, <3>1, <4>1, Zenon DEF TerminateMark, Return
      <4>2. CASE TerminateClear
        BY <2>3, <3>1, <3>4, <4>2, Zenon DEF TerminateClear, Return, Quiet, ClearInv
      <4> QED BY <3>7, <4>1, <4>2, Zenon
    <3>9. victim = group /\ idx > LastPid
      BY <3>1, <3>7, <3>8 DEF TerminateMark, TerminateClear, ShellInv, Elsewhere, Chosen, Launching
    <3>10. \A p \in alive : p < idx
      BY <3>1, <3>9, PidFacts, AppTasksConstants DEF TypeOK
    <3> QED BY <2>3, <3>4, <3>8, <3>9, <3>10, Zenon DEF Quiet, KillInv
  <2> QED BY <2>2, <2>3, Zenon
<1>2. IInv /\ IInv' /\ [Next]_vars =>
        [~grown' => /\ \A p \in alive' : dirOf'[p] = p => GroupLeader(p)' \in alive'
                    /\ group # NoPid /\ pc' = "prompt" => \A p \in alive' : p \notin Members(group)]_vars
  BY <1>1, Zenon
<1> QED BY <1>2, AppTasksInvariant, PTL DEF Spec, GroupEndsTogether

(* A launch that nothing disturbs is refused only for what was alive when  *)
(* it was typed: the two or three reaps before the search return every     *)
(* entry and every page of the dead.                                       *)
THEOREM DeadAreReused == Spec => TerminatedReusable
<1>1. ASSUME IInv, calm, pc \in {"find", "alloc"}
      PROVE  /\ Quiet /\ TypeOK /\ before \subseteq AppPids
             /\ \A p \in AppPids : p # job.pid /\ tab[p].inUse => p \in before
  <2>1. LaunchPoint /\ ReapedUpTo = LastPid + 1
    BY <1>1, Zenon DEF LaunchPoint, ReapedUpTo, Reaping, Releasing
  <2>2. \A p \in AppPids : p < LastPid + 1
    BY PidFacts, AppTasksConstants
  <2> QED BY <1>1, <2>1, <2>2, Zenon DEF IInv, CalmInv, TypeOK
<1>2. ASSUME IInv, calm, FindNoPid
      PROVE  before = AppPids
  <2>1. pc = "find" /\ \A p \in AppPids : tab[p].inUse
    BY <1>2, Zenon DEF FindNoPid, FreeEntries
  <2>2. job.pid \notin AppPids
    BY <1>2, <2>1, PidFacts, Zenon DEF IInv, ShellInv, Searching
  <2> QED BY <1>1, <1>2, <2>1, <2>2, Zenon
<1>3. ASSUME IInv, calm, AllocateNoRoom
      PROVE  FreeRuns(job.size, UNION {Span(tab[p]) : p \in {q \in before : tab[q].inUse}}) = {}
  <2>1. pc = "alloc" /\ FreeRuns(job.size, used) = {}
    BY <1>3, Zenon DEF AllocateNoRoom
  <2>2. ~tab[job.pid].inUse /\ ArenaInv /\ Pending = {} /\ used \subseteq Pages
    BY <1>1, <1>3, <2>1, Zenon DEF Quiet, EntryInv, TypeOK, Pending
  <2>3. Owning \subseteq {q \in before : tab[q].inUse}
    BY <1>1, <1>3, <2>1, <2>2, Zenon DEF Owning
  <2>4. used \subseteq UNION {Span(tab[p]) : p \in {q \in before : tab[q].inUse}}
    BY <2>2, <2>3, Zenon DEF ArenaInv
  <2>5. ASSUME NEW T, used \subseteq T
        PROVE  FreeRuns(job.size, T) \subseteq FreeRuns(job.size, used)
    BY <2>5, Zenon DEF FreeRuns
  <2> QED BY <2>1, <2>4, <2>5, Zenon
<1>4. IInv => [calm => /\ FindNoPid => before = AppPids
                       /\ AllocateNoRoom =>
                            FreeRuns(job.size, UNION {Span(tab[p]) : p \in {q \in before : tab[q].inUse}}) = {}]_vars
  BY <1>2, <1>3, Zenon
<1> QED BY <1>4, AppTasksInvariant, PTL DEF TerminatedReusable
=============================================================================

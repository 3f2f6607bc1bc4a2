-------------------------- MODULE VideoLockProofs --------------------------
(***************************************************************************)
(* For every set of drawing tasks, every scheduling order and every        *)
(* nesting bound: the video lock excludes and its reentrancy is sound.     *)
(***************************************************************************)
EXTENDS VideoLock, TLAPS

(* Labels between the store of the owner and its removal.                  *)
Owning == {"depth", "in", "leaving", "disown"}

(* What the lock words and the control state of one task say of each       *)
(* other.                                                                  *)
TaskInv(t) ==
  /\ pc[t] \in {"in", "leaving"} => held[t] > 0
  /\ pc[t] \notin {"in", "leaving", "test"} => held[t] = 0
  /\ pc[t] = "test" => held[t] < MaxDepth
  /\ owner = t <=> pc[t] \in Owning \/ held[t] > 0
  /\ owner = t /\ pc[t] # "depth" => depth = held[t]
  /\ Holds(t) => flag = 1

(* The inductive invariant.  MutualExclusion alone is not inductive: a     *)
(* second task could pass the owner test, or find the flag clear, if the   *)
(* words disagreed with the holder's control state.                        *)
LockInv ==
  /\ TypeOK
  /\ \A t \in Tasks : TaskInv(t)
  /\ MutualExclusion
  /\ flag = 1 => \E t \in Tasks : Holds(t)

LEMMA LockInit == Init => LockInv
<1> SUFFICES ASSUME Init PROVE LockInv
  OBVIOUS
<1>1. /\ flag = 0 /\ depth = 0 /\ owner = None /\ cpu \in Tasks
      /\ pc \in [Tasks -> {"out"}]
      /\ held \in [Tasks -> {0}]
  BY DEF Init
<1>2. masked \in [Tasks -> BOOLEAN] /\ ran \in BOOLEAN
  BY Zenon DEF Init
<1> QED
  BY <1>1, <1>2, DepthAssumption, NoneAssumption
     DEF LockInv, TypeOK, TaskInv, MutualExclusion, Holds, Holding, Owning

LEMMA LockStep == LockInv /\ [Next]_vars => LockInv'
<1> SUFFICES ASSUME LockInv, [Next]_vars PROVE LockInv'
  OBVIOUS
<1> USE DepthAssumption, NoneAssumption
    DEF LockInv, TypeOK, TaskInv, MutualExclusion, Holds, Holding, Owning,
        lockVars, taskVars
<1>1. CASE Preempt
  <2>1. cpu' \in Tasks
    BY <1>1, SuccAssumption DEF Preempt
  <2>2. ran' \in BOOLEAN
    BY <1>1, Zenon DEF Preempt
  <2>3. UNCHANGED <<flag, owner, depth, pc, held, masked>>
    BY <1>1 DEF Preempt
  <2> QED
    BY <2>1, <2>2, <2>3
<1>2. ASSUME NEW t \in Tasks, Enter(t) PROVE LockInv'
  BY <1>2 DEF Enter, Goto
<1>3. ASSUME NEW t \in Tasks, CallAgain(t) PROVE LockInv'
  BY <1>3 DEF CallAgain, Goto
<1>4. ASSUME NEW t \in Tasks, TestOwner(t) PROVE LockInv'
  <2>1. CASE owner = t
    <3>1. /\ depth = held[t] /\ held[t] < MaxDepth /\ held[t] > 0
          /\ flag = 1
      BY <1>4, <2>1 DEF TestOwner, Goto
    <3>2. /\ pc' = [pc EXCEPT ![t] = "in"]
          /\ held' = [held EXCEPT ![t] = held[t] + 1]
          /\ depth' = depth + 1
          /\ UNCHANGED <<flag, owner, masked, cpu>>
          /\ ran' \in BOOLEAN
      BY <1>4, <2>1, Zenon DEF TestOwner, Goto
    <3>3. TypeOK'
      BY <3>1, <3>2
    <3>4. \A u \in Tasks : TaskInv(u)'
      BY <2>1, <3>1, <3>2
    <3>5. MutualExclusion' /\ \E u \in Tasks : Holds(u)'
      BY <3>1, <3>2
    <3> QED
      BY <3>3, <3>4, <3>5
  <2>2. CASE owner # t
    <3>1. /\ pc' = [pc EXCEPT ![t] = "spin"]
          /\ UNCHANGED <<flag, owner, depth, held, masked, cpu>>
          /\ ran' \in BOOLEAN
      BY <1>4, <2>2, Zenon DEF TestOwner, Goto
    <3>2. pc[t] = "test" /\ held[t] = 0
      BY <1>4, <2>2 DEF TestOwner, Goto
    <3> QED
      BY <2>2, <3>1, <3>2
  <2> QED
    BY <2>1, <2>2
<1>5. ASSUME NEW t \in Tasks, TestAndSet(t) PROVE LockInv'
  BY <1>5 DEF TestAndSet, Goto
<1>6. ASSUME NEW t \in Tasks, Spin(t) PROVE LockInv'
  BY <1>6 DEF Spin, Goto
<1>7. ASSUME NEW t \in Tasks, SetOwner(t) PROVE LockInv'
  BY <1>7 DEF SetOwner, Goto
<1>8. ASSUME NEW t \in Tasks, SetDepth(t) PROVE LockInv'
  BY <1>8 DEF SetDepth, Goto
<1>9. ASSUME NEW t \in Tasks, Unlock(t) PROVE LockInv'
  BY <1>9 DEF Unlock, OwnedDepth, Goto
<1>10. ASSUME NEW t \in Tasks, ClearOwner(t) PROVE LockInv'
  BY <1>10 DEF ClearOwner, Goto
<1>11. ASSUME NEW t \in Tasks, Release(t) PROVE LockInv'
  BY <1>11 DEF Release, Goto
<1>12. ASSUME NEW t \in Tasks, Rest(t) PROVE LockInv'
  <2>1. ran' \in BOOLEAN
    BY <1>12, Zenon DEF Rest
  <2>2. cpu' \in Tasks
    BY <1>12, SuccAssumption DEF Rest
  <2> QED
    BY <1>12, <2>1, <2>2 DEF Rest
<1>13. CASE UNCHANGED vars
  BY <1>13 DEF vars
<1> QED
  BY <1>1, <1>2, <1>3, <1>4, <1>5, <1>6, <1>7, <1>8, <1>9, <1>10, <1>11,
     <1>12, <1>13 DEF Next, Step

THEOREM LockInvariant == Spec => []LockInv
<1>1. Init => LockInv
  BY LockInit
<1>2. LockInv /\ [Next]_vars => LockInv'
  BY LockStep
<1> QED
  BY <1>1, <1>2, PTL DEF Spec

(* At most one task is between video_lock and video_unlock, for every      *)
(* number of tasks and wherever the timer preempts them.                   *)
THEOREM LockExcludes == Spec => []MutualExclusion
<1>1. LockInv => MutualExclusion
  BY DEF LockInv
<1> QED
  BY <1>1, LockInvariant, PTL

(* At most one task has the lock, the pid test of video_lock succeeds only *)
(* for that task, the depth counts its open calls, and the flag is set     *)
(* exactly while a task has the lock.                                      *)
THEOREM LockWords == Spec => []LockWordsSound
<1>1. LockInv => \A t \in Tasks :
                   /\ owner = t => Holds(t)
                   /\ owner = t /\ pc[t] # "depth" => depth = held[t]
  BY DEF LockInv, TaskInv, Holds, Holding, Owning
<1>2. LockInv => (flag = 1 <=> \E t \in Tasks : Holds(t))
  BY DEF LockInv, TaskInv, TypeOK
<1>3. LockInv => LockWordsSound
  BY <1>1, <1>2 DEF LockInv, LockWordsSound
<1> QED
  BY <1>3, LockInvariant, PTL
=============================================================================

---------------------------- MODULE MCVideoLock ----------------------------
(***************************************************************************)
(* Instances of VideoLock: the shell, two videostress workers and a        *)
(* foreground application, dispatched in that order.                       *)
(***************************************************************************)
EXTENDS VideoLock

CONSTANTS shell, worker1, worker2, app

MCSucc ==
  [t \in Tasks |->
     CASE t = shell -> worker1
       [] t = worker1 -> worker2
       [] t = worker2 -> app
       [] t = app -> shell]
=============================================================================

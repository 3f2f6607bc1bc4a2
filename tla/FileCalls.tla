------------------------------ MODULE FileCalls ------------------------------
(***************************************************************************)
(* The system calls by which an application works with folders             *)
(* (src/kernel/shell/shell_apps.c: CHDIR, LIST_ENTRY, MKDIR, DELETE_ENTRY, *)
(* RENAME_ENTRY, CLIP_SET, CLIP_PASTE), as operators on the disks and on   *)
(* what the kernel keeps for the task: its drive, its current directory as *)
(* a cluster, and its clipboard.                                           *)
(*                                                                          *)
(* A call runs inside a critical section and is one step; what it writes   *)
(* sector by sector is module Fat16.  A disk has a directory for every     *)
(* cluster, empty when the cluster is free; an entry of a directory is a   *)
(* folder at a cluster or a file with its contents, and has a position.  A *)
(* call acts on the first entry that fat16_match_name takes for the name   *)
(* it is given, which may bear another (Fat16); names of folders and of    *)
(* files are not taken for each other (MKDIR does not see a file of the    *)
(* same name, Fat16).                                                      *)
(* All drives have one geometry: the parameters of a volume are read when  *)
(* the shell changes to it, not when a task does (module Shell).           *)
(***************************************************************************)
EXTENDS Naturals, FiniteSets, Sequences

CONSTANTS Drives,      \* the valid drives
          Folders,     \* names of folders
          Files,       \* names of files
          Accepts,     \* name -> the names fat16_match_name takes for it
          ListMax,     \* UI_LISTVIEW_MAX_ITEMS
          MaxCluster,  \* directories of a drive, besides the root
          None

ASSUME NamesAssumption == Folders \cap Files = {} /\ None \notin (Drives \cup Folders \cup Files)
ASSUME ClustersAssumption == MaxCluster \in Nat /\ ListMax \in Nat

Root == 0
Clusters == 0 .. MaxCluster
Names == Folders \cup Files

ASSUME AcceptsAssumption ==
  /\ Accepts \in [Names -> SUBSET Names]
  /\ \A n \in Folders : n \in Accepts[n] /\ Accepts[n] \subseteq Folders
  /\ \A n \in Files : n \in Accepts[n] /\ Accepts[n] \subseteq Files
ASSUME FiniteAssumption == IsFiniteSet(Names)

NoEntry == [dir |-> FALSE, at |-> 0, pos |-> 0]
FolderAt(c, i) == [dir |-> TRUE, at |-> c, pos |-> i]
FileOf(x, i) == [dir |-> FALSE, at |-> x, pos |-> i]

EmptyDir == [n \in Names |-> NoEntry]

(* Clusters a folder of drive d lies in; the others are free. *)
InUse(disk, d) == {Root} \cup {c \in Clusters : \E b \in Clusters, n \in Folders : disk[d][b][n].dir /\ disk[d][b][n].at = c}

(* Positions are counted from 1. *)
Positions == 1 .. Cardinality(Names)
Present(dir) == {n \in Names : dir[n] # NoEntry}

(* A disk in order: folders under the names of folders, files under those of files, each at a position of its own, *)
(* and nothing in a free cluster.                                                                                *)
Sound(disk) ==
  /\ disk \in [Drives -> [Clusters -> [Names -> [dir : BOOLEAN, at : Nat, pos : Nat]]]]
  /\ \A d \in Drives, c \in Clusters :
       /\ \A n \in Folders \cap Present(disk[d][c]) : disk[d][c][n].dir /\ disk[d][c][n].at \in Clusters
       /\ \A n \in Files : ~disk[d][c][n].dir
       /\ \A n \in Present(disk[d][c]) : disk[d][c][n].pos \in Positions
       /\ \A n, m \in Present(disk[d][c]) : disk[d][c][n].pos = disk[d][c][m].pos => n = m
       /\ c \notin InUse(disk, d) => disk[d][c] = EmptyDir

(* fat16_find_entry: the name of the first entry of a directory that is taken for n, or None. *)
Found(dir, n) ==
  LET taken == Accepts[n] \cap Present(dir)
  IN  IF taken = {} THEN None ELSE CHOOSE m \in taken : \A k \in taken : dir[m].pos <= dir[k].pos

(* fat16_add_dir_entry_internal: the first position that is free. *)
FreePos(dir) ==
  LET free == Positions \ {dir[n].pos : n \in Present(dir)}
  IN  CHOOSE i \in free : \A j \in free : i <= j

Put(disk, d, c, n, e) == [disk EXCEPT ![d][c][n] = e]

(* Where a task is: shell_app_task_t. *)
InitTask(d) == [drive |-> d, cwd |-> Root, clip_name |-> None, clip_src |-> Root, clip_cut |-> FALSE]

Here(disk, t) == disk[t.drive][t.cwd]

(* The folder at a path from the root of drive d, as a set: empty when there is none. *)
Resolve(disk, d, dirs) ==
  LET upto[i \in 0 .. Len(dirs)] ==
        IF i = 0 THEN {Root}
        ELSE {disk[d][c][Found(disk[d][c], dirs[i])].at : c \in {x \in upto[i - 1] : Found(disk[d][x], dirs[i]) # None}}
  IN  upto[Len(dirs)]

-----------------------------------------------------------------------------
(* CHDIR: to a drive (which ends in its root), and to a folder of the current one. *)

chdir_drive(t, d) == [t EXCEPT !.drive = d, !.cwd = Root]

CanEnter(disk, t, n) == Found(Here(disk, t), n) # None

chdir(disk, t, n) == [t EXCEPT !.cwd = Here(disk, t)[Found(Here(disk, t), n)].at]

(* LIST_ENTRY, one after the other as long as there is room: the entries "." and ".." take two of the places. *)
Room(c) == IF c = Root THEN ListMax ELSE ListMax - 2
Listing(dir, c) ==
  {[name |-> n, dir |-> dir[n].dir] :
     n \in {m \in Present(dir) : Cardinality({k \in Present(dir) : dir[k].pos < dir[m].pos}) < Room(c)}}

list_entries(disk, t) == Listing(Here(disk, t), t.cwd)

-----------------------------------------------------------------------------
(* The calls that change a disk, as the set of disks they may leave: the old one when they fail. *)

mkdir(disk, t, n) ==
  IF n \in Files \/ Found(Here(disk, t), n) # None \/ InUse(disk, t.drive) = Clusters THEN {disk}
  ELSE {Put([disk EXCEPT ![t.drive][c] = EmptyDir], t.drive, t.cwd, n, FolderAt(c, FreePos(Here(disk, t)))) :
          c \in Clusters \ InUse(disk, t.drive)}

(* A folder is deleted only when it is empty. *)
delete_entry(disk, t, n) ==
  LET m == Found(Here(disk, t), n)
      e == Here(disk, t)[m]
  IN  IF m = None \/ (e.dir /\ disk[t.drive][e.at] # EmptyDir) THEN {disk}
      ELSE {Put(disk, t.drive, t.cwd, m, NoEntry)}

rename_entry(disk, t, n, new) ==
  LET m == Found(Here(disk, t), n)
  IN  IF m = None \/ Found(Here(disk, t), new) # None THEN {disk}
      ELSE {Put(Put(disk, t.drive, t.cwd, m, NoEntry), t.drive, t.cwd, new, Here(disk, t)[m])}

-----------------------------------------------------------------------------
(* The clipboard: a name and the cluster of its directory, looked up again when it is pasted, on the drive *)
(* the task is on by then.                                                                                *)

clip_set(disk, t, n, cut) ==
  LET m == Found(Here(disk, t), n)
  IN  IF m = None \/ Here(disk, t)[m].dir THEN t
      ELSE [t EXCEPT !.clip_name = n, !.clip_src = t.cwd, !.clip_cut = cut]

(* The name of the entry that is pasted. *)
ClipFound(disk, t) == Found(disk[t.drive][t.clip_src], t.clip_name)

(* fat16_copy_file_between_dirs refuses an existing destination. *)
Pastes(disk, t) ==
  /\ t.clip_name # None
  /\ ClipFound(disk, t) # None
  /\ Found(Here(disk, t), t.clip_name) = None

Copied(disk, t) ==
  Put(disk, t.drive, t.cwd, t.clip_name,
      FileOf(disk[t.drive][t.clip_src][ClipFound(disk, t)].at, FreePos(Here(disk, t))))

(* Mutant of clip_paste: a cut file is deleted although the copy was refused. *)
clip_paste_Mut(disk, t) ==
  LET copied == IF Pastes(disk, t) THEN Copied(disk, t) ELSE disk IN
    IF t.clip_name = None THEN {[disk |-> disk, task |-> t]}
    ELSE {[disk |-> IF t.clip_cut /\ ClipFound(disk, t) # None
                      THEN Put(copied, t.drive, t.clip_src, ClipFound(disk, t), NoEntry) ELSE copied, task |-> t]}

(* What CLIP_PASTE may leave: nothing done, when it may not or when the disk is full; the copy, and for a cut the *)
(* source deleted and the clipboard emptied, unless the deletion fails.                                         *)
clip_paste(disk, t) ==
  LET copied == Copied(disk, t)
      moved == Put(copied, t.drive, t.clip_src, ClipFound(disk, t), NoEntry)
      kept == {[disk |-> disk, task |-> t]}
  IN IF ~Pastes(disk, t) THEN kept
     ELSE kept \cup {[disk |-> copied, task |-> t]}
               \cup (IF t.clip_cut THEN {[disk |-> moved, task |-> [t EXCEPT !.clip_name = None, !.clip_cut = FALSE]]}
                     ELSE {})
=============================================================================

------------------------------- MODULE Shell -------------------------------
(***************************************************************************)
(* The command shell (src/kernel/shell/shell.c, shell_fs.c) and the        *)
(* applications it starts, on the drives found at boot (DriveLetters).     *)
(*                                                                          *)
(* All of them use one file system: one current drive (drive.c), one drive *)
(* its sectors come from and one set of volume parameters (fat16.c), and   *)
(* one sector buffer.  An application's call saves the current drive, sets *)
(* its own and restores, with interrupts off.  A command of the shell can  *)
(* be interrupted: it is a step for each access to what is shared.         *)
(*                                                                          *)
(* The files of a volume are those of FileCalls; programs can be run from  *)
(* every folder and their loading may fail.  The word being typed is empty *)
(* or a name, or longer than a name can be and begins with one; the line   *)
(* before it may leave no room for a long name.                            *)
(***************************************************************************)
EXTENDS FileCalls, DriveLetters

CONSTANTS Machines,       \* machines to boot
          ShellMachines,  \* bound: those on which commands are given
          Apps,           \* entries of the table of applications
          MaxPath,        \* names that fit current_path
          LongNames,      \* names of twelve characters
          BeginsWith,     \* pairs <<n, m>> of names: n begins with m
          InitDisks,      \* the disks at boot
          MaxOps          \* bound: commands and calls

ASSUME ShellAssumption == Drives = 0 .. MaxDrives - 1 /\ ShellMachines \subseteq Machines

VARIABLES hw,
          letters,  \* drives[]; A: is drive 0
          disk,     \* what is on each drive
          kern,     \* current_drive, current_drive_letter, bpb: the drive the parameters are of
          buf,      \* sector_buffer, while a command depends on it
          sh,       \* the shell: fat16_initialized, current directory and path, clipboard, word and completion
          cmd,      \* the command being executed
          apps,     \* its applications
          chosen,   \* history: the drive last asked for
          astray,   \* history: the path shown may be wrong, see below
          crossed,  \* history: a call came into the reading of the volume parameters and was not noticed
          overlapped,  \* history: a call came between the reading and the writing of the present command
          ops

history == <<chosen, astray, crossed, overlapped>>
vars == <<hw, letters, disk, kern, buf, sh, cmd, apps, history, ops>>

(* What the sector buffer holds: a boot sector, a directory, or file data or a sector of the FAT, which may also end in *)
(* 55AA and in which no name is found.                                                                                *)
Sector(kind, d, c, dir) == [kind |-> kind, drive |-> d, at |-> c, dir |-> dir]
NoBuf == Sector("none", 0, 0, EmptyDir)
BootSector(d) == Sector("boot", d, 0, EmptyDir)
Directory(d, c) == Sector("dir", d, c, disk[d][c])
DataSectors == {Sector("data", 0, 0, EmptyDir), Sector("data55AA", 0, 0, EmptyDir)}

NewContents == 9     \* of a file an application writes
Junk == MaxDrives  \* volume parameters read from another sector than a boot sector

NoCmd == [op |-> "none", n |-> None, m |-> None, stage |-> "prompt", tries |-> 0, pass |-> 1]
NoApp == [live |-> FALSE, background |-> FALSE, task |-> InitTask(0)]

(* The word being typed, whether it goes on beyond its twelfth character, and whether the line has no room for a long name. *)
NoWord == [word |-> None, over |-> FALSE, tight |-> FALSE]
NoCompletion == [active |-> FALSE, prefix |-> None, next |-> 0]

Valid(d) == d < Len(letters)

AtPrompt == letters # <<>> /\ cmd.stage = "prompt"
Enough == ops < MaxOps /\ hw \in ShellMachines

-----------------------------------------------------------------------------
(* Start of the kernel: the drives are found and the first is current; without one the kernel stops. *)

Init ==
  /\ hw \in Machines
  /\ letters = <<>>
  /\ disk \in InitDisks
  /\ kern = [cur |-> 0, fat |-> 0, bpb |-> 0]
  /\ buf = NoBuf
  /\ sh = [ready |-> FALSE, cwd |-> Root, path |-> <<>>, clip |-> InitTask(0), line |-> NoWord, complete |-> NoCompletion]
  /\ cmd = NoCmd
  /\ apps = [a \in Apps |-> NoApp]
  /\ chosen = 0 /\ astray = FALSE /\ crossed = FALSE /\ overlapped = FALSE /\ ops = 0

Boot ==
  /\ letters = <<>>
  /\ letters' = DriveTable(hw)
  /\ UNCHANGED <<hw, disk, kern, buf, sh, cmd, apps, history, ops>>

-----------------------------------------------------------------------------
(* Volume parameters: read when the shell has changed to the drive and first needs it; the shell tries three times, *)
(* the launcher once.                                                                                              *)

Attempts(op) == IF op \in {"run", "runbg"} THEN 1 ELSE 3

fat16_init_read ==
  /\ cmd.stage = "init"
  /\ kern' = [kern EXCEPT !.fat = kern.cur]
  /\ buf' = BootSector(kern.cur)
  /\ cmd' = [cmd EXCEPT !.stage = "check"]
  /\ crossed' = FALSE
  /\ UNCHANGED <<hw, letters, disk, sh, apps, chosen, astray, overlapped, ops>>

Retry == cmd' = IF cmd.tries + 1 < Attempts(cmd.op) THEN [cmd EXCEPT !.stage = "init", !.tries = @ + 1] ELSE NoCmd

(* Mutant of Signed: the sector is taken for a boot sector unseen. *)
Signed_Mut(b) == TRUE

Signed(b) == b.kind \in {"boot", "data55AA"}

(* The signature is looked at ... *)
fat16_init_check ==
  /\ cmd.stage = "check"
  /\ IF Signed(buf) THEN cmd' = [cmd EXCEPT !.stage = "load"] /\ UNCHANGED buf ELSE Retry /\ buf' = NoBuf
  /\ UNCHANGED <<hw, letters, disk, kern, sh, apps, history, ops>>

HasFat(d) == letters[d + 1].fat

(* ... and then the parameters are taken from the buffer, before they are looked at: those of a volume that is not FAT *)
(* are refused, those of another sector refused or not.                                                              *)
fat16_init_load ==
  /\ cmd.stage = "load"
  /\ buf' = NoBuf
  /\ kern' = [kern EXCEPT !.bpb = IF buf.kind = "boot" THEN buf.drive ELSE Junk]
  /\ \/ /\ buf.kind = "boot" => HasFat(buf.drive)
        /\ sh' = [sh EXCEPT !.ready = TRUE]
        /\ cmd' = [cmd EXCEPT !.stage = "read"]
     \/ /\ buf.kind = "boot" => ~HasFat(buf.drive)
        /\ Retry /\ UNCHANGED sh
  /\ UNCHANGED <<hw, letters, disk, apps, history, ops>>

-----------------------------------------------------------------------------
(* Commands.  The line is typed; TAB completes its last word and leaves it to be edited. *)

Type ==
  /\ AtPrompt /\ Enough
  /\ \E w \in Names \cup {None}, over, tight \in BOOLEAN :
       /\ over => w \in LongNames
       /\ sh' = [sh EXCEPT !.line = [word |-> w, over |-> over, tight |-> tight], !.complete = NoCompletion]
  /\ ops' = ops + 1
  /\ UNCHANGED <<hw, letters, disk, kern, buf, cmd, apps, history>>

(* The commands; DEL with a pattern that all files match. *)
Commands == {<<"cd", n, None>> : n \in Folders} \cup {<<"cd", None, None>>, <<"cd..", None, None>>, <<"dir", None, None>>}
              \cup {<<"mkdir", n, None>> : n \in Folders} \cup {<<"rmdir", n, None>> : n \in Folders}
              \cup {<<"del", n, None>> : n \in Files} \cup {<<"del*", None, None>>}
              \cup {<<"copy", n, m>> : n \in Files, m \in Files} \cup {<<"move", n, m>> : n \in Files, m \in Files}
              \cup {<<"tab", None, None>>, <<"run", None, None>>, <<"runbg", None, None>>}

shell_execute ==
  /\ AtPrompt /\ Enough
  /\ \E c \in Commands :
       /\ cmd' = [op |-> c[1], n |-> c[2], m |-> c[3], stage |-> IF sh.ready THEN "read" ELSE "init", tries |-> 0, pass |-> 1]
       /\ sh' = IF c[1] = "tab" THEN sh ELSE [sh EXCEPT !.line = NoWord, !.complete = NoCompletion]
  /\ overlapped' = FALSE
  /\ ops' = ops + 1
  /\ UNCHANGED <<hw, letters, disk, kern, buf, apps, chosen, astray, crossed>>

(* The current directory is read. *)
Read ==
  /\ cmd.stage = "read"
  /\ buf' = Directory(kern.fat, sh.cwd)
  /\ cmd' = [cmd EXCEPT !.stage = "act"]
  /\ UNCHANGED <<hw, letters, disk, kern, sh, apps, history, ops>>

(* The command goes on with what the buffer holds by then. *)
Acts(ops_) == cmd.stage = "act" /\ cmd.op \in ops_ /\ buf' = NoBuf

(* The entry taken for name n. *)
FoundHere(n) == Found(buf.dir, n)

path_push(p, n) == Append(p, n)
path_pop(p) == IF p = <<>> THEN <<>> ELSE Front(p)

(* fat16_get_parent_cluster follows the directory's own entry for its parent; that of a removed folder may be overwritten. *)
Parents(b) ==
  LET above == {c \in Clusters : \E n \in Folders : disk[b.drive][c][n].dir /\ disk[b.drive][c][n].at = b.at} IN
    CASE b.at = Root -> {Root}
      [] b.at # Root /\ above # {} -> above
      [] OTHER -> Clusters

Entered(n) ==
  IF FoundHere(n) # None /\ Len(sh.path) < MaxPath
  THEN [sh EXCEPT !.cwd = buf.dir[FoundHere(n)].at, !.path = path_push(@, n)] ELSE sh

cmd_cd ==
  /\ Acts({"cd", "cd.."})
  /\ \/ cmd.op = "cd" /\ cmd.n = None /\ sh' = [sh EXCEPT !.cwd = Root, !.path = <<>>]
     \/ cmd.op = "cd" /\ cmd.n # None /\ sh' = Entered(cmd.n)
     \/ cmd.op = "cd.." /\ \E p \in Parents(buf) : sh' = [sh EXCEPT !.cwd = p, !.path = path_pop(@)]
  /\ astray' = ((astray \/ overlapped) /\ ~(sh'.path = <<>> /\ sh'.cwd = Root))
  /\ cmd' = NoCmd
  /\ UNCHANGED <<hw, letters, disk, kern, apps, chosen, crossed, overlapped, ops>>

(* DIR, TYPE and ELFLS only read. *)
cmd_dir ==
  /\ Acts({"dir"})
  /\ cmd' = NoCmd
  /\ UNCHANGED <<hw, letters, disk, kern, sh, apps, history, ops>>

(* The current directory is written back from the buffer. *)
Written(dir) == [disk EXCEPT ![kern.fat][sh.cwd] = dir]
Without(names) == [n \in Names |-> IF n \in names THEN NoEntry ELSE buf.dir[n]]

(* A new folder's cluster is emptied first; in a removed folder it may be the folder's own. *)
Made(n, c) ==
  LET dir == IF c = sh.cwd THEN EmptyDir ELSE buf.dir
  IN  [disk EXCEPT ![kern.fat][c] = EmptyDir, ![kern.fat][sh.cwd] = [dir EXCEPT ![n] = FolderAt(c, FreePos(dir))]]

cmd_mkdir(n) ==
  LET free == Clusters \ InUse(disk, kern.fat) IN
    IF FoundHere(n) # None \/ free = {} THEN {disk} ELSE {Made(n, c) : c \in free}

cmd_rmdir(n) ==
  LET m == FoundHere(n) IN
    IF m # None /\ disk[kern.fat][buf.dir[m].at] = EmptyDir THEN {Written(Without({m}))} ELSE {disk}

cmd_del(n) == IF FoundHere(n) # None THEN {Written(Without({FoundHere(n)}))} ELSE {disk}

(* DEL with a pattern: nothing when the sector has an unused entry; and when the chain of a file was freed on the way,  *)
(* a sector of the FAT is written over the directory (module Fat16).                                                  *)
cmd_del_matching ==
  LET matched == Files \cap Present(buf.dir) IN
    IF matched = {} THEN {disk} ELSE {disk, Written(Without(matched)), Written(EmptyDir)}

(* A copy fails when the volume is full, too. *)
cmd_copy(n, m) ==
  IF FoundHere(n) # None /\ FoundHere(m) = None
  THEN {disk, Written([buf.dir EXCEPT ![m] = FileOf(buf.dir[FoundHere(n)].at, FreePos(buf.dir))])} ELSE {disk}

(* The entry is renamed in place. *)
Moved(k, m) == Written([Without({k}) EXCEPT ![m] = buf.dir[k]])

(* Mutant of cmd_move: the new name is not looked for. *)
cmd_move_Mut(n, m) == IF FoundHere(n) # None THEN {Moved(FoundHere(n), m)} ELSE {disk}

(* The new name may not be there, unless it is the entry's own. *)
cmd_move(n, m) ==
  IF FoundHere(n) # None /\ (FoundHere(n) = m \/ FoundHere(m) = None) THEN {Moved(FoundHere(n), m)} ELSE {disk}

Change ==
  /\ Acts({"mkdir", "rmdir", "del", "del*", "copy", "move"})
  /\ \/ cmd.op = "mkdir" /\ disk' \in cmd_mkdir(cmd.n)
     \/ cmd.op = "rmdir" /\ disk' \in cmd_rmdir(cmd.n)
     \/ cmd.op = "del" /\ disk' \in cmd_del(cmd.n)
     \/ cmd.op = "del*" /\ disk' \in cmd_del_matching
     \/ cmd.op = "copy" /\ disk' \in cmd_copy(cmd.n, cmd.m)
     \/ cmd.op = "move" /\ disk' \in cmd_move(cmd.n, cmd.m)
  /\ astray' = (astray \/ (overlapped /\ sh.path # <<>>))
  /\ cmd' = NoCmd
  /\ UNCHANGED <<hw, letters, kern, sh, apps, chosen, crossed, overlapped, ops>>

-----------------------------------------------------------------------------
(* TAB: the names that begin with the word, one further each time it is pressed on the same word. *)

prefix_matches(n, w) == w = None \/ n = w \/ <<n, w>> \in BeginsWith

(* In the order of the directory. *)
Matches(dir, w) ==
  SetToSortSeq({n \in Present(dir) : prefix_matches(n, w)}, LAMBDA n, m : dir[n].pos < dir[m].pos)

(* A match that does not fit the line is not taken. *)
Fits(line, n) == ~(line.tight /\ n \in LongNames)

(* Only the first twelve characters of the word count. *)
Same == sh.complete.active /\ sh.complete.prefix = sh.line.word
NextMatch == IF Same THEN sh.complete.next ELSE 0

Completed(n, next) ==
  [sh EXCEPT !.line = IF Fits(@, n) THEN [@ EXCEPT !.word = n, !.over = FALSE] ELSE @,
             !.complete = [active |-> TRUE, prefix |-> sh.line.word, next |-> IF Fits(sh.line, n) THEN next ELSE NextMatch]]

(* Mutant of SecondPass: no second pass when there are fewer matches than before. *)
SecondPass_Mut(found) == FALSE

(* With fewer matches than before the directory is gone through once more, for the first of them. *)
SecondPass(found) == found # <<>> /\ cmd.pass = 1 /\ NextMatch >= Len(found)

shell_autocomplete_apply ==
  /\ Acts({"tab"})
  /\ LET found == Matches(buf.dir, sh.line.word)
         next == IF cmd.pass = 1 THEN NextMatch ELSE 0
     IN IF SecondPass(found) THEN cmd' = [cmd EXCEPT !.stage = "read", !.pass = 2] /\ UNCHANGED sh
        ELSE /\ cmd' = NoCmd
             /\ sh' = IF next >= Len(found) THEN [sh EXCEPT !.complete = NoCompletion]
                      ELSE Completed(found[next + 1], IF cmd.pass = 1 /\ next + 1 < Len(found) THEN next + 1 ELSE 0)
  /\ UNCHANGED <<hw, letters, disk, kern, apps, history, ops>>

-----------------------------------------------------------------------------
(* "X:" *)

drive_set_current(d) == [kern EXCEPT !.cur = IF Valid(d) THEN d ELSE @]

SwitchDrive ==
  /\ AtPrompt /\ Enough
  /\ \E d \in Drives :
       /\ Valid(d)
       /\ kern' = drive_set_current(d)
       /\ chosen' = d
  /\ cmd' = [NoCmd EXCEPT !.op = "drive", !.stage = "switch"]
  /\ ops' = ops + 1
  /\ UNCHANGED <<hw, letters, disk, buf, sh, apps, astray, crossed, overlapped>>

Fresh == [sh EXCEPT !.cwd = Root, !.path = <<>>, !.ready = FALSE, !.line = NoWord, !.complete = NoCompletion]

Switched ==
  /\ cmd.stage = "switch"
  /\ kern' = [kern EXCEPT !.fat = chosen]
  /\ sh' = Fresh
  /\ astray' = FALSE
  /\ cmd' = NoCmd
  /\ UNCHANGED <<hw, letters, disk, buf, apps, chosen, crossed, overlapped, ops>>

-----------------------------------------------------------------------------
(* Applications: started with the shell's place and clipboard; what a foreground one leaves in the clipboard comes back. *)

shell_apps_copy_host_state ==
  [sh.clip EXCEPT !.drive = kern.cur, !.cwd = sh.cwd]

Launch ==
  /\ Acts({"run", "runbg"})
  /\ \/ \E a \in Apps :
          /\ ~apps[a].live
          /\ apps' = [apps EXCEPT ![a] = [live |-> TRUE, background |-> cmd.op = "runbg", task |-> shell_apps_copy_host_state]]
          /\ cmd' = IF cmd.op = "runbg" THEN NoCmd ELSE [cmd EXCEPT !.stage = "wait"]
     \/ cmd' = NoCmd /\ UNCHANGED apps
  /\ UNCHANGED <<hw, letters, disk, kern, sh, history, ops>>

shell_apps_sync_host_state(t) == [sh EXCEPT !.ready = TRUE, !.clip = [t EXCEPT !.drive = 0, !.cwd = Root]]

Exit(a) ==
  /\ apps[a].live
  /\ apps' = [apps EXCEPT ![a] = NoApp]
  /\ IF apps[a].background THEN UNCHANGED <<sh, cmd>>
     ELSE sh' = shell_apps_sync_host_state(apps[a].task) /\ cmd' = NoCmd
  /\ UNCHANGED <<hw, letters, disk, kern, buf, history, ops>>

Kill(a) ==
  /\ AtPrompt
  /\ apps[a].live /\ apps[a].background
  /\ apps' = [apps EXCEPT ![a] = NoApp]
  /\ UNCHANGED <<hw, letters, disk, kern, buf, sh, cmd, history, ops>>

shell_apps_enter_drive_context(k, t) == [k EXCEPT !.cur = t.drive, !.fat = t.drive]

(* Mutant of shell_apps_leave_drive_context: the sectors still come from the task's drive. *)
shell_apps_leave_drive_context_Mut(k, previous) == [k EXCEPT !.cur = previous]

shell_apps_leave_drive_context(k, previous) == [k EXCEPT !.cur = previous, !.fat = previous]

(* A file written: replaced in place, or new. *)
write_file(t, n) ==
  LET here == Here(disk, t)
      m == Found(here, n)
  IN  Put(disk, t.drive, t.cwd, IF m = None THEN n ELSE m, FileOf(NewContents, IF m = None THEN FreePos(here) ELSE here[m].pos))

(* What a call on the application's folder may leave of the disks and of its task; a file read leaves both alone. *)
Outcome(d, t) == [disk |-> d, task |-> t]
Calls(t) ==
  {Outcome(disk, t)} \cup {Outcome(write_file(t, n), t) : n \in Files}
    \cup {Outcome(disk, chdir(disk, t, n)) : n \in {m \in Folders : CanEnter(disk, t, m)}}
    \cup {Outcome(d, t) : d \in UNION {mkdir(disk, t, n) \cup delete_entry(disk, t, n) : n \in Names}}
    \cup {Outcome(d, t) : d \in UNION {rename_entry(disk, t, n, m) : n \in Folders, m \in Folders}}
    \cup {Outcome(disk, clip_set(disk, t, n, cut)) : n \in Files, cut \in BOOLEAN}
    \cup clip_paste(disk, t)

(* A folder by which the shell got where it is. *)
OnPath(d, n) == n \in Folders /\ d = kern.cur /\ \E i \in DOMAIN sh.path : sh.path[i] = n

(* What a call leaves in the sector buffer, which matters while the shell has something there. *)
LeftBehind(t) == IF buf = NoBuf THEN {NoBuf} ELSE {Directory(t.drive, t.cwd)} \cup DataSectors

Call(a) ==
  /\ apps[a].live /\ Enough
  /\ \E o \in Calls(apps[a].task) :
       LET t == apps[a].task IN
         /\ disk' = o.disk
         /\ apps' = [apps EXCEPT ![a].task = o.task]
         /\ kern' = shell_apps_leave_drive_context(shell_apps_enter_drive_context(kern, t), kern.cur)
         /\ buf' \in LeftBehind(t)
         /\ astray' = (astray \/ \E n \in Folders : OnPath(t.drive, n) /\ disk[t.drive][t.cwd][n] # NoEntry
                                                    /\ o.disk[t.drive][t.cwd][n] # disk[t.drive][t.cwd][n])
         /\ crossed' = (crossed \/ cmd.stage = "load" \/ (cmd.stage = "check" /\ buf'.kind = "data55AA"))
         /\ overlapped' = (overlapped \/ cmd.stage = "act")
  /\ ops' = ops + 1
  /\ UNCHANGED <<hw, letters, sh, cmd, chosen>>

(* CHDIR to another drive touches the task only. *)
CallDrive(a) ==
  /\ apps[a].live /\ Enough
  /\ \E d \in Drives : Valid(d) /\ apps' = [apps EXCEPT ![a].task = chdir_drive(@, d)]
  /\ ops' = ops + 1
  /\ UNCHANGED <<hw, letters, disk, kern, buf, sh, cmd, history>>

(* The keyboard is left alone. *)
Quiet == (AtPrompt \/ letters = <<>> \/ ~Enough) /\ UNCHANGED vars

Next ==
  \/ Boot \/ fat16_init_read \/ fat16_init_check \/ fat16_init_load
  \/ Type \/ shell_execute \/ Read \/ cmd_cd \/ cmd_dir \/ Change \/ shell_autocomplete_apply
  \/ SwitchDrive \/ Switched \/ Launch
  \/ \E a \in Apps : Exit(a) \/ Kill(a) \/ Call(a) \/ CallDrive(a)
  \/ Quiet

Spec == Init /\ [][Next]_vars

-----------------------------------------------------------------------------
(* Properties. *)

(* Every volume gets one letter, and A: is on the disk booted from or on one *)
(* that begins with the same sector, unless letters run out: disk_init       *)
(* looks for the boot disk among the ATA disks by its first sector, and the  *)
(* disks behind a BIOS boot volume are renumbered.  Not so for disks taken   *)
(* for what they are not (Misread), for a boot disk that is ATA but not the  *)
(* first, for the fourth ATA disk behind a BIOS volume, and for a BIOS disk  *)
(* that begins like the first ATA disk.                                      *)
EveryVolumeOnce ==
  letters # <<>> /\ hw.boot \in {0, Bios} =>
    /\ \A i, j \in DOMAIN letters : letters[i] = letters[j] => i = j
    /\ ~Misread(hw, hw.boot) /\ VolumesOf(hw, hw.boot) # {} => hw.media[letters[1].dev] = hw.media[hw.boot]
    /\ \A dev \in Devices \ {IF is_boot_volume(hw) THEN 3 ELSE Bios} : ~Misread(hw, dev) =>
         /\ \A i \in DOMAIN letters : letters[i].dev = dev => letters[i] \in VolumesOf(hw, dev)
         /\ Len(letters) < MaxDrives => \A v \in VolumesOf(hw, dev) : \E i \in DOMAIN letters : letters[i] = v

(* Calls of applications leave the shell on the drive the user chose, its   *)
(* sectors come from there, and when it takes the volume parameters for    *)
(* loaded they are that drive's, unless a call came between the check of   *)
(* the boot sector and the loads, or before the check with a sector that   *)
(* ends in 55AA as well (crossed).  And the prompt is true: the directory  *)
(* the shell works in is the one at the path it shows, unless since it was *)
(* last at the root an application removed or renamed a folder of that     *)
(* path, or its call came between the reading and the writing of a command *)
(* (astray).                                                               *)
ShellKeepsItsPlace ==
  /\ AtPrompt /\ ~astray => Resolve(disk, kern.cur, sh.path) = {sh.cwd}
  /\ kern.cur = chosen
  /\ sh.ready /\ cmd.stage # "switch" => kern.fat = chosen /\ (kern.bpb = chosen \/ crossed)

(* A command changes the drive the user chose and no other, even when calls *)
(* on other drives came between its reading and its writing.  When none     *)
(* came, it changes of the folders there are the current one only, and in   *)
(* it only entries fat16_match_name takes for a name it was given, at most  *)
(* one of them for a name; contents go away only with DEL and RMDIR.  A     *)
(* deletion by pattern removes files only, or writes a sector of the FAT    *)
(* over the directory (Fat16).                                              *)
OnlyWhatIsNamed ==
  [][disk' # disk /\ cmd.stage = "act" /\ cmd' = NoCmd =>
       LET old == disk[chosen][sh.cwd]
           new == disk'[chosen][sh.cwd]
           changed == {n \in Names : new[n] # old[n]}
           named == (IF cmd.n = None THEN {} ELSE Accepts[cmd.n]) \cup {cmd.m}
       IN /\ \A d \in Drives \ {chosen} : disk'[d] = disk[d]
          /\ ~overlapped /\ ~astray =>
               /\ \A c \in InUse(disk, chosen) \ {sh.cwd} : disk'[chosen][c] = disk[chosen][c]
               /\ IF cmd.op = "del*" THEN new = EmptyDir \/ changed \subseteq Files
                  ELSE changed \subseteq named /\ Cardinality(Present(old) \ Present(new)) <= 1
               /\ cmd.op \notin {"del", "del*", "rmdir"} =>
                    \A n \in Present(old) : \E m \in Present(new) : new[m].at = old[n].at]_vars

(* TAB turns the word into the name of an entry that begins with its first  *)
(* twelve characters, whenever there is one and it fits the line - also     *)
(* when applications created or deleted entries since the last TAB, or      *)
(* between its two passes through the directory.  One that does not fit     *)
(* leaves the word as it was.                                               *)
TabCompletes ==
  [][cmd.op = "tab" /\ cmd.stage = "act" /\ cmd' = NoCmd /\ ~overlapped =>
       LET found == Range(Matches(disk[chosen][sh.cwd], sh.line.word))
       IN IF \E n \in found : Fits(sh.line, n)
          THEN (sh'.line.word \in found /\ Fits(sh.line, sh'.line.word) /\ ~sh'.line.over)
               \/ (sh'.line = sh.line /\ \E n \in found : ~Fits(sh.line, n))
          ELSE sh'.line = sh.line]_vars
=============================================================================

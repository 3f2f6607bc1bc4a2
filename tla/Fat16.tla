------------------------------- MODULE Fat16 -------------------------------
(***************************************************************************)
(* The FAT file system of src/kernel/storage: every operation that changes  *)
(* a volume, one sector write at a time, on a disk whose writes may fail    *)
(* and a machine that may stop between two of them.                         *)
(*                                                                          *)
(* The FAT is one function: fat16_write_fat_entry updates the copies in     *)
(* turn and only the first is ever read, so a failed update has either      *)
(* happened or not.  A directory is a sequence of slots, in the root area   *)
(* (directory 0) or in the clusters of a chain; the entries "." and ".."    *)
(* are left out.  A cluster is one sector long and holds a piece of a file, *)
(* <<version, position>>, or slots.  Sizes count clusters.  Reads succeed.  *)
(*                                                                          *)
(* 12 and 16 bit FATs differ in how entries are packed, not in this.        *)
(***************************************************************************)
EXTENDS Naturals, FiniteSets, Sequences, SequencesExt, FiniteSetsExt

CONSTANTS Clusters,   \* the data clusters, 2 .. get_total_clusters() + 1
          RootSlots,  \* entries of the root directory
          DirSlots,   \* entries of a directory cluster
          Names,      \* 8.3 names
          Accepts,    \* name -> the names fat16_match_name takes for it
          MaxLen,     \* bound: clusters of a written file
          MaxOps,     \* bound: operations
          MaxFaults,  \* bound: failed writes and restarts
          None

EOC == 1              \* fat_end_of_chain_value
Root == 0

ASSUME ClustersAssumption == Clusters \subseteq Nat /\ IsFiniteSet(Clusters) /\ \A c \in Clusters : c > EOC
ASSUME SlotsAssumption == RootSlots \in Nat \ {0} /\ DirSlots \in Nat \ {0}

(* fat16_match_name compares the extension only as far as the one asked for     *)
(* goes, and not at all when a stem of eight characters is asked for without a  *)
(* dot: A.C also stands for A.COM, README12 for README12.TXT.                   *)
ASSUME AcceptsAssumption == Accepts \in [Names -> SUBSET Names] /\ \A n \in Names : n \in Accepts[n]

VARIABLES fat,     \* cluster -> 0, the next cluster or EOC
          slot,    \* place -> directory entry
          data,    \* cluster -> <<version, position>> of file data, None otherwise
          pc,      \* the write the current operation comes to next
          v,       \* its local variables
          ops, faults, \* bounds
          torn,    \* history: a fault hit a step after which the volume is not sound
          lost,    \* history: mkdir gave up after it had allocated a cluster
          twin,    \* history: mkdir took the name of a file
          done     \* history: the operation that has just returned 1, or None

vars == <<fat, slot, data, pc, v, ops, faults, torn, lost, twin, done>>

(* An entry's first byte is 0x00 (Never, ends the directory) or 0xE5 (Deleted), *)
(* or it is in use.  Garbage: file data or FAT bytes read as a directory.       *)
Entry(name, first, len, dir) == [name |-> name, first |-> first, len |-> len, dir |-> dir]
Never == Entry("0x00", 0, 0, FALSE)
Deleted == Entry("0xE5", 0, 0, FALSE)
Garbage == Entry("garbage", 0, 0, FALSE)
InUse(e) == e \notin {Never, Deleted, Garbage}

Places == ({Root} \X (1 .. RootSlots)) \cup (Clusters \X (1 .. DirSlots))

Idle == [kind |-> "none", dir |-> Root, name |-> None, first |-> 0, prev |-> 0, cur |-> 0,
         len |-> 0, pos |-> 1, ver |-> 0, place |-> None, from |-> None, src |-> 0,
         heads |-> <<>>, then |-> "fail", marked |-> {}]

Init ==
  /\ fat = [c \in Clusters |-> 0]
  /\ slot = [p \in Places |-> Never]
  /\ data = [c \in Clusters |-> None]
  /\ pc = "idle" /\ v = Idle /\ ops = 0 /\ faults = 0
  /\ torn = FALSE /\ lost = FALSE /\ twin = FALSE /\ done = None

-----------------------------------------------------------------------------
(* Reading the volume. *)

(* Following fat16_get_next_cluster from c; the code bounds its steps too. *)
Chain(c) ==
  LET walk[k \in 0 .. Cardinality(Clusters)] ==
        IF k = 0 THEN IF c \in Clusters THEN <<c>> ELSE <<>>
        ELSE LET s == walk[k - 1]
             IN  IF s # <<>> /\ fat[Last(s)] \in Clusters THEN Append(s, fat[Last(s)]) ELSE s
  IN  walk[Cardinality(Clusters)]

SlotsOf(d, n) == [i \in 1 .. n |-> <<d, i>>]

DirPlaces(d) ==
  IF d = Root THEN SlotsOf(Root, RootSlots)
  ELSE LET ch == Chain(d)
       IN  [i \in 1 .. DirSlots * Len(ch) |-> <<ch[1 + ((i - 1) \div DirSlots)], 1 + ((i - 1) % DirSlots)>>]

(* The entries fat16_find_entry_internal looks at: those before the first 0x00. *)
Seen(d) ==
  LET ps == DirPlaces(d)
      end == {i \in 1 .. Len(ps) : slot[ps[i]] = Never}
  IN  IF end = {} THEN ps ELSE SubSeq(ps, 1, Min(end) - 1)

(* Those fat16_match_name takes for the name, and those that bear it. *)
Matches(d, name) == SelectSeq(Seen(d), LAMBDA p : InUse(slot[p]) /\ slot[p].name \in Accepts[name])
Named(d, name) == {p \in Range(Seen(d)) : InUse(slot[p]) /\ slot[p].name = name}

(* fat16_find_entry_internal: the place of the first match, or None. *)
Find(d, name) == LET ps == Matches(d, name) IN IF ps = <<>> THEN None ELSE Head(ps)

(* The test fat16_create_entry, a copy and a rename make for the new name. *)
Available(d, name) == Find(d, name) = None

IsFile(p) == p # None /\ ~slot[p].dir
IsDir(p) == p # None /\ slot[p].dir

(* fat16_is_directory_empty. *)
IsEmpty(d) == \A p \in Range(Seen(d)) : slot[p] = Deleted

(* Mutant of Reusable: a slot behind the end of the directory is taken. *)
Reusable_Mut(d) == Reverse(SelectSeq(DirPlaces(d), LAMBDA p : slot[p] \in {Never, Deleted}))

(* The first reusable slot of fat16_add_dir_entry_internal. *)
Reusable(d) == SelectSeq(DirPlaces(d), LAMBDA p : slot[p] \in {Never, Deleted})

ChainOf(p) == Chain(slot[p].first)
Content(p) ==
  LET ch == ChainOf(p) IN [k \in 1 .. Min({slot[p].len, Len(ch)}) |-> data[ch[k]]]

(* fat16_read_file_from_dir: directories are skipped, and the chain is followed  *)
(* as far as the size says.                                                      *)
ReadFile(d, name) ==
  LET files == SelectSeq(Matches(d, name), IsFile)
  IN  IF files = <<>> THEN None ELSE Content(Head(files))

FreeClusters == {c \in Clusters : fat[c] = 0}

(* The directories a path from the root leads to; operations work in these. *)
LiveDirs ==
  LET reach[k \in 0 .. Cardinality(Clusters)] ==
        IF k = 0 THEN {Root}
        ELSE LET ds == reach[k - 1]
             IN  ds \cup {slot[p].first : p \in {q \in UNION {Range(Seen(d)) : d \in ds} :
                                                   InUse(slot[q]) /\ slot[q].dir}}
  IN  reach[Cardinality(Clusters)]

-----------------------------------------------------------------------------
(* Control. *)

Goto(l) == pc' = l
Quit == pc' = "idle" /\ v' = Idle /\ done' = None
Return(place) ==
  /\ pc' = "idle" /\ v' = Idle
  /\ done' = [kind |-> v.kind, dir |-> v.dir, name |-> v.name, ver |-> v.ver, len |-> v.len,
              place |-> place, from |-> v.from,
              found |-> IF v.place = None THEN None ELSE slot[v.place].name]

(* The chains of the new file are given back, then the call returns 0.         *)
(* fat16_mkdir returns without giving its cluster back.                        *)
Fail(heads) ==
  LET hs == SelectSeq(heads, LAMBDA h : h # 0)
  IN  IF hs = <<>> \/ v.kind = "mkdir" THEN Quit
      ELSE Goto("free") /\ v' = [v EXCEPT !.heads = hs, !.then = "fail"] /\ UNCHANGED done

Fault == faults < MaxFaults /\ faults' = faults + 1
NoFault == UNCHANGED faults

(* A write that reports success, and one that reports failure: the disk may    *)
(* have taken it all the same (disk_write_lba fails when the cache flush does, *)
(* fat16_write_fat_entry when the second copy does).                           *)
SetFat(c, x) == fat' = [fat EXCEPT ![c] = x] /\ NoFault
SetFatFails(c, x) == fat' \in {fat, [fat EXCEPT ![c] = x]} /\ Fault
SetSlot(p, e) == slot' = [slot EXCEPT ![p] = e] /\ NoFault
SetSlotFails(p, e) == slot' \in {slot, [slot EXCEPT ![p] = e]} /\ Fault

Begin(kind, locals) ==
  /\ ops' = ops + 1 /\ done' = None
  /\ v' = [locals EXCEPT !.kind = kind]
  /\ UNCHANGED <<fat, slot, data, faults, torn, lost>>

(* fat16_write_file_from_dir: a file of n clusters under a name. *)
StartWrite(d, name, n) ==
  LET p == Find(d, name)
  IN  /\ ~IsDir(p)
      /\ Begin("write", [Idle EXCEPT !.dir = d, !.name = name, !.len = n, !.place = p, !.ver = ops + 1])
      /\ Goto(IF n > 0 THEN "alloc" ELSE "entry")
      /\ UNCHANGED twin

(* fat16_copy_file_between_dirs, also as the first half of a move to another   *)
(* directory (MOVE_TO_DIR, CLIP_PASTE of a cut file).                          *)
StartCopy(sd, name, d, new, kind) ==
  LET p == Find(sd, name)
  IN  /\ IsFile(p) /\ ~(sd = d /\ name = new)
      /\ Available(d, new)
      /\ Begin(kind, [Idle EXCEPT !.dir = d, !.name = new, !.len = slot[p].len, !.place = p,
                                  !.from = sd, !.src = slot[p].first,
                                  !.ver = IF slot[p].len = 0 THEN 0 ELSE data[slot[p].first][1]])
      /\ Goto(IF slot[p].len > 0 THEN "alloc" ELSE "entry")
      /\ UNCHANGED twin

(* fat16_delete_entry and fat16_rmdir free the chain first and mark the entry  *)
(* last.                                                                       *)
StartRemove(kind, d, name, p) ==
  /\ Begin(kind, [Idle EXCEPT !.dir = d, !.name = name, !.place = p,
                              !.heads = <<slot[p].first>>, !.then = "mark"])
  /\ Goto(IF slot[p].first = 0 THEN "mark" ELSE "free")
  /\ UNCHANGED twin

StartDelete(d, name) == IsFile(Find(d, name)) /\ StartRemove("delete", d, name, Find(d, name))

StartRmdir(d, name) ==
  LET p == Find(d, name)
  IN  IsDir(p) /\ IsEmpty(slot[p].first) /\ StartRemove("rmdir", d, name, p)

(* fat16_mkdir: only a directory of that name is in the way. *)
StartMkdir(d, name) ==
  /\ ~IsDir(Find(d, name))
  /\ Begin("mkdir", [Idle EXCEPT !.dir = d, !.name = name])
  /\ Goto("alloc")
  /\ twin' = (twin \/ Find(d, name) # None)

(* fat16_delete_matching with a pattern these names match. *)
StartWildcard(d, names) ==
  /\ Begin("wildcard", [Idle EXCEPT !.dir = d, !.name = names])
  /\ Goto("scan")
  /\ UNCHANGED twin

-----------------------------------------------------------------------------
(* Writing a chain: fat16_alloc_cluster_internal, the link from the cluster   *)
(* before, the end mark again, the data.                                      *)

Alloc ==
  /\ pc = "alloc"
  /\ UNCHANGED <<slot, data, ops, torn, lost, twin>>
  /\ \/ /\ FreeClusters = {}
        /\ Fail(<<v.first>>) /\ UNCHANGED <<fat, faults>>
     \/ /\ FreeClusters # {}
        /\ LET c == Min(FreeClusters)
           IN  \/ /\ SetFat(c, EOC)
                  /\ v' = [v EXCEPT !.cur = c, !.first = IF @ = 0 THEN c ELSE @]
                  /\ Goto(IF v.prev # 0 THEN "link" ELSE IF v.kind = "mkdir" THEN "zero" ELSE "data")
                  /\ UNCHANGED done
               \/ SetFatFails(c, EOC) /\ Fail(<<v.first>>)

(* A copy gives back the cluster that is not linked yet as well. *)
Unlinked == IF v.kind = "write" THEN <<v.first>> ELSE <<v.cur, v.first>>

Link ==
  /\ pc = "link"
  /\ \/ SetFat(v.prev, v.cur) /\ Goto("eoc") /\ UNCHANGED <<v, done>>
     \/ SetFatFails(v.prev, v.cur) /\ Fail(Unlinked)
  /\ UNCHANGED <<slot, data, ops, torn, lost, twin>>

EndMark ==
  /\ pc = "eoc"
  /\ \/ SetFat(v.cur, EOC) /\ Goto("data") /\ UNCHANGED <<v, done>>
     \/ SetFatFails(v.cur, EOC) /\ Fail(Unlinked)
  /\ UNCHANGED <<slot, data, ops, torn, lost, twin>>

(* The piece of the file that goes into the cluster. *)
Piece == IF v.kind = "write" THEN <<v.ver, v.pos>> ELSE data[v.src]

Overwrite(c, x, s) ==
  /\ data' = [data EXCEPT ![c] = x]
  /\ slot' = [p \in Places |-> IF p[1] = c THEN s ELSE slot[p]]

(* A copy stops when the source's chain is shorter than its size. *)
MorePieces == v.pos < v.len
(* Mutant of NextSource: src_cluster is not advanced. *)
NextSource_Mut == v.src

NextSource == IF v.src = 0 THEN 0 ELSE fat[v.src]
SourceEnds == MorePieces /\ v.kind # "write" /\ NextSource \notin Clusters

(* Nothing refers to the cluster yet, so it makes no difference whether a write *)
(* that is reported failed has reached it.                                      *)
WriteData ==
  /\ pc = "data"
  /\ Overwrite(v.cur, Piece, Garbage)
  /\ \/ /\ NoFault
        /\ IF SourceEnds THEN Fail(<<v.first>>)
           ELSE /\ v' = [v EXCEPT !.prev = v.cur, !.pos = @ + 1,
                                   !.src = NextSource]
                /\ Goto(IF MorePieces THEN "alloc" ELSE "entry")
                /\ UNCHANGED done
     \/ Fault /\ Fail(<<v.first>>)
  /\ UNCHANGED <<fat, ops, torn, lost, twin>>

(* fat16_zero_cluster and fat16_init_dir_entries of a new directory. *)
ZeroDir ==
  /\ pc = "zero"
  /\ Overwrite(v.cur, None, Never)
  /\ \/ NoFault /\ Goto("entry") /\ UNCHANGED <<v, done>>
     \/ Fault /\ Quit
  /\ UNCHANGED <<fat, ops, torn, lost, twin>>

-----------------------------------------------------------------------------
(* The directory entry. *)

NewEntry == Entry(v.name, v.first, v.len, v.kind = "mkdir")
(* Mutant of Replaces: a copy updates the entry it was given, its source. *)
Replaces_Mut == v.place # None

Replaces == v.kind = "write" /\ v.place # None
(* Mutant of OldFirst: the replaced chain is not freed. *)
OldFirst_Mut == 0

OldFirst == IF v.place = None THEN 0 ELSE slot[v.place].first

(* What follows once the entry is on the disk: a write frees the old chain, a  *)
(* move deletes the source, anything else returns 1.                           *)
Succeed(place) ==
  \/ /\ v.kind \in {"write", "move"} /\ OldFirst # 0
     /\ Goto("free")
     /\ v' = [v EXCEPT !.heads = <<OldFirst>>,
                       !.then = IF v.kind = "move" THEN "mark" ELSE "return"]
     /\ UNCHANGED done
  \/ /\ v.kind = "move" /\ OldFirst = 0
     /\ Goto("mark") /\ v' = [v EXCEPT !.then = "mark"]
     /\ UNCHANGED done
  \/ /\ v.kind = "write" => OldFirst = 0
     /\ v.kind # "move"
     /\ Return(place)

(* One sector write.  When it is reported failed the new chain is freed, which *)
(* is wrong if the disk has taken the entry.                                   *)
Store(place) ==
  \/ /\ SetSlot(place, NewEntry)
     /\ Succeed(place)
     /\ UNCHANGED torn
  \/ /\ SetSlotFails(place, NewEntry)
     /\ Fail(<<v.first>>)
     /\ torn' = (torn \/ (slot' # slot /\ pc' = "free"))

(* fat16_update_entry for a file that exists, unless it bears another name and *)
(* so stands in its own way; fat16_add_dir_entry_internal for a new one: the   *)
(* first reusable slot, another cluster if a directory is full.                *)
StoreEntry ==
  /\ pc = "entry"
  /\ \/ Replaces /\ slot[v.place].name = v.name /\ Store(v.place) /\ UNCHANGED lost
     \/ /\ Replaces /\ slot[v.place].name # v.name
        /\ Fail(<<v.first>>)
        /\ UNCHANGED <<slot, faults, torn, lost>>
     \/ ~Replaces /\ Reusable(v.dir) # <<>> /\ Store(Head(Reusable(v.dir))) /\ UNCHANGED lost
     \/ /\ ~Replaces /\ Reusable(v.dir) = <<>> /\ v.dir = Root
        /\ Fail(<<v.first>>)
        /\ lost' = (lost \/ v.kind = "mkdir")
        /\ UNCHANGED <<slot, faults, torn>>
     \/ /\ ~Replaces /\ Reusable(v.dir) = <<>> /\ v.dir # Root
        /\ Goto("grow")
        /\ UNCHANGED <<slot, v, done, faults, torn, lost>>
  /\ UNCHANGED <<fat, data, ops, twin>>

(* A full directory grows by a cluster, which is linked before it is zeroed. *)
Grow ==
  /\ pc = "grow"
  /\ UNCHANGED <<slot, data, ops, torn, twin>>
  /\ \/ /\ FreeClusters = {}
        /\ Fail(<<v.first>>) /\ UNCHANGED <<fat, faults>>
        /\ lost' = (lost \/ v.kind = "mkdir")
     \/ /\ FreeClusters # {} /\ UNCHANGED lost
        /\ LET c == Min(FreeClusters)
           IN  \/ SetFat(c, EOC) /\ v' = [v EXCEPT !.cur = c] /\ Goto("glink") /\ UNCHANGED done
               \/ SetFatFails(c, EOC) /\ Fail(<<v.first>>)

GrowLink ==
  /\ pc = "glink"
  /\ LET end == Last(Chain(v.dir))
     IN  \/ SetFat(end, v.cur) /\ Goto("geoc") /\ UNCHANGED <<v, done, torn>>
         \/ SetFatFails(end, v.cur) /\ Fail(<<v.first>>) /\ torn' = (torn \/ fat' # fat)
  /\ UNCHANGED <<slot, data, ops, lost, twin>>

GrowEnd ==
  /\ pc = "geoc"
  /\ \/ SetFat(v.cur, EOC) /\ Goto("gzero") /\ UNCHANGED <<v, done, torn>>
     \/ SetFatFails(v.cur, EOC) /\ Fail(<<v.first>>) /\ torn' = TRUE
  /\ UNCHANGED <<slot, data, ops, lost, twin>>

GrowZero ==
  /\ pc = "gzero"
  /\ \/ NoFault /\ Overwrite(v.cur, None, Never) /\ Goto("entry") /\ UNCHANGED <<v, done, torn>>
     \/ /\ Fault /\ Fail(<<v.first>>)
        /\ \/ Overwrite(v.cur, None, Never) /\ UNCHANGED torn
           \/ torn' = TRUE /\ UNCHANGED <<slot, data>>
  /\ UNCHANGED <<fat, ops, lost, twin>>

-----------------------------------------------------------------------------
(* fat16_free_cluster_chain_internal, one FAT entry at a time. *)

Removing == v.then \in {"mark", "scan"}

FreeStep ==
  /\ pc = "free"
  /\ UNCHANGED <<slot, data, ops, lost, twin>>
  /\ LET c == Head(v.heads)
         next == fat[c]
         rest == IF next \in Clusters /\ next # c THEN <<next>> \o Tail(v.heads) ELSE Tail(v.heads)
     IN  \/ /\ SetFat(c, 0)
            /\ torn' = (torn \/ v.then = "scan")
            /\ IF rest # <<>> THEN v' = [v EXCEPT !.heads = rest] /\ UNCHANGED <<pc, done>>
               ELSE IF v.then = "return" THEN Return(v.place)
               ELSE IF v.then = "fail" THEN Quit
               ELSE v' = [v EXCEPT !.heads = <<>>] /\ Goto(v.then) /\ UNCHANGED done
         \/ /\ SetFatFails(c, 0)
            /\ torn' = (torn \/ (Removing /\ (fat' # fat \/ c # slot[v.place].first)))
            /\ IF v.then = "fail" /\ Len(v.heads) > 1
                 THEN v' = [v EXCEPT !.heads = Tail(@)] /\ UNCHANGED <<pc, done>>
                 ELSE Quit

(* The last write of fat16_delete_entry and fat16_rmdir: name[0] = 0xE5. *)
Mark ==
  /\ pc = "mark"
  /\ \/ SetSlot(v.place, Deleted) /\ Return(v.place) /\ UNCHANGED torn
     \/ /\ SetSlotFails(v.place, Deleted) /\ Quit
        /\ torn' = (torn \/ (slot' = slot /\ slot[v.place].first # 0))
  /\ UNCHANGED <<fat, data, ops, lost, twin>>

(* fat16_update_entry as a rename: MOVE, RENAME and the shell's move. *)
Rename(d, name, new) ==
  LET p == Find(d, name)
  IN  /\ p # None /\ (slot[p].name = new \/ Available(d, new))
      /\ ops' = ops + 1 /\ done' = None
      /\ \/ SetSlot(p, [slot[p] EXCEPT !.name = new])
         \/ SetSlotFails(p, [slot[p] EXCEPT !.name = new])
      /\ UNCHANGED <<fat, data, pc, v, torn, lost, twin>>

-----------------------------------------------------------------------------
(* fat16_delete_matching scans a directory sector in sector_buffer, which is   *)
(* also the buffer fat16_free_cluster_chain_internal reads the FAT into.       *)
(* v.pos is the slot it looks at, v.marked the slots marked in the buffer.     *)

ScanPlace == DirPlaces(v.dir)[v.pos]
LastOfSector == v.pos = Len(DirPlaces(v.dir)) \/ DirPlaces(v.dir)[v.pos + 1][1] # ScanPlace[1]

(* A slot of the directory: 0x00 ends the call and the marks are not written,  *)
(* an empty file is marked, another file's chain is freed.                     *)
Scan ==
  /\ pc = "scan" /\ v.then # "scan"
  /\ LET e == slot[ScanPlace]
         match == InUse(e) /\ ~e.dir /\ e.name \in v.name
         step == [v EXCEPT !.pos = @ + 1, !.marked = IF match THEN @ \cup {ScanPlace} ELSE @]
     IN  IF e = Never THEN Return(None)
         ELSE IF match /\ e.first # 0
           THEN /\ v' = [step EXCEPT !.place = ScanPlace, !.heads = <<e.first>>, !.then = "scan"]
                /\ Goto("free") /\ UNCHANGED done
         ELSE /\ v' = step
              /\ Goto(IF LastOfSector THEN "scanned" ELSE "scan") /\ UNCHANGED done
  /\ UNCHANGED <<fat, slot, data, ops, faults, torn, lost, twin>>

(* The buffer holds FAT bytes: taken for entries they end the directory, or    *)
(* they run to the end of the sector and are written over it.  The volume is   *)
(* torn by then, and what else the call does to it is not followed.            *)
ScanFatBytes ==
  /\ pc = "scan" /\ v.then = "scan"
  /\ \/ UNCHANGED slot
     \/ slot' = [p \in Places |-> IF p[1] = v.place[1] THEN Garbage ELSE slot[p]]
  /\ Return(None)
  /\ UNCHANGED <<fat, data, ops, faults, torn, lost, twin>>

(* The end of a sector without 0x00: it is written with the marks. *)
ScanWrite ==
  /\ pc = "scanned"
  /\ LET marked == [p \in Places |-> IF p \in v.marked THEN Deleted ELSE slot[p]]
     IN  \/ /\ NoFault /\ slot' = marked
            /\ IF v.pos > Len(DirPlaces(v.dir)) THEN Return(None)
               ELSE v' = [v EXCEPT !.marked = {}] /\ Goto("scan") /\ UNCHANGED done
         \/ Fault /\ slot' \in {slot, marked} /\ Quit
  /\ UNCHANGED <<fat, data, ops, torn, lost, twin>>

-----------------------------------------------------------------------------
(* Listing, reading and changing directory write nothing. *)
Read == pc = "idle" /\ UNCHANGED vars

(* The machine stops between two writes and is started again. *)
Restart ==
  /\ pc # "idle" /\ Fault /\ Quit
  /\ torn' = (torn \/ pc \in {"geoc", "gzero"} \/ (pc = "mark" /\ slot[v.place].first # 0)
                   \/ (pc = "free" /\ Removing /\ Head(v.heads) # slot[v.place].first))
  /\ UNCHANGED <<fat, slot, data, ops, lost, twin>>

(* An operation begins when the one before has returned.  The properties are   *)
(* about volumes that are not torn; a torn one is not used any further.        *)
Start ==
  /\ pc = "idle" /\ ops < MaxOps /\ ~torn
  /\ \E d \in LiveDirs :
       \/ \E names \in SUBSET Names \ {{}} : StartWildcard(d, names)
       \/ \E name \in Names :
            \/ \E n \in 0 .. MaxLen : StartWrite(d, name, n)
            \/ \E e \in LiveDirs, new \in Names : StartCopy(d, name, e, new, "copy")
            \/ \E e \in LiveDirs : StartCopy(d, name, e, name, "move")
            \/ \E new \in Names : Rename(d, name, new)
            \/ StartDelete(d, name)
            \/ StartMkdir(d, name)
            \/ StartRmdir(d, name)

Step ==
  \/ Alloc \/ Link \/ EndMark \/ WriteData \/ ZeroDir \/ StoreEntry
  \/ Grow \/ GrowLink \/ GrowEnd \/ GrowZero \/ FreeStep \/ Mark
  \/ Scan \/ ScanFatBytes \/ ScanWrite

Next == Start \/ Step \/ Read \/ Restart

Spec == Init /\ [][Next]_vars

-----------------------------------------------------------------------------
(* The entry an operation is removing at this moment does not count. *)
Entries ==
  LET removed == IF pc \in {"free", "mark"} /\ Removing THEN {v.place} ELSE {}
  IN  {p \in UNION {Range(Seen(d)) : d \in LiveDirs} \ removed : InUse(slot[p])}

(* No two files or directories share a cluster, and none shares one with the  *)
(* free list: whichever write fails and wherever the machine stops, except    *)
(* after a deletion cut off between freeing the chain and marking the entry,  *)
(* a directory cut off while it grew, or a wildcard deletion (torn).  Without *)
(* faults nothing leaks either: between operations every cluster in use       *)
(* belongs to a file or directory, also after operations that failed for lack *)
(* of space, except fat16_mkdir into a full directory (lost).                 *)
ClustersAccounted ==
  ~torn =>
    LET held == [p \in Entries |-> Range(ChainOf(p))]
    IN  /\ \A p \in DOMAIN held :
             /\ \A c \in held[p] : fat[c] # 0
             /\ \A q \in DOMAIN held \ {p} : held[p] \cap held[q] = {}
        /\ pc = "idle" /\ faults = 0 /\ ~lost =>
             {c \in Clusters : fat[c] # 0} = UNION {held[p] : p \in DOMAIN held}

(* Every name stands for one whole file.  Its chain has the length its entry  *)
(* states, ends there, and holds the pieces of one and the same write, so a   *)
(* file is replaced in one step although its clusters are written one by one  *)
(* (fat16_write_file_from_dir, fat16_copy_file_between_dirs).  In a directory *)
(* a name is there once, unless mkdir was asked for the name of a file, which *)
(* it does not look for (twin).                                               *)
NamesAreWhole ==
  ~torn =>
    /\ \A p \in Entries :
         ~slot[p].dir =>
           LET ch == ChainOf(p)
           IN  /\ Len(ch) = slot[p].len
               /\ ch # <<>> => fat[Last(ch)] = EOC
               /\ \E w \in 1 .. MaxOps : \A k \in 1 .. Len(ch) : data[ch[k]] = <<w, k>>
    /\ ~twin => \A d \in LiveDirs, name \in Names : Cardinality(Named(d, name)) <= 1

Target == IF v.kind \in {"write", "delete", "rmdir"} \/ v.then = "mark" THEN {v.place} ELSE v.marked

(* No step of an operation changes a file other than the one it writes or     *)
(* removes: neither the first cluster and the size in its entry, nor its      *)
(* chain in the FAT, nor what its clusters hold.  A copy leaves its source    *)
(* alone.                                                                     *)
OthersUntouched ==
  [][~torn' =>
       \A p \in Entries :
         p \notin Target /\ ~slot[p].dir =>
           /\ InUse(slot'[p])
           /\ slot'[p].first = slot[p].first /\ slot'[p].len = slot[p].len
           /\ \A c \in Range(ChainOf(p)) : fat'[c] = fat[c] /\ data'[c] = data[c]]_vars

Gone(d, name) == twin \/ Named(d, name) = {}

(* A call that has returned 1 has done what it says: a read of the name gives *)
(* what was written or copied, nothing bears the name that was removed any    *)
(* more, the directory is there and empty.  What is removed or moved is the   *)
(* first entry fat16_match_name takes for the name, which may be one with a   *)
(* longer extension: then that one is gone.  A wildcard deletion that freed   *)
(* no chain on the way (torn) has removed what its pattern matches from every *)
(* sector without an unused entry; at one it returns before it writes.        *)
SuccessIsReal ==
  done # None /\ ~torn =>
    CASE done.kind \in {"write", "copy", "move"} ->
           /\ ReadFile(done.dir, done.name) = [k \in 1 .. done.len |-> <<done.ver, k>>]
           /\ done.kind = "move" => Gone(done.from, done.found)
      [] done.kind \in {"delete", "rmdir"} -> Gone(done.dir, done.found)
      [] done.kind = "mkdir" ->
           /\ Find(done.dir, done.name) # None
           /\ IsEmpty(slot[done.place].first) /\ slot[done.place].dir
      [] done.kind = "wildcard" ->
           \A p \in Range(DirPlaces(done.dir)) : InUse(slot[p]) /\ ~slot[p].dir /\ slot[p].name \in done.name =>
             \E q \in Range(DirPlaces(done.dir)) : q[1] = p[1] /\ slot[q] = Never
      [] OTHER -> TRUE
=============================================================================

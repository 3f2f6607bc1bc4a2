---------------------------- MODULE DriveLetters ----------------------------
(***************************************************************************)
(* How volumes get their letters at boot (src/kernel/storage/disk.c,       *)
(* drive.c): which device each disk number stands for, and which volumes   *)
(* are found on it.                                                        *)
(*                                                                          *)
(* A machine has four ATA positions and perhaps a device only the BIOS can *)
(* read (a floppy or a USB disk).  Of what is on a device the kernel goes  *)
(* by the first sector: its signature, what its bytes 446 to 509 say when  *)
(* they are read as a partition table, whether it describes a FAT volume,  *)
(* and its bytes as such, which are compared.                              *)
(***************************************************************************)
EXTENDS Naturals, Sequences, SequencesExt

CONSTANT MaxDrives  \* MAX_DRIVES

ASSUME LettersAssumption == MaxDrives \in Nat \ {0}

Ata == 0 .. 3
Bios == 4
Devices == Ata \cup {Bios}

(* A first sector: nothing there, no signature, that of a volume or of a partitioned disk; the types of the four      *)
(* entries of its table, which in a volume are what its boot code is read as; and a mark that tells the contents apart. *)
FirstSector(kind, table, mark) == [kind |-> kind, table |-> table, mark |-> mark]
Absent == FirstSector("absent", <<>>, 0)
Blank == FirstSector("blank", <<>>, 0)
Whole(mark) == FirstSector("volume", <<>>, mark)
Coded(mark) == FirstSector("volume", <<"other">>, mark)
Parted(types) == FirstSector("parts", types, 0)

(* A volume; part 0 is the whole disk. *)
Volume(dev, part, fat) == [dev |-> dev, part |-> part, fat |-> fat]

-----------------------------------------------------------------------------
(* A machine hw: the device it was booted from, whether the boot loader has flagged that as a BIOS volume, and the media. *)

ata_present(hw, id) == hw.media[id] # Absent

(* ata_primary_matches_boot_sector compares contents. *)
ata_primary_matches_boot_sector(hw) == ata_present(hw, 0) /\ hw.media[0] = hw.media[hw.boot]

(* disk_init: the boot volume stays with the BIOS when it is flagged so, or is not what the first ATA disk begins with. *)
is_boot_volume(hw) == hw.flag \/ ~ata_primary_matches_boot_sector(hw)

(* The device behind a disk number: a boot volume is number 0 and moves the ATA disks up. *)
Device(hw, id) ==
  CASE ~is_boot_volume(hw) -> id
    [] is_boot_volume(hw) /\ id = 0 -> hw.boot
    [] OTHER -> id - 1

disk_is_present(hw, id) == hw.media[Device(hw, id)] # Absent

-----------------------------------------------------------------------------
(* Detection; letters is the table of drives, from A: on. *)

detect_whole_disk_volume(hw, id) ==
  LET dev == Device(hw, id) IN IF hw.media[dev].kind = "volume" THEN <<Volume(dev, 0, TRUE)>> ELSE <<>>

(* Entries that are neither empty nor an extended partition. *)
UsedEntries(sector) ==
  SelectSeq([i \in 1 .. Len(sector.table) |-> i], LAMBDA i : sector.table[i] \notin {"empty", "extended"})

(* Any sector with the signature is read as a partition table. *)
detect_disk_partitions(hw, id) ==
  LET dev == Device(hw, id)
      used == UsedEntries(hw.media[dev])
  IN [k \in 1 .. Len(used) |-> Volume(dev, used[k], hw.media[dev].table[used[k]] = "fat")]

(* The volumes of disk number id, with the letters there are left. *)
Add(hw, letters, id) ==
  LET found == detect_disk_partitions(hw, id)
      new == IF found # <<>> THEN found ELSE detect_whole_disk_volume(hw, id)
      all == letters \o new
  IN IF ~disk_is_present(hw, id) THEN letters ELSE SubSeq(all, 1, IF Len(all) < MaxDrives THEN Len(all) ELSE MaxDrives)

drive_init_boot_media(hw) == IF is_boot_volume(hw) THEN detect_whole_disk_volume(hw, 0) ELSE <<>>

(* Mutant of FirstProbed: the boot volume is probed again among the disks. *)
FirstProbed_Mut(hw) == 0

FirstProbed(hw) == IF is_boot_volume(hw) THEN 1 ELSE 0

drive_probe_additional(hw, letters) ==
  FoldLeft(LAMBDA l, id : Add(hw, l, id), letters, [k \in 1 .. 4 - FirstProbed(hw) |-> FirstProbed(hw) + k - 1])

(* Without any letter a boot volume is tried once more. *)
DriveTable(hw) ==
  LET found == drive_probe_additional(hw, drive_init_boot_media(hw))
  IN  IF found = <<>> THEN drive_init_boot_media(hw) ELSE found

-----------------------------------------------------------------------------
(* What a machine has, without the numbering of disks. *)
VolumesOf(hw, dev) ==
  LET sector == hw.media[dev]
      Part(i) == sector.table[i]
  IN CASE sector.kind = "volume" -> {Volume(dev, 0, TRUE)}
       [] sector.kind = "parts" -> {Volume(dev, i, Part(i) = "fat") : i \in {j \in DOMAIN sector.table : Part(j) \in {"fat", "other"}}}
       [] OTHER -> {}

(* Disks taken for what they are not: a partitioned BIOS boot disk is tried as one volume only, and any other volume is *)
(* first read as a partition table, which its boot code may look like.                                                *)
Misread(hw, dev) ==
  IF is_boot_volume(hw) /\ dev = hw.boot THEN hw.media[dev].kind = "parts"
  ELSE hw.media[dev].kind = "volume" /\ UsedEntries(hw.media[dev]) # <<>>
=============================================================================

------------------------------ MODULE MCShell ------------------------------
(* Machines: every boot device, flagged or not, with one volume, a volume    *)
(* whose boot code looks like a partition table, or partitions, and any      *)
(* media on the first two and the last ATA positions, some with the same     *)
(* first sector.  Commands are given on a machine booted from a BIOS device, *)
(* with a second volume that is or is not FAT.  File g has a name such as    *)
(* README12.TXT, and f one such as README12.T, which is taken for it.        *)
EXTENDS Shell

CONSTANTS d, f, g

Parts == Parted(<<"fat", "extended", "other">>)
Kinds == {Absent, Blank, Whole(1), Whole(2), Coded(1), Parted(<<"other">>), Parts}

Machine(flag, boot, mb, m0, m1, m3) ==
  [flag |-> flag, boot |-> boot,
   media |-> [x \in Devices |-> CASE x = boot -> mb [] x = 0 /\ x # boot -> m0 [] x = 1 /\ x # boot -> m1
                                  [] x = 3 /\ x # boot -> m3 [] OTHER -> Absent]]

MCMachines == {Machine(fb[1], fb[2], mb, m0, m1, m3) :
                 fb \in {<<TRUE, Bios>>, <<FALSE, Bios>>, <<FALSE, 0>>, <<FALSE, 1>>},
                 mb \in {Whole(1), Coded(1), Parts}, m0 \in Kinds, m1 \in Kinds, m3 \in Kinds}

MCShellMachines == {Machine(TRUE, Bios, Whole(1), m, Absent, Absent) : m \in {Whole(2), Parted(<<"other">>)}}

Empty == [c \in Clusters |-> EmptyDir]
MCDisks == {[x \in Drives |->
               CASE x = 0 -> [Empty EXCEPT ![Root][d] = FolderAt(1, 1), ![Root][f] = FileOf(1, 2), ![Root][g] = FileOf(2, 3)]
                 [] x = 1 -> [Empty EXCEPT ![Root][f] = FileOf(3, 1)]
                 [] OTHER -> Empty]}
MCAccepts == [n \in Names |-> IF n = f THEN {f, g} ELSE {n}]
MCBegins == {<<g, f>>}

(* What the kernel does with volume parameters that are none is not explored. *)
ParametersKnown == kern.bpb # Junk
=============================================================================

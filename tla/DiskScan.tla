------------------------------- MODULE DiskScan ------------------------------
(***************************************************************************)
(* disk_search_and_init (disk.c): the boot drive is taken for granted, the *)
(* other three ATA positions are probed (check_disk), and each disk found  *)
(* is asked for its size (get_disk_info) through one shared 512-byte       *)
(* buffer, which comes from the slab allocator with old bytes in it.       *)
(*                                                                         *)
(* A position is what an ata_code names: bit 1 the channel, bit 0 the      *)
(* drive.  A drive may be slow at any poll loop, which then gives up.      *)
(* check_disk leaves the drive with 256 words of identity it never reads.  *)
(***************************************************************************)
EXTENDS Integers, FiniteSets

CONSTANTS BootDrive,        \* G_BOOT_DRIVE, 0x80
          DISK_SUPPORT_MAX, \* slots of motherlobe, 5
          Sizes,            \* sector counts a drive may have
          OldCounts         \* what bytes that are no identity may read as

ASSUME BootAssumption == BootDrive \in 128 .. 131
ASSUME SupportAssumption == DISK_SUPPORT_MAX \in Nat /\ DISK_SUPPORT_MAX >= 4
ASSUME SizesAssumption == Sizes \cup OldCounts \subseteq Nat

Codes   == 128 .. 131       \* 0x80 .. 0x83
Scanned == 129 .. 131       \* the for of disk_search_and_init
NONE    == -1

VARIABLES size,             \* the drives there are: sector count or NONE
          owes,             \* drives with identity data at their data port
          buf,              \* words 60 and 61 of the buffer: a sector count
          disks,            \* struct disk by slot: code and sect_count, or NONE
          index, code, pc,  \* locals of disk_search_and_init
          slow              \* history: drives whose identity was not got

vars == <<size, owes, buf, disks, index, code, pc, slow>>

Slots == 0 .. (DISK_SUPPORT_MAX - 1)
Entry(c, n) == [code |-> c, sect_count |-> n]
NoDisk == Entry(NONE, NONE)         \* NULL

-----------------------------------------------------------------------------
(* Mutant: another drive's identity is read, the head register not written. *)
get_disk_info_wrong_drive(c) ==
    \/ /\ size[BootDrive] # NONE
       /\ buf' = size[BootDrive]
       /\ owes' = owes \ {c}
       /\ UNCHANGED slow
    \/ /\ slow' = slow \cup {c}
       /\ UNCHANGED <<buf, owes>>

(* get_disk_info: the identity of the drive, or a silent return when a wait   *)
(* gives up, before the command (the drive owes what it owed) or after it.    *)
(* A drive that already owes its identity gives the same data either way.     *)
(* ERR is not looked at: a drive that fails with DRQ set gives other bytes.   *)
get_disk_info(c) ==
    \/ /\ size[c] # NONE
       /\ buf' = size[c]
       /\ owes' = owes \ {c}
       /\ UNCHANGED slow
    \/ /\ slow' = slow \cup {c}
       /\ UNCHANGED <<buf, owes>>
    \/ /\ size[c] # NONE
       /\ owes' = owes \cup {c}
       /\ slow' = slow \cup {c}
       /\ UNCHANGED buf
    \/ /\ size[c] # NONE
       /\ buf' \in OldCounts
       /\ owes' = owes \ {c}
       /\ slow' = slow \cup {c}

(* The boot drive: slot 0 is filled whatever get_disk_info did. *)
BootInfo ==
    /\ pc = "boot_info"
    /\ get_disk_info(BootDrive)
    /\ pc' = "boot_entry"
    /\ UNCHANGED <<size, disks, index, code>>

BootEntry ==
    /\ pc = "boot_entry"
    /\ disks' = [disks EXCEPT ![0] = Entry(BootDrive, buf)]
    /\ index' = 1
    /\ code' = 129
    /\ pc' = "probe"
    /\ UNCHANGED <<size, owes, buf, slow>>

(* check_disk finds nothing: no drive, or one too slow, before IDENTIFY was  *)
(* sent or after it.                                                         *)
ProbeNothing ==
    /\ pc = "probe" /\ code \in Scanned
    /\ code' = code + 1
    /\ \/ UNCHANGED <<owes, slow>>
       \/ size[code] # NONE /\ owes' = owes \cup {code} /\ slow' = slow \cup {code}
    /\ UNCHANGED <<size, buf, disks, index, pc>>

(* check_disk finds a drive: IDENTIFY has been sent, its data not read. *)
ProbeFound ==
    /\ pc = "probe" /\ code \in Scanned /\ size[code] # NONE
    /\ owes' = owes \cup {code}
    /\ pc' = "info"
    /\ UNCHANGED <<size, buf, disks, index, code, slow>>

Info ==
    /\ pc = "info"
    /\ get_disk_info(code)
    /\ pc' = "entry"
    /\ UNCHANGED <<size, disks, index, code>>

(* Mutant: index is not moved on. *)
DiskEntrySameSlot ==
    /\ pc = "entry"
    /\ disks' = [disks EXCEPT ![index] = Entry(code, buf)]
    /\ code' = code + 1
    /\ pc' = "probe"
    /\ UNCHANGED <<size, owes, buf, index, slow>>

DiskEntry ==
    /\ pc = "entry"
    /\ disks' = [disks EXCEPT ![index] = Entry(code, buf)]
    /\ index' = index + 1
    /\ code' = code + 1
    /\ pc' = "probe"
    /\ UNCHANGED <<size, owes, buf, slow>>

(* The buffer goes back to the slab allocator. *)
ScanDone ==
    /\ pc = "probe" /\ code \notin Scanned
    /\ pc' = "done"
    /\ UNCHANGED <<size, owes, buf, disks, index, code, slow>>

-----------------------------------------------------------------------------
(* The kernel was loaded from the boot drive, so that one exists.  The       *)
(* buffer may hold anything.                                                 *)
Init ==
    /\ size \in [Codes -> Sizes \cup {NONE}] /\ size[BootDrive] # NONE
    /\ owes = {}
    /\ buf \in OldCounts
    /\ disks = [s \in Slots |-> NoDisk]
    /\ index = 0 /\ code = 0
    /\ pc = "boot_info"
    /\ slow = {}

Next ==
    \/ BootInfo \/ BootEntry
    \/ ProbeNothing \/ ProbeFound
    \/ Info \/ DiskEntry
    \/ ScanDone

-----------------------------------------------------------------------------
(* PROPERTIES *)

ListedSlots == {s \in Slots : disks[s] # NoDisk}

(* Although one buffer serves all drives and check_disk leaves a transfer    *)
(* pending at each, a disk whose identity was got has its own sector count,  *)
(* the bound read_disk_block checks against.                                 *)
SizeOwnIfGot ==
    \A s \in ListedSlots :
        disks[s].code \notin slow => disks[s].sect_count = size[disks[s].code]

(* motherlobe fills from the front and lists only drives there are, each     *)
(* once: scan_part_all_disks and get_disk index it by slot.  Slot 0 may be   *)
(* listed again if the boot drive is one of those the loop probes.           *)
DrivesOnce ==
    /\ ListedSlots = 0 .. (index - 1)
    /\ \A s, t \in ListedSlots : s # t =>
          \/ disks[s].code # disks[t].code
          \/ 0 \in {s, t} /\ BootDrive \in Scanned
    /\ \A s \in ListedSlots : size[disks[s].code] # NONE
=============================================================================

----------------------------- MODULE Partitions ------------------------------
(***************************************************************************)
(* The partition scan (partitions.c), which kernel_main runs after the     *)
(* disk scan: for each disk of motherlobe, sector 0 is read into a         *)
(* 512-byte chunk of the slab allocator, taken for a master boot record or *)
(* a volume boot record, and turned into the disk's list of partitions,    *)
(* against the sector count the disk scan left.  Chunks are had when asked *)
(* for.  The chunk of one disk is the chunk of the next, so a read that    *)
(* did not fill it leaves the sector of the disk before.                   *)
(***************************************************************************)
EXTENDS DiskScan, Sequences

CONSTANTS EntryCount,       \* entries of a partition table, 4
          WordSize,         \* 2^32
          MaxDrives,        \* bound: drives there are
          TableEntries,     \* the table entries considered
          VbrTypes,         \* what fix_vbr makes of a volume boot record
          OldSectors        \* what the chunk may hold before the first read

ASSUME CountAssumption == EntryCount \in Nat /\ MaxDrives \in Nat
ASSUME WordAssumption ==
    WordSize \in Nat \ {0} /\ Sizes \cup OldCounts \subseteq 0 .. (WordSize - 1)

Known  == {1, 4, 6, 14, 12, 11, 131}    \* enum FILE_SYST_TYPE but FS_UNKNOWN
Tables == [1 .. EntryCount -> TableEntries]
ASSUME TableAssumption ==
    /\ \A e \in TableEntries : e.start \in 0 .. (WordSize - 1) /\ e.num \in 0 .. (WordSize - 1)
    /\ OldSectors \subseteq [sig : BOOLEAN, table : Tables, vbr : VbrTypes]

(* Sector 0: is the signature there, its table, its file system as a VBR.    *)
(* Without the signature nothing else of it is looked at.                    *)
Sectors ==
    LET blank == CHOOSE t \in Tables : TRUE
    IN  {x \in [sig : BOOLEAN, table : Tables, vbr : VbrTypes] : x.sig \/ x.table = blank}

VARIABLES sector0,          \* sector 0 of the disks read so far, by slot
          chunk,            \* the chunk the sector is read into
          link_list,        \* disk.link_list
          slot, i, step,    \* loop variables and where the scan is
          held,             \* chunks taken and not given back
          failed, misread   \* history: reads that failed, seen and unseen

scan  == <<sector0, chunk, link_list, slot, i, step, held, failed, misread>>
bvars == <<vars, scan>>

(* The disk's sector count as the disk scan left it. *)
SectCount(s) == disks[s].sect_count

(* Where the partition scan is; the disk scan is over. *)
At(p) == pc = "done" /\ step = p /\ UNCHANGED vars
AtSlot(p) == At(p) /\ slot \in Slots

Partition(fs, start, num, boot) ==
    [fs_type |-> fs, start_sect |-> start, sect_num |-> num, is_bootable |-> boot]

(* The switch on the type byte: the enum has the values of the bytes. *)
FsType(t) == IF t \in Known THEN t ELSE 0

FromEntry(e) == Partition(FsType(e.type), e.start, e.num, e.boot)

FromVbr(sect, n) == Partition(sect.vbr, 0, n, FALSE)

check_mbr(table) == \E k \in 1 .. EntryCount : table[k].type # 0

-----------------------------------------------------------------------------
(* scan_part_all_disks skips an empty slot. *)
SkipSlot ==
    /\ AtSlot("disk") /\ disks[slot] = NoDisk
    /\ slot' = slot + 1
    /\ UNCHANGED <<sector0, chunk, link_list, i, step, held, failed, misread>>

(* single_disk_scan reads sector 0 (0 + 1 sectors must be on the disk). *)
ReadSector ==
    /\ AtSlot("disk") /\ SectCount(slot) >= 1
    /\ link_list' = [link_list EXCEPT ![slot] = <<>>]
    /\ held' = held + 1
    /\ \E s \in Sectors : chunk' = s /\ sector0' = [sector0 EXCEPT ![slot] = s]
    /\ step' = "parse"
    /\ UNCHANGED <<slot, i, failed, misread>>

(* A negative answer, of the bounds check or of a wait that gave up. *)
ReadFails ==
    /\ AtSlot("disk") /\ disks[slot] # NoDisk
    /\ link_list' = [link_list EXCEPT ![slot] = <<>>]
    /\ held' = held + 1
    /\ failed' = failed \cup {slot}
    /\ step' = "exit"
    /\ UNCHANGED <<sector0, chunk, slot, i, misread>>

(* DISK_READ_ERR is positive and passes the test for < 0. *)
ReadErr ==
    /\ AtSlot("disk") /\ SectCount(slot) >= 1
    /\ link_list' = [link_list EXCEPT ![slot] = <<>>]
    /\ held' = held + 1
    /\ misread' = misread \cup {slot}
    /\ step' = "parse"
    /\ UNCHANGED <<sector0, chunk, slot, i, failed>>

(* A drive that still owes its identity may drop the command; the driver     *)
(* takes the identity for the sector.  It does not end in the signature.     *)
ReadIdentity ==
    /\ pc = "done" /\ step = "disk" /\ slot \in Slots
    /\ SectCount(slot) >= 1 /\ disks[slot].code \in owes
    /\ owes' = owes \ {disks[slot].code}
    /\ link_list' = [link_list EXCEPT ![slot] = <<>>]
    /\ held' = held + 1
    /\ \E s \in Sectors : ~ s.sig /\ chunk' = s
    /\ step' = "parse"
    /\ UNCHANGED <<size, buf, disks, index, code, pc, slow, sector0, slot, i, failed, misread>>

NoSignature ==
    /\ At("parse") /\ ~ chunk.sig
    /\ step' = "exit"
    /\ UNCHANGED <<sector0, chunk, link_list, slot, i, held, failed, misread>>

Vbr ==
    /\ At("parse") /\ chunk.sig /\ ~ check_mbr(chunk.table)
    /\ link_list' = [link_list EXCEPT ![slot] = <<FromVbr(chunk, SectCount(slot))>>]
    /\ held' = held + 1
    /\ step' = "exit"
    /\ UNCHANGED <<sector0, chunk, slot, i, failed, misread>>

Mbr ==
    /\ At("parse") /\ chunk.sig /\ check_mbr(chunk.table)
    /\ i' = 1
    /\ step' = "entry"
    /\ UNCHANGED <<sector0, chunk, link_list, slot, held, failed, misread>>

-----------------------------------------------------------------------------
NoEntry ==
    /\ At("entry") /\ i <= EntryCount /\ chunk.table[i].num = 0
    /\ i' = i + 1
    /\ UNCHANGED <<sector0, chunk, link_list, slot, step, held, failed, misread>>

(* Mutant: the end of the partition is taken for its last sector. *)
OutsideByOne(e) == (e.start + e.num - 1) % WordSize > SectCount(slot)

(* start_sect + sect_num > sect_count, in a word. *)
Outside(e) == (e.start + e.num) % WordSize > SectCount(slot)

(* Mutant: the chunk is not given back. *)
CorruptedKept ==
    /\ At("entry") /\ i <= EntryCount
    /\ chunk.table[i].num # 0 /\ Outside(chunk.table[i])
    /\ i' = i + 1
    /\ held' = held + 1
    /\ UNCHANGED <<sector0, chunk, link_list, slot, step, failed, misread>>

(* The chunk taken for the entry is given back. *)
Corrupted ==
    /\ At("entry") /\ i <= EntryCount
    /\ chunk.table[i].num # 0 /\ Outside(chunk.table[i])
    /\ i' = i + 1
    /\ UNCHANGED <<sector0, chunk, link_list, slot, step, held, failed, misread>>

(* Appended at last, or made the head of an empty list. *)
LinkEntry ==
    /\ At("entry") /\ i <= EntryCount
    /\ chunk.table[i].num # 0 /\ ~ Outside(chunk.table[i])
    /\ link_list' = [link_list EXCEPT ![slot] = Append(@, FromEntry(chunk.table[i]))]
    /\ held' = held + 1
    /\ i' = i + 1
    /\ UNCHANGED <<sector0, chunk, slot, step, failed, misread>>

EntriesDone ==
    /\ At("entry") /\ i > EntryCount
    /\ step' = "exit"
    /\ UNCHANGED <<sector0, chunk, link_list, slot, i, held, failed, misread>>

(* exit_here: the sector's chunk goes back, its bytes stay. *)
Exit ==
    /\ At("exit")
    /\ held' = held - 1
    /\ slot' = slot + 1
    /\ i' = 0
    /\ step' = "disk"
    /\ UNCHANGED <<sector0, chunk, link_list, failed, misread>>

-----------------------------------------------------------------------------
(* A drive's sector 0 is chosen when it is read.  The chunk has old bytes.   *)
BootInit ==
    /\ Init
    /\ Cardinality({c \in Codes : size[c] # NONE}) <= MaxDrives
    /\ sector0 = [s \in Slots |-> NONE]
    /\ chunk \in OldSectors
    /\ link_list = [s \in Slots |-> <<>>]
    /\ slot = 0 /\ i = 0 /\ step = "disk"
    /\ held = 0
    /\ failed = {} /\ misread = {}

scan_part_all_disks ==
    \/ SkipSlot
    \/ ReadSector \/ ReadFails \/ ReadErr \/ ReadIdentity
    \/ NoSignature \/ Vbr \/ Mbr
    \/ NoEntry \/ Corrupted \/ LinkEntry \/ EntriesDone
    \/ Exit

(* kernel_main: the disk scan, then the partition scan. *)
BootNext ==
    \/ Next /\ UNCHANGED scan
    \/ scan_part_all_disks

BootSpec == BootInit /\ [][BootNext]_bvars

-----------------------------------------------------------------------------
(* PROPERTIES *)

(* The entries of a table that lie on a disk of n sectors. *)
OnDisk(sect, n) ==
    {k \in 1 .. EntryCount : sect.table[k].num > 0 /\ sect.table[k].start + sect.table[k].num <= n}

(* A list of the entries in K, each after those before it in the table. *)
ListOf(list, sect, K) ==
    /\ Len(list) = Cardinality(K)
    /\ \A k \in K : list[Cardinality({j \in K : j <= k})] = FromEntry(sect.table[k])

(* What the list should be: one partition for a VBR, and for an MBR the      *)
(* entries that lie on the disk, in the order of the table.                  *)
Listed(list, sect, n) ==
    IF ~ sect.sig THEN list = <<>>
    ELSE IF \A k \in 1 .. EntryCount : sect.table[k].type = 0 THEN list = <<FromVbr(sect, n)>>
    ELSE ListOf(list, sect, OnDisk(sect, n))

Wraps(sect) == \E k \in 1 .. EntryCount : sect.table[k].start + sect.table[k].num >= WordSize

(* One chunk serves all disks, and a drive may still owe the disk scan its   *)
(* identity: yet a disk whose identity was got and whose sector 0 was read   *)
(* has the partitions of its own table that lie on it, if no sum wraps, and  *)
(* one that could not be read has none.                                      *)
ListsOwn ==
    \A s \in ListedSlots : s < slot /\ s \notin misread /\ disks[s].code \notin slow =>
        \/ s \in failed /\ link_list[s] = <<>>
        \/ s \notin failed /\ (Wraps(sector0[s]) \/ Listed(link_list[s], sector0[s], SectCount(s)))

(* The partitions linked, by disk and place in the list. *)
Linked == UNION {{<<s, k>> : k \in 1 .. Len(link_list[s])} : s \in Slots}

(* Chunks are not lost on any path, the early exits and corrupted entries    *)
(* included: what is held is in a list, or is the sector's chunk.            *)
NothingLost ==
    held = Cardinality(Linked) + (IF step = "disk" THEN 0 ELSE 1)
=============================================================================

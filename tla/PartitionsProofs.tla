--------------------------- MODULE PartitionsProofs ---------------------------
(***************************************************************************)
(* The disk scan and the partition scan, for any number of drives, table   *)
(* entries and bits of a word.  The disk scan's invariant says which slots *)
(* of motherlobe are filled and from which codes; the partition scan's     *)
(* says whose sector the chunk holds, and which of its entries are linked. *)
(***************************************************************************)
EXTENDS Partitions, FiniteSetTheorems, TLAPS

-----------------------------------------------------------------------------
(* The disk scan. *)

ScanTypes ==
    /\ size \in [Codes -> Nat \cup {NONE}] /\ size[BootDrive] # NONE
    /\ buf \in Nat
    /\ disks \in [Slots -> [code : Codes \cup {NONE}, sect_count : Nat \cup {NONE}]]
    /\ index \in 0 .. 4
    /\ pc \in {"boot_info", "boot_entry", "probe", "info", "entry", "done"}

Started == pc \notin {"boot_info", "boot_entry"}

(* The loop over the positions. *)
Scanning ==
    /\ Started => index \in 1 .. (code - 128) /\ code \in 129 .. 132
    /\ ~ Started => index = 0
    /\ pc \in {"info", "entry"} => code \in Scanned /\ size[code] # NONE

(* Slot 0 has the boot drive, the others drives that were probed before. *)
Filled ==
    \A s \in Slots :
        /\ s < index <=> disks[s] # NoDisk
        /\ s < index =>
              /\ disks[s].code \in Codes /\ disks[s].sect_count \in Nat
              /\ size[disks[s].code] # NONE
              /\ s = 0 => disks[s].code = BootDrive
              /\ s > 0 => disks[s].code \in 129 .. (code - 1)

(* No two slots after the first have the same drive. *)
Apart == \A s, t \in Slots : 0 < s /\ s < t /\ t < index => disks[s].code # disks[t].code

(* The buffer between get_disk_info and the entry. *)
BufferOwn ==
    /\ pc = "boot_entry" /\ BootDrive \notin slow => buf = size[BootDrive]
    /\ pc = "entry" /\ code \notin slow => buf = size[code]

(* A drive whose identity was got owes nothing, but while it is asked again. *)
NothingOwed ==
    /\ \A s \in ListedSlots :
          disks[s].code \notin slow /\ ~ (pc = "info" /\ disks[s].code = code) =>
              disks[s].code \notin owes
    /\ pc = "boot_entry" /\ BootDrive \notin slow => BootDrive \notin owes
    /\ pc = "entry" /\ code \notin slow => code \notin owes

ScanInv ==
    /\ ScanTypes /\ Scanning /\ Filled /\ Apart
    /\ BufferOwn /\ NothingOwed /\ SizeOwnIfGot

-----------------------------------------------------------------------------
(* The partition scan. *)

SectorType == [sig : BOOLEAN, table : Tables, vbr : VbrTypes]

EntryParts == {FromEntry(e) : e \in TableEntries}
VbrParts == {Partition(v, 0, n, FALSE) : v \in VbrTypes, n \in Nat}
Parts == EntryParts \cup VbrParts

PartTypes ==
    /\ chunk \in SectorType
    /\ sector0 \in [Slots -> SectorType \cup {NONE}]
    /\ link_list \in [Slots -> Seq(Parts)]
    /\ slot \in Nat /\ i \in Nat /\ held \in Int
    /\ step \in {"disk", "parse", "entry", "exit"}

(* The partition scan waits for the disk scan, and works on disks there are. *)
Order ==
    /\ pc # "done" => step = "disk" /\ slot = 0
    /\ step # "disk" => slot \in ListedSlots

(* Slots that have not been looked at. *)
Fresh(s) == s > slot \/ (s = slot /\ step = "disk")

Untouched ==
    /\ \A s \in Slots : Fresh(s) \/ (s = slot /\ step = "parse") => link_list[s] = <<>>
    /\ \A s \in Slots : Fresh(s) => s \notin failed /\ s \notin misread
    /\ \A s \in Slots : s \in failed => link_list[s] = <<>>

(* A slot whose own sector is the one to be parsed. *)
Trusted(s) == s \notin misread /\ disks[s].code \notin slow

ChunkOwn ==
    step \in {"parse", "entry"} =>
        slot \notin failed /\ (Trusted(slot) => chunk = sector0[slot])

(* The entries before i are listed, those of them that lie on the disk. *)
EntriesSoFar ==
    step = "entry" =>
        /\ chunk.sig /\ check_mbr(chunk.table) /\ i \in 1 .. (EntryCount + 1)
        /\ \/ Wraps(chunk)
           \/ ListOf(link_list[slot], chunk, {k \in OnDisk(chunk, SectCount(slot)) : k < i})

ListDone(s) ==
    \/ s \in failed /\ link_list[s] = <<>>
    \/ s \notin failed /\ (Wraps(sector0[s]) \/ Listed(link_list[s], sector0[s], SectCount(s)))

DiskDone == step = "exit" /\ Trusted(slot) => ListDone(slot)

PartInv ==
    /\ ScanInv
    /\ PartTypes /\ Order /\ Untouched /\ ChunkOwn /\ EntriesSoFar /\ DiskDone
    /\ ListsOwn
    /\ IsFiniteSet(Linked) /\ NothingLost

-----------------------------------------------------------------------------
USE BootAssumption, SupportAssumption, SizesAssumption
    DEF Codes, Scanned, NONE, Slots

(* An entry of motherlobe is not NULL. *)
LEMMA EntryFields ==
    ASSUME NEW c \in Codes, NEW n \in Nat
    PROVE  /\ Entry(c, n) \in [code : Codes \cup {NONE}, sect_count : Nat \cup {NONE}]
           /\ Entry(c, n) # NoDisk /\ Entry(c, n).code = c /\ Entry(c, n).sect_count = n
BY DEF Entry, NoDisk

(* Listed slots are the filled ones. *)
LEMMA ListedFilled ==
    ASSUME ScanTypes, Filled
    PROVE  ListedSlots = 0 .. (index - 1)
<1>1. \A s \in Slots : s < index <=> disks[s] # NoDisk
  BY DEF Filled
<1>2. index \in Nat /\ index <= 4
  BY DEF ScanTypes
<1> QED BY <1>1, <1>2 DEF ListedSlots

(* Before the disk scan. *)
LEMMA ScanInit == Init => ScanInv
<1> SUFFICES ASSUME Init PROVE ScanInv
  OBVIOUS
<1> USE DEF Init
<1>1. ScanTypes
  <2>1. size \in [Codes -> Nat \cup {NONE}]
    OBVIOUS
  <2>2. NoDisk \in [code : Codes \cup {NONE}, sect_count : Nat \cup {NONE}]
    BY DEF NoDisk, Entry
  <2> QED BY <2>1, <2>2 DEF ScanTypes
<1>2. Scanning
  BY DEF Scanning, Started
<1>3. Filled /\ Apart
  BY DEF Filled, Apart
<1>4. ListedSlots = {}
  BY DEF ListedSlots
<1>5. BufferOwn /\ NothingOwed /\ SizeOwnIfGot
  BY <1>4 DEF BufferOwn, NothingOwed, SizeOwnIfGot
<1> QED BY <1>1, <1>2, <1>3, <1>5 DEF ScanInv

(* get_disk_info leaves the list alone; when it got no identity, slow says   *)
(* so.                                                                       *)
InfoGot(c) ==
    /\ buf' \in Nat
    /\ c \notin slow' => buf' = size[c] /\ c \notin owes'
    /\ \A d \in Codes : d # c => (d \in slow' <=> d \in slow) /\ (d \in owes' <=> d \in owes)
    /\ \A d \in Codes : d \in slow => d \in slow'

(* Each way through get_disk_info. *)
LEMMA InfoFacts ==
    ASSUME ScanTypes, NEW c \in Codes, get_disk_info(c)
    PROVE  InfoGot(c)
<1>1. size[c] # NONE => size[c] \in Nat
  BY DEF ScanTypes
<1> QED BY <1>1 DEF get_disk_info, InfoGot, ScanTypes

(* The boot drive is asked for its identity. *)
LEMMA BootInfoKeeps ==
    ASSUME ScanInv, BootInfo
    PROVE  ScanInv'
<1> USE DEF ScanInv
<1>0. /\ pc = "boot_info" /\ pc' = "boot_entry" /\ UNCHANGED <<size, disks, index, code>>
      /\ InfoGot(BootDrive) /\ index = 0
  BY InfoFacts DEF BootInfo, Scanning, Started
<1>1. ListedSlots' = {}
  BY <1>0 DEF ListedSlots, Filled, ScanTypes
<1>2. ScanTypes' /\ Scanning' /\ Filled' /\ Apart'
  BY <1>0 DEF ScanTypes, Scanning, Filled, Apart, Started, InfoGot
<1>3. BufferOwn' /\ NothingOwed' /\ SizeOwnIfGot'
  BY <1>0, <1>1 DEF BufferOwn, NothingOwed, SizeOwnIfGot, InfoGot
<1> QED BY <1>2, <1>3

(* A slot is filled: the next one. *)
LEMMA EntryKeeps ==
    ASSUME ScanInv, NEW c \in Codes, size[c] # NONE,
           disks' = [disks EXCEPT ![index] = Entry(c, buf)], index' = index + 1,
           index <= 3, pc' = "probe", code' \in 129 .. 132, index' <= code' - 128,
           index = 0 => c = BootDrive,
           index > 0 => c = code /\ code \in Scanned,
           code' = (IF index = 0 THEN 129 ELSE code + 1),
           c \notin slow => buf = size[c] /\ c \notin owes, pc # "info",
           UNCHANGED <<size, owes, buf, slow>>
    PROVE  ScanInv'
<1> USE DEF ScanInv
<1>1. /\ index \in Nat /\ index \in Slots /\ buf \in Nat
      /\ disks \in [Slots -> [code : Codes \cup {NONE}, sect_count : Nat \cup {NONE}]]
  BY DEF ScanTypes
<1>2. /\ disks'[index].code = c /\ disks'[index].sect_count = buf /\ disks'[index] # NoDisk
      /\ \A s \in Slots : s # index => disks'[s] = disks[s]
      /\ disks' \in [Slots -> [code : Codes \cup {NONE}, sect_count : Nat \cup {NONE}]]
  BY <1>1, EntryFields
<1>3. ScanTypes'
  BY <1>1, <1>2 DEF ScanTypes
<1>4. Scanning'
  BY <1>1 DEF Scanning, Started
<1>5. Filled'
  <2>1. SUFFICES ASSUME NEW s \in Slots
                 PROVE /\ s < index' <=> disks'[s] # NoDisk
                       /\ s < index' =>
                            /\ disks'[s].code \in Codes /\ disks'[s].sect_count \in Nat
                            /\ size'[disks'[s].code] # NONE
                            /\ s = 0 => disks'[s].code = BootDrive
                            /\ s > 0 => disks'[s].code \in 129 .. (code' - 1)
    BY DEF Filled
  <2>2. CASE s = index
    BY <1>1, <1>2, <2>2
  <2>3. CASE s # index
    <3>1. /\ disks'[s] = disks[s] /\ size' = size
          /\ s < index <=> disks[s] # NoDisk
          /\ s < index' <=> s < index
      BY <1>1, <1>2, <2>3 DEF Filled
    <3>2. CASE s < index
      <4>1. code' - 1 = code /\ index > 0
        BY <1>1, <3>2
      <4>2. /\ disks[s].code \in Codes /\ disks[s].sect_count \in Nat
            /\ size[disks[s].code] # NONE
            /\ s = 0 => disks[s].code = BootDrive
            /\ s > 0 => disks[s].code \in 129 .. (code - 1)
        BY <3>2 DEF Filled
      <4>3. code - 1 <= code' - 1 /\ code \in Int
        BY <1>1, <4>1
      <4> HIDE DEF ScanInv
      <4> QED BY <3>1, <4>2, <4>3
    <3>3. CASE ~ (s < index)
      BY <3>1, <3>3
    <3> QED BY <3>2, <3>3
  <2> QED BY <2>2, <2>3
<1>6. Apart'
  <2>1. SUFFICES ASSUME NEW s \in Slots, NEW t \in Slots, 0 < s, s < t, t < index'
                 PROVE  disks'[s].code # disks'[t].code
    BY DEF Apart
  <2>2. CASE t = index
    <3>1. disks[s].code \in 129 .. (code - 1) /\ disks'[s] = disks[s]
      BY <1>1, <1>2, <2>1, <2>2 DEF Filled
    <3> QED BY <1>1, <1>2, <2>1, <2>2, <3>1
  <2>3. CASE t # index
    BY <1>1, <1>2, <2>1, <2>3 DEF Apart
  <2> QED BY <2>2, <2>3
<1>7. ListedSlots' = ListedSlots \cup {index}
  BY <1>1, <1>2 DEF ListedSlots
<1>8. BufferOwn' /\ NothingOwed' /\ SizeOwnIfGot'
  <2>1. BufferOwn'
    BY DEF BufferOwn
  <2>2. ASSUME NEW s \in ListedSlots', disks'[s].code \notin slow'
        PROVE  /\ disks'[s].sect_count = size'[disks'[s].code]
               /\ disks'[s].code \notin owes'
    <3>1. CASE s = index
      BY <1>2, <2>2, <3>1
    <3>2. CASE s # index
      <4>1. s \in ListedSlots /\ disks'[s] = disks[s]
        BY <1>2, <1>7, <3>2 DEF ListedSlots
      <4> QED BY <2>2, <4>1 DEF SizeOwnIfGot, NothingOwed
    <3> QED BY <3>1, <3>2
  <2> QED BY <2>1, <2>2 DEF NothingOwed, SizeOwnIfGot
<1> QED BY <1>3, <1>4, <1>5, <1>6, <1>8

(* Slot 0. *)
LEMMA BootEntryKeeps ==
    ASSUME ScanInv, BootEntry
    PROVE  ScanInv'
<1>1. /\ index = 0 /\ size[BootDrive] # NONE /\ BootDrive \in Codes
      /\ BootDrive \notin slow => buf = size[BootDrive] /\ BootDrive \notin owes
  BY DEF ScanInv, BootEntry, Scanning, Started, ScanTypes, BufferOwn, NothingOwed
<1>2. /\ disks' = [disks EXCEPT ![index] = Entry(BootDrive, buf)]
      /\ index' = index + 1 /\ code' = 129 /\ pc' = "probe" /\ pc # "info"
      /\ UNCHANGED <<size, owes, buf, slow>>
  BY <1>1 DEF BootEntry
<1>3. code' \in 129 .. 132 /\ index' <= code' - 128 /\ index <= 3 /\ ~ (index > 0)
      /\ code' = (IF index = 0 THEN 129 ELSE code + 1)
  BY <1>1, <1>2
<1> QED BY <1>1, <1>2, <1>3, EntryKeeps

(* The slot of a drive found. *)
LEMMA DiskEntryKeeps ==
    ASSUME ScanInv, DiskEntry
    PROVE  ScanInv'
<1>1. /\ index \in 1 .. 3 /\ code \in Scanned /\ index <= code - 128 /\ size[code] # NONE
      /\ code \notin slow => buf = size[code] /\ code \notin owes
  BY DEF ScanInv, DiskEntry, Scanning, Started, ScanTypes, BufferOwn, NothingOwed
<1>2. /\ disks' = [disks EXCEPT ![index] = Entry(code, buf)]
      /\ index' = index + 1 /\ code' = code + 1 /\ pc' = "probe" /\ pc # "info"
      /\ UNCHANGED <<size, owes, buf, slow>>
  BY DEF DiskEntry
<1>3. code \in Codes /\ code' \in 129 .. 132 /\ index' <= code' - 128 /\ index <= 3
      /\ index # 0
  BY <1>1, <1>2
<1> QED BY <1>1, <1>2, <1>3, EntryKeeps

(* A drive found is asked for its identity. *)
LEMMA InfoKeeps ==
    ASSUME ScanInv, Info
    PROVE  ScanInv'
<1> USE DEF ScanInv
<1>0. /\ pc = "info" /\ pc' = "entry" /\ UNCHANGED <<size, disks, index, code>>
      /\ InfoGot(code) /\ code \in Scanned /\ size[code] # NONE
  BY InfoFacts DEF Info, Scanning
<1>1. ListedSlots' = ListedSlots
  BY <1>0 DEF ListedSlots
<1>2. ScanTypes' /\ Scanning' /\ Filled' /\ Apart'
  BY <1>0 DEF ScanTypes, Scanning, Filled, Apart, Started, InfoGot
<1>3. BufferOwn'
  BY <1>0 DEF BufferOwn, InfoGot
<1>4. ASSUME NEW s \in ListedSlots, disks[s].code \notin slow'
      PROVE  disks[s].sect_count = size[disks[s].code] /\ disks[s].code \notin owes'
  <2>1. disks[s].code \in Codes
    BY ListedFilled DEF Filled, ListedSlots
  <2> QED BY <1>0, <1>4, <2>1 DEF SizeOwnIfGot, NothingOwed, InfoGot
<1>5. NothingOwed' /\ SizeOwnIfGot'
  BY <1>0, <1>1, <1>4 DEF NothingOwed, SizeOwnIfGot, InfoGot
<1> QED BY <1>2, <1>3, <1>5

(* check_disk. *)
LEMMA ProbeKeeps ==
    ASSUME ScanInv, ProbeNothing \/ ProbeFound
    PROVE  ScanInv'
<1> USE DEF ScanInv
<1>0. /\ pc = "probe" /\ code \in Scanned
      /\ UNCHANGED <<size, buf, disks, index>>
      /\ \/ /\ pc' = "probe" /\ code' = code + 1
            /\ \/ owes' = owes /\ slow' = slow
               \/ owes' = owes \cup {code} /\ slow' = slow \cup {code}
         \/ /\ pc' = "info" /\ code' = code /\ size[code] # NONE
            /\ owes' = owes \cup {code} /\ slow' = slow
  BY DEF ProbeNothing, ProbeFound
<1>1. ListedSlots' = ListedSlots
  BY <1>0 DEF ListedSlots
<1>2. ScanTypes' /\ Scanning' /\ Filled' /\ Apart'
  <2>1. ScanTypes' /\ Apart'
    BY <1>0 DEF ScanTypes, Apart
  <2>2. Scanning'
    BY <1>0 DEF Scanning, Started, ScanTypes
  <2>3. code \in 129 .. 131 /\ code' \in 129 .. 132 /\ code - 1 <= code' - 1
    BY <1>0
  <2>4. Filled'
    BY <1>0, <2>3 DEF Filled
  <2> QED BY <2>1, <2>2, <2>4
<1>3. BufferOwn' /\ SizeOwnIfGot'
  BY <1>0, <1>1 DEF BufferOwn, SizeOwnIfGot
<1>4. NothingOwed'
  BY <1>0, <1>1 DEF NothingOwed
<1> QED BY <1>2, <1>3, <1>4

(* The disk scan ends. *)
LEMMA ScanDoneKeeps ==
    ASSUME ScanInv, ScanDone
    PROVE  ScanInv'
BY DEF ScanDone, ScanInv, ScanTypes, Scanning, Filled, Apart, Started, BufferOwn, NothingOwed,
       SizeOwnIfGot, ListedSlots

(* After the disk scan only the debts of drives change, and become fewer. *)
LEMMA ScanKept ==
    ASSUME ScanInv, UNCHANGED <<size, buf, disks, index, code, pc, slow>>, owes' \subseteq owes
    PROVE  ScanInv'
BY DEF ScanInv, ScanTypes, Scanning, Filled, Apart, Started, BufferOwn, NothingOwed,
       SizeOwnIfGot, ListedSlots

(* Every step of the disk scan. *)
LEMMA ScanStep ==
    ASSUME ScanInv, Next
    PROVE  ScanInv'
BY BootInfoKeeps, BootEntryKeeps, ProbeKeeps, InfoKeeps, DiskEntryKeeps, ScanDoneKeeps DEF Next

-----------------------------------------------------------------------------
(* Lists. *)
USE CountAssumption, WordAssumption, TableAssumption

(* An entry appended to a list of entries before it. *)
LEMMA ListGrows ==
    ASSUME NEW sect, NEW K \in SUBSET (1 .. EntryCount), NEW m \in 1 .. EntryCount,
           \A k \in K : k < m,
           NEW list \in Seq(Parts), FromEntry(sect.table[m]) \in Parts, ListOf(list, sect, K)
    PROVE  ListOf(Append(list, FromEntry(sect.table[m])), sect, K \cup {m})
<1> DEFINE new == Append(list, FromEntry(sect.table[m]))
           before(S, k) == {j \in S : j <= k}
<1>1. IsFiniteSet(K) /\ Cardinality(K) \in Nat /\ m \notin K
  <2>1. IsFiniteSet(1 .. EntryCount)
    BY FS_Interval
  <2>2. IsFiniteSet(K)
    BY <2>1, FS_Subset
  <2> QED BY <2>2, FS_CardinalityType
<1>2. Cardinality(K \cup {m}) = Cardinality(K) + 1
  BY <1>1, FS_AddElement
<1>3. /\ Len(list) = Cardinality(K)
      /\ Len(new) = Cardinality(K) + 1
      /\ new[Cardinality(K) + 1] = FromEntry(sect.table[m])
      /\ \A p \in 1 .. Cardinality(K) : new[p] = list[p]
  BY <1>1 DEF ListOf
<1>4. ASSUME NEW k \in K \cup {m}
      PROVE  new[Cardinality(before(K \cup {m}, k))] = FromEntry(sect.table[k])
  <2>1. CASE k = m
    <3>1. before(K \cup {m}, k) = K \cup {m}
      BY <2>1
    <3> QED BY <1>2, <1>3, <2>1, <3>1
  <2>2. CASE k \in K
    <3>1. before(K \cup {m}, k) = before(K, k)
      BY <2>2
    <3>2. IsFiniteSet(before(K, k)) /\ Cardinality(before(K, k)) <= Cardinality(K)
      <4>1. before(K, k) \in SUBSET K
        OBVIOUS
      <4> HIDE DEF before
      <4> QED BY <1>1, <4>1, FS_Subset
    <3>3. Cardinality(before(K, k)) \in 1 .. Cardinality(K)
      <4>1. k \in before(K, k)
        BY <2>2
      <4>2. before(K, k) # {}
        BY <4>1
      <4> HIDE DEF before
      <4>3. Cardinality(before(K, k)) \in Nat /\ Cardinality(before(K, k)) # 0
        BY <3>2, <4>2, FS_CardinalityType, FS_EmptySet
      <4> QED BY <1>1, <3>2, <4>3
    <3>4. list[Cardinality(before(K, k))] = FromEntry(sect.table[k])
      BY <2>2 DEF ListOf
    <3> HIDE DEF new, before
    <3> QED BY <1>3, <3>1, <3>3, <3>4
  <2> QED BY <1>4, <2>1, <2>2
<1> HIDE DEF new
<1>5. Len(new) = Cardinality(K \cup {m})
  BY <1>2, <1>3
<1>6. ListOf(new, sect, K \cup {m})
  BY <1>4, <1>5 DEF ListOf
<1> QED BY <1>6 DEF new

(* A list of nothing. *)
LEMMA ListStarts ==
    ASSUME NEW sect
    PROVE  ListOf(<<>>, sect, {})
BY FS_EmptySet DEF ListOf

(* One more partition is linked. *)
LEMMA LinkAdded ==
    ASSUME PartTypes, slot \in Slots, NEW p \in Parts, IsFiniteSet(Linked),
           link_list' = [link_list EXCEPT ![slot] = Append(@, p)]
    PROVE  IsFiniteSet(Linked') /\ Cardinality(Linked') = Cardinality(Linked) + 1
<1> DEFINE new == <<slot, Len(link_list[slot]) + 1>>
<1>1. link_list[slot] \in Seq(Parts) /\ Len(link_list[slot]) \in Nat
  BY DEF PartTypes
<1>2. /\ \A s \in Slots : s # slot => link_list'[s] = link_list[s]
      /\ Len(link_list'[slot]) = Len(link_list[slot]) + 1
  BY <1>1 DEF PartTypes
<1>3. \A x : x \in Linked <=> \E s \in Slots : \E k \in 1 .. Len(link_list[s]) : x = <<s, k>>
  BY DEF Linked
<1>4. \A x : x \in Linked' <=> \E s \in Slots : \E k \in 1 .. Len(link_list'[s]) : x = <<s, k>>
  BY DEF Linked
<1>5. new \notin Linked
  BY <1>1, <1>3
<1>6. Linked' = Linked \cup {new}
  <2>1. ASSUME NEW x \in Linked' PROVE x \in Linked \cup {new}
    <3>0. PICK s \in Slots : \E k \in 1 .. Len(link_list'[s]) : x = <<s, k>>
      BY <1>4, <2>1
    <3>1. PICK k \in 1 .. Len(link_list'[s]) : x = <<s, k>>
      BY <3>0
    <3>2. CASE s = slot
      BY <1>1, <1>2, <1>3, <3>1, <3>2
    <3>3. CASE s # slot
      BY <1>2, <1>3, <3>1, <3>3
    <3> QED BY <3>2, <3>3
  <2>2. ASSUME NEW x \in Linked PROVE x \in Linked'
    <3>0. PICK s \in Slots : \E k \in 1 .. Len(link_list[s]) : x = <<s, k>>
      BY <1>3, <2>2
    <3>1. PICK k \in 1 .. Len(link_list[s]) : x = <<s, k>>
      BY <3>0
    <3>2. k \in 1 .. Len(link_list'[s])
      BY <1>1, <1>2, <3>1
    <3> QED BY <1>4, <3>1, <3>2
  <2>3. new \in Linked'
    <3>1. Len(link_list[slot]) + 1 \in 1 .. Len(link_list'[slot])
      BY <1>1, <1>2
    <3> QED BY <1>4, <3>1
  <2> QED BY <2>1, <2>2, <2>3
<1> HIDE DEF new
<1> QED BY <1>5, <1>6, FS_AddElement

-----------------------------------------------------------------------------
(* The partition scan's steps. *)

(* Before it. *)
LEMMA PartInit == BootInit => PartInv
<1> SUFFICES ASSUME BootInit PROVE PartInv
  OBVIOUS
<1> USE DEF BootInit
<1>1. ScanInv
  BY ScanInit
<1>2. <<>> \in Seq(Parts)
  OBVIOUS
<1>3. PartTypes
  BY <1>2 DEF PartTypes, SectorType
<1>4. Order /\ ChunkOwn /\ EntriesSoFar /\ DiskDone
  BY DEF Order, ChunkOwn, EntriesSoFar, DiskDone
<1>5. Untouched /\ ListsOwn
  BY DEF Untouched, ListsOwn, ListedSlots
<1>6. Linked = {}
  BY DEF Linked
<1>7. IsFiniteSet(Linked) /\ NothingLost
  BY <1>6, FS_EmptySet DEF NothingLost
<1> QED BY <1>1, <1>3, <1>4, <1>5, <1>7 DEF PartInv

(* Nothing happens. *)
LEMMA PartStutter == PartInv /\ UNCHANGED bvars => PartInv'
<1> SUFFICES ASSUME PartInv, UNCHANGED bvars PROVE PartInv'
  OBVIOUS
<1> USE DEF PartInv, bvars, vars, scan
<1>1. ScanInv'
  BY ScanKept
<1>2. PartTypes' /\ Order' /\ Untouched'
  BY DEF PartTypes, Order, Untouched, Fresh, ListedSlots
<1>3. ChunkOwn' /\ EntriesSoFar' /\ DiskDone' /\ ListsOwn'
  BY DEF ChunkOwn, EntriesSoFar, DiskDone, ListsOwn, Trusted, ListDone, SectCount, ListedSlots
<1>4. IsFiniteSet(Linked') /\ NothingLost'
  BY DEF NothingLost, Linked
<1> QED BY <1>1, <1>2, <1>3, <1>4

(* The disk scan, while the partition scan waits. *)
LEMMA WhileScanning ==
    ASSUME PartInv, Next, UNCHANGED scan
    PROVE  PartInv'
<1> USE DEF PartInv, scan
<1>1. ScanInv'
  BY ScanStep
<1>2. pc # "done"
  BY DEF Next, BootInfo, BootEntry, ProbeNothing, ProbeFound, Info, DiskEntry, ScanDone
<1>3. step = "disk" /\ slot = 0
  BY <1>2 DEF Order
<1>4. PartTypes' /\ Order' /\ Untouched'
  BY <1>3 DEF PartTypes, Order, Untouched, Fresh
<1>5. ChunkOwn' /\ EntriesSoFar' /\ DiskDone' /\ ListsOwn'
  BY <1>3 DEF ChunkOwn, EntriesSoFar, DiskDone, ListsOwn, ListedSlots
<1>6. IsFiniteSet(Linked') /\ NothingLost'
  BY DEF NothingLost, Linked
<1> QED BY <1>1, <1>4, <1>5, <1>6

(* The lists of the disks before are left alone. *)
LEMMA ListsKept ==
    ASSUME ListsOwn, slot' = slot, UNCHANGED <<disks, slow>>,
           \A s \in Slots : s < slot =>
               /\ link_list'[s] = link_list[s] /\ sector0'[s] = sector0[s]
               /\ s \in failed' <=> s \in failed
               /\ s \in misread' <=> s \in misread
    PROVE  ListsOwn'
<1>1. ListedSlots' = ListedSlots /\ \A s : SectCount(s)' = SectCount(s)
  BY DEF ListedSlots, SectCount
<1> QED BY <1>1 DEF ListsOwn, ListedSlots

(* A listed slot has a disk. *)
LEMMA ListedDisk ==
    ASSUME PartInv, slot \in ListedSlots
    PROVE  slot \in Slots /\ SectCount(slot) \in Nat /\ disks[slot] # NoDisk
<1>1. slot \in Slots /\ disks[slot] # NoDisk
  BY DEF ListedSlots
<1>2. slot < index
  BY <1>1 DEF PartInv, ScanInv, Filled
<1> QED BY <1>1, <1>2 DEF PartInv, ScanInv, Filled, SectCount

(* An empty slot. *)
LEMMA SkipKeeps ==
    ASSUME PartInv, SkipSlot
    PROVE  PartInv'
<1> USE DEF PartInv, SkipSlot, AtSlot, At
<1>0. /\ pc = "done" /\ step = "disk" /\ slot \in Slots /\ disks[slot] = NoDisk
      /\ slot' = slot + 1 /\ slot \in Nat /\ slot \notin ListedSlots
      /\ UNCHANGED <<vars, sector0, chunk, link_list, i, step, held, failed, misread>>
  BY DEF ListedSlots, PartTypes
<1> HIDE DEF SkipSlot, AtSlot, At
<1>1. ScanInv'
  BY <1>0, ScanKept DEF vars
<1>2. PartTypes' /\ Order'
  BY <1>0 DEF PartTypes, Order, vars
<1>3. Untouched'
  BY <1>0 DEF Untouched, Fresh
<1>4. ChunkOwn' /\ EntriesSoFar' /\ DiskDone'
  BY <1>0 DEF ChunkOwn, EntriesSoFar, DiskDone
<1>5. ListsOwn'
  <2>1. ListedSlots' = ListedSlots /\ \A s : SectCount(s)' = SectCount(s)
    BY <1>0 DEF ListedSlots, SectCount, vars
  <2>2. \A s \in ListedSlots : s < slot' => s < slot
    BY <1>0 DEF ListedSlots
  <2> QED BY <1>0, <2>1, <2>2 DEF ListsOwn, vars
<1>6. IsFiniteSet(Linked') /\ NothingLost'
  BY <1>0 DEF NothingLost, Linked
<1> QED BY <1>1, <1>2, <1>3, <1>4, <1>5, <1>6

(* What the four outcomes of the read of sector 0 have in common: the list   *)
(* was empty and stays so, and one chunk is taken.                           *)
ReadStarts ==
    /\ pc = "done" /\ step = "disk" /\ slot \in ListedSlots /\ slot \in Slots
    /\ slot \notin failed /\ slot \notin misread /\ link_list[slot] = <<>>
    /\ link_list' = link_list /\ held' = held + 1 /\ slot' = slot /\ i' = i
    /\ UNCHANGED <<size, buf, disks, index, code, pc, slow>> /\ owes' \subseteq owes
    /\ \A s \in Slots : s # slot =>
          /\ sector0'[s] = sector0[s]
          /\ s \in failed' <=> s \in failed
          /\ s \in misread' <=> s \in misread
    /\ chunk' \in SectorType /\ sector0' \in [Slots -> SectorType \cup {NONE}]

(* What a read gives has the fields of a sector. *)
LEMMA SectorsTyped == Sectors \subseteq SectorType
BY DEF Sectors, SectorType

(* Each outcome of the read. *)
LEMMA ReadFacts ==
    ASSUME PartInv, ReadSector \/ ReadFails \/ ReadErr \/ ReadIdentity
    PROVE  ReadStarts
<1>0. /\ pc = "done" /\ step = "disk" /\ slot \in Slots /\ slot' = slot /\ i' = i
      /\ link_list' = [link_list EXCEPT ![slot] = <<>>] /\ held' = held + 1
      /\ UNCHANGED <<size, buf, disks, index, code, pc, slow>> /\ owes' \subseteq owes
  BY DEF ReadSector, ReadFails, ReadErr, ReadIdentity, AtSlot, At, vars
<1>1. disks[slot] # NoDisk
  <2>1. SectCount(slot) >= 1 \/ disks[slot] # NoDisk
    BY DEF ReadSector, ReadFails, ReadErr, ReadIdentity, AtSlot
  <2>2. NoDisk.sect_count = -1
    BY DEF NoDisk, Entry
  <2> QED BY <2>1, <2>2 DEF SectCount
<1>2. slot \in ListedSlots
  BY <1>0, <1>1 DEF ListedSlots
<1>3. slot \notin failed /\ slot \notin misread /\ link_list[slot] = <<>>
  BY <1>0 DEF PartInv, Untouched, Fresh
<1>4. link_list' = link_list
  BY <1>0, <1>3 DEF PartInv, PartTypes
<1>5. /\ \A s \in Slots : s # slot =>
            /\ sector0'[s] = sector0[s]
            /\ s \in failed' <=> s \in failed
            /\ s \in misread' <=> s \in misread
      /\ chunk' \in SectorType /\ sector0' \in [Slots -> SectorType \cup {NONE}]
  <2>1. chunk \in SectorType /\ sector0 \in [Slots -> SectorType \cup {NONE}]
    BY DEF PartInv, PartTypes
  <2>2. CASE ReadSector
    <3>1. PICK s \in Sectors : chunk' = s /\ sector0' = [sector0 EXCEPT ![slot] = s]
      BY <2>2 DEF ReadSector
    <3>2. s \in SectorType
      BY <3>1, SectorsTyped
    <3>3. failed' = failed /\ misread' = misread
      BY <2>2 DEF ReadSector
    <3> QED BY <1>0, <2>1, <3>1, <3>2, <3>3
  <2>3. CASE ReadFails \/ ReadErr
    BY <2>1, <2>3 DEF ReadFails, ReadErr
  <2>4. CASE ReadIdentity
    BY <2>1, <2>4, SectorsTyped DEF ReadIdentity
  <2> QED BY <2>2, <2>3, <2>4
<1> QED BY <1>0, <1>2, <1>3, <1>4, <1>5 DEF ReadStarts

(* Sector 0 is read, or not. *)
LEMMA ReadKeeps ==
    ASSUME PartInv, ReadSector \/ ReadFails \/ ReadErr \/ ReadIdentity
    PROVE  PartInv'
<1>0. ReadStarts
  BY ReadFacts
<1> USE DEF ReadStarts
<1>1. ScanInv'
  BY <1>0, ScanKept DEF PartInv
<1>2. \/ step' = "exit" /\ slot \in failed' /\ misread' = misread
      \/ step' = "parse" /\ failed' = failed
  BY DEF ReadSector, ReadFails, ReadErr, ReadIdentity
<1>3. PartTypes'
  BY <1>0, <1>2 DEF PartInv, PartTypes
<1>4. ListedSlots' = ListedSlots
  BY <1>0 DEF ListedSlots
<1>5. Order'
  BY <1>0, <1>4 DEF Order
<1>6. Untouched'
  BY <1>0, <1>2 DEF PartInv, Untouched, Fresh, PartTypes
<1>7. ChunkOwn'
  <2>1. SUFFICES ASSUME step' = "parse", Trusted(slot)' PROVE chunk' = sector0'[slot]
    BY <1>0, <1>2 DEF ChunkOwn
  <2>2. slot \notin misread' /\ disks[slot].code \notin slow
    BY <1>0, <2>1 DEF Trusted
  <2>3. disks[slot].code \notin owes
    BY <1>0, <2>2 DEF PartInv, ScanInv, NothingOwed
  <2>4. ReadSector
    BY <2>1, <2>2, <2>3 DEF ReadFails, ReadErr, ReadIdentity
  <2> QED BY <1>0, <2>4 DEF ReadSector, PartInv, PartTypes
<1>8. EntriesSoFar' /\ DiskDone'
  BY <1>0, <1>2 DEF EntriesSoFar, DiskDone, ListDone
<1>9. ListsOwn'
  <2>1. slot \in Nat
    BY <1>0
  <2> QED BY <1>0, <2>1, ListsKept DEF PartInv
<1>10. IsFiniteSet(Linked') /\ NothingLost'
  <2>1. Linked' = Linked
    BY <1>0 DEF Linked
  <2>2. /\ IsFiniteSet(Linked) /\ held = Cardinality(Linked)
        /\ held' = held + 1 /\ step' # "disk"
    BY <1>0, <1>2, FS_CardinalityType DEF PartInv, NothingLost
  <2> QED BY <2>1, <2>2 DEF NothingLost
<1> QED BY <1>1, <1>3, <1>5, <1>6, <1>7, <1>8, <1>9, <1>10 DEF PartInv

(* What the steps on a sector in the chunk have in common. *)
Parsing ==
    /\ pc = "done" /\ step # "disk" /\ slot \in ListedSlots /\ slot \in Slots
    /\ UNCHANGED <<vars, sector0, chunk, slot, failed, misread>>
    /\ \A s \in Slots : s # slot => link_list'[s] = link_list[s]

(* Such a step keeps what is not about the list at hand. *)
LEMMA ParsingKeeps ==
    ASSUME PartInv, Parsing
    PROVE  /\ ScanInv' /\ ListsOwn'
           /\ step' # "disk" => Order'
           /\ \A s \in Slots : s # slot =>
                 /\ s > slot => link_list'[s] = <<>> /\ s \notin failed' /\ s \notin misread'
                 /\ s \in failed' => link_list'[s] = <<>>
<1> USE DEF Parsing
<1>1. ScanInv'
  BY ScanKept DEF PartInv, vars
<1>2. ListsOwn'
  <2>1. slot \in Nat
    OBVIOUS
  <2> QED BY <2>1, ListsKept DEF PartInv, vars
<1>3. ListedSlots' = ListedSlots
  BY DEF ListedSlots, vars
<1>4. step' # "disk" => Order'
  BY <1>3 DEF Order, vars
<1> QED BY <1>1, <1>2, <1>4 DEF PartInv, Untouched, Fresh

(* No signature, or a volume boot record: the list is made at once. *)
LEMMA NoSignatureKeeps ==
    ASSUME PartInv, NoSignature
    PROVE  PartInv'
<1>0. /\ step = "parse" /\ step' = "exit" /\ link_list' = link_list /\ i' = i /\ held' = held
      /\ Parsing /\ ~ chunk.sig
  <2>1. slot \in ListedSlots
    BY DEF NoSignature, At, PartInv, Order
  <2> QED BY <2>1, ListedDisk DEF NoSignature, At, Parsing
<1>1. ScanInv' /\ ListsOwn' /\ Order'
  BY <1>0, ParsingKeeps
<1>2. PartTypes' /\ Untouched'
  BY <1>0 DEF PartInv, PartTypes, Untouched, Fresh, Parsing
<1>3. ChunkOwn' /\ EntriesSoFar'
  BY <1>0 DEF ChunkOwn, EntriesSoFar
<1>4. DiskDone'
  <2>1. SUFFICES ASSUME Trusted(slot)' PROVE ListDone(slot)'
    BY <1>0 DEF DiskDone, Parsing
  <2>2. Trusted(slot)
    BY <1>0, <2>1 DEF Trusted, Parsing, vars
  <2>3. slot \notin failed /\ chunk = sector0[slot] /\ link_list[slot] = <<>>
    BY <1>0, <2>2 DEF PartInv, ChunkOwn, Untouched, Parsing
  <2> QED BY <1>0, <2>3 DEF ListDone, Listed, Parsing
<1>5. IsFiniteSet(Linked') /\ NothingLost'
  BY <1>0 DEF PartInv, NothingLost, Linked
<1> QED BY <1>1, <1>2, <1>3, <1>4, <1>5 DEF PartInv

(* A partition is linked at the end of the list at hand. *)
LEMMA LinkKeeps ==
    ASSUME PartInv, Parsing, NEW p \in Parts, step' # "disk",
           link_list' = [link_list EXCEPT ![slot] = Append(@, p)], held' = held + 1
    PROVE  /\ IsFiniteSet(Linked') /\ NothingLost'
           /\ link_list' \in [Slots -> Seq(Parts)]
<1>1. PartTypes /\ slot \in Slots /\ IsFiniteSet(Linked) /\ step # "disk"
      /\ held = Cardinality(Linked) + 1
  BY DEF PartInv, Parsing, NothingLost
<1>2. IsFiniteSet(Linked') /\ Cardinality(Linked') = Cardinality(Linked) + 1
  BY <1>1, LinkAdded
<1>3. Append(link_list[slot], p) \in Seq(Parts)
  BY <1>1 DEF PartTypes
<1>4. link_list' \in [Slots -> Seq(Parts)]
  BY <1>1, <1>3 DEF PartTypes
<1> QED BY <1>1, <1>2, <1>4 DEF NothingLost

(* A volume boot record is the one partition. *)
LEMMA VbrKeeps ==
    ASSUME PartInv, Vbr
    PROVE  PartInv'
<1> DEFINE p == FromVbr(chunk, SectCount(slot))
<1>0. slot \in ListedSlots
  BY DEF Vbr, At, PartInv, Order
<1>1. slot \in Slots /\ SectCount(slot) \in Nat /\ link_list[slot] = <<>>
      /\ slot \notin failed /\ slot \in Nat
  BY <1>0, ListedDisk DEF Vbr, At, PartInv, Untouched, ChunkOwn
<1>2. link_list \in [Slots -> Seq(Parts)] /\ chunk.vbr \in VbrTypes
  BY DEF PartInv, PartTypes, SectorType
<1>3. /\ step = "parse" /\ step' = "exit" /\ i' = i /\ held' = held + 1
      /\ chunk.sig /\ ~ check_mbr(chunk.table)
      /\ link_list' = [link_list EXCEPT ![slot] = <<p>>]
  BY DEF Vbr, At
<1>4. Parsing
  BY <1>0, <1>1, <1>2 DEF Vbr, At, Parsing
<1>5. p \in Parts
  BY <1>1, <1>2 DEF FromVbr, Parts, VbrParts
<1> HIDE DEF p
<1>6. link_list' = [link_list EXCEPT ![slot] = Append(@, p)]
  <2>1. Append(<<>>, p) = <<p>>
    OBVIOUS
  <2> QED BY <1>1, <1>2, <1>3, <2>1
<1>7. IsFiniteSet(Linked') /\ NothingLost' /\ link_list' \in [Slots -> Seq(Parts)]
  BY <1>3, <1>4, <1>5, <1>6, LinkKeeps
<1>8. ScanInv' /\ ListsOwn' /\ Order'
  BY <1>3, <1>4, ParsingKeeps
<1>9. PartTypes'
  BY <1>3, <1>4, <1>7 DEF PartInv, PartTypes, Parsing
<1>10. Untouched'
  BY <1>1, <1>3, <1>4, ParsingKeeps DEF Untouched, Fresh, Parsing
<1>11. ChunkOwn' /\ EntriesSoFar'
  BY <1>3 DEF ChunkOwn, EntriesSoFar
<1>12. DiskDone'
  <2>1. SUFFICES ASSUME Trusted(slot)' PROVE ListDone(slot)'
    BY <1>3, <1>4 DEF DiskDone, Parsing
  <2>2. Trusted(slot)
    BY <1>4, <2>1 DEF Trusted, Parsing, vars
  <2>3. chunk = sector0[slot]
    BY <1>3, <2>2 DEF PartInv, ChunkOwn
  <2>4. link_list'[slot] = <<FromVbr(sector0[slot], SectCount(slot))>>
    BY <1>1, <1>2, <1>3, <2>3 DEF p
  <2>5. SectCount(slot)' = SectCount(slot) /\ sector0' = sector0 /\ slot \notin failed'
    BY <1>1, <1>4 DEF SectCount, Parsing, vars
  <2>6. Listed(link_list[slot], sector0[slot], SectCount(slot))'
    BY <1>3, <1>4, <2>3, <2>4, <2>5 DEF Listed, check_mbr, Parsing
  <2> QED BY <2>5, <2>6, <1>4 DEF ListDone, Parsing
<1> QED BY <1>7, <1>8, <1>9, <1>10, <1>11, <1>12 DEF PartInv

(* A master boot record: no entry has been looked at. *)
LEMMA MbrKeeps ==
    ASSUME PartInv, Mbr
    PROVE  PartInv'
<1>0. slot \in ListedSlots
  BY DEF Mbr, At, PartInv, Order
<1>1. slot \in Slots /\ link_list[slot] = <<>>
  BY <1>0, ListedDisk DEF Mbr, At, PartInv, Untouched
<1>2. /\ step = "parse" /\ step' = "entry" /\ i' = 1 /\ held' = held /\ link_list' = link_list
      /\ chunk.sig /\ check_mbr(chunk.table) /\ Parsing
  BY <1>0, <1>1 DEF Mbr, At, Parsing
<1>3. ScanInv' /\ ListsOwn' /\ Order'
  BY <1>2, ParsingKeeps
<1>4. PartTypes' /\ Untouched'
  BY <1>2 DEF PartInv, PartTypes, Untouched, Fresh, Parsing
<1>5. ChunkOwn' /\ DiskDone'
  BY <1>2 DEF PartInv, ChunkOwn, DiskDone, Trusted, Parsing, vars
<1>6. EntriesSoFar'
  <2>1. {k \in OnDisk(chunk, SectCount(slot)) : k < 1} = {}
    BY DEF OnDisk
  <2>2. ListOf(<<>>, chunk, {})
    BY ListStarts
  <2>3. ListOf(link_list[slot], chunk, {k \in OnDisk(chunk, SectCount(slot)) : k < i})'
    BY <1>1, <1>2, <2>1, <2>2 DEF Parsing, SectCount, vars
  <2> QED BY <1>2, <2>3 DEF EntriesSoFar, Parsing
<1>7. IsFiniteSet(Linked') /\ NothingLost'
  BY <1>2 DEF PartInv, NothingLost, Linked
<1> QED BY <1>3, <1>4, <1>5, <1>6, <1>7 DEF PartInv

(* The loop over the entries, as far as both branches go. *)
AtEntry ==
    /\ step = "entry" /\ step' = "entry" /\ i \in 1 .. EntryCount /\ i' = i + 1
    /\ Parsing /\ chunk.sig /\ check_mbr(chunk.table)
    /\ slot \in Slots /\ slot \notin failed /\ SectCount(slot) \in Nat
    /\ chunk.table[i] \in TableEntries

(* Each branch of the loop. *)
LEMMA EntryFacts ==
    ASSUME PartInv, NoEntry \/ Corrupted \/ LinkEntry
    PROVE  AtEntry
<1>0. /\ pc = "done" /\ step = "entry" /\ step' = "entry" /\ i <= EntryCount /\ i' = i + 1
      /\ UNCHANGED <<vars, sector0, chunk, slot, failed, misread>>
  BY DEF NoEntry, Corrupted, LinkEntry, At
<1>1. slot \in ListedSlots /\ chunk.sig /\ check_mbr(chunk.table) /\ i \in 1 .. EntryCount
      /\ slot \notin failed
  BY <1>0 DEF PartInv, Order, EntriesSoFar, ChunkOwn, PartTypes
<1>2. slot \in Slots /\ SectCount(slot) \in Nat
  BY <1>1, ListedDisk
<1>3. chunk.table[i] \in TableEntries
  <2>1. chunk.table \in Tables
    BY DEF PartInv, PartTypes, SectorType
  <2> QED BY <1>1, <2>1 DEF Tables
<1>4. \A s \in Slots : s # slot => link_list'[s] = link_list[s]
  BY <1>2 DEF NoEntry, Corrupted, LinkEntry, PartInv, PartTypes
<1> QED BY <1>0, <1>1, <1>2, <1>3, <1>4 DEF AtEntry, Parsing

(* The rest of the invariant, whatever became of the entry. *)
LEMMA EntryLoopKeeps ==
    ASSUME PartInv, AtEntry, link_list' \in [Slots -> Seq(Parts)], held' \in Int,
           Wraps(chunk) \/ ListOf(link_list'[slot], chunk,
                                  {k \in OnDisk(chunk, SectCount(slot)) : k < i + 1})
    PROVE  /\ ScanInv' /\ ListsOwn' /\ Order' /\ PartTypes' /\ Untouched' /\ ChunkOwn'
           /\ EntriesSoFar' /\ DiskDone'
<1> USE DEF AtEntry
<1>1. ScanInv' /\ ListsOwn' /\ Order'
  BY ParsingKeeps
<1>2. PartTypes'
  BY DEF PartInv, PartTypes, Parsing
<1>3. Untouched'
  BY ParsingKeeps DEF Untouched, Fresh, Parsing
<1>4. ChunkOwn' /\ DiskDone'
  BY DEF PartInv, ChunkOwn, DiskDone, Trusted, Parsing, vars
<1>5. EntriesSoFar'
  <2>1. SectCount(slot)' = SectCount(slot) /\ chunk' = chunk /\ slot' = slot
    BY DEF SectCount, Parsing, vars
  <2>2. Wraps(chunk)' \/ ListOf(link_list[slot], chunk,
                               {k \in OnDisk(chunk, SectCount(slot)) : k < i})'
    BY <2>1
  <2>3. chunk'.sig /\ check_mbr(chunk'.table) /\ i' \in 1 .. (EntryCount + 1)
    BY <2>1
  <2> QED BY <2>2, <2>3 DEF EntriesSoFar
<1> QED BY <1>1, <1>2, <1>3, <1>4, <1>5

(* An entry is on the disk exactly when the code links it, if no sum wraps. *)
LEMMA InsideOrOut ==
    ASSUME AtEntry, ~ Wraps(chunk)
    PROVE  i \in OnDisk(chunk, SectCount(slot)) <=>
               chunk.table[i].num # 0 /\ ~ Outside(chunk.table[i])
<1> DEFINE e == chunk.table[i]
<1>1. e.start \in Nat /\ e.num \in Nat /\ e.start + e.num < WordSize
  BY DEF AtEntry, Wraps
<1>2. (e.start + e.num) % WordSize = e.start + e.num
  BY <1>1
<1> HIDE DEF e
<1>3. Outside(e) <=> e.start + e.num > SectCount(slot)
  BY <1>2 DEF Outside
<1>4. i \in OnDisk(chunk, SectCount(slot)) <=> e.num > 0 /\ e.start + e.num <= SectCount(slot)
  BY DEF OnDisk, AtEntry, e
<1>5. i \in OnDisk(chunk, SectCount(slot)) <=> e.num # 0 /\ ~ Outside(e)
  BY <1>1, <1>3, <1>4 DEF AtEntry
<1> QED BY <1>5 DEF e

(* An entry that is not linked; the chunk taken for it is given back. *)
LEMMA PassedKeeps ==
    ASSUME PartInv, NoEntry \/ Corrupted
    PROVE  PartInv'
<1> DEFINE G == OnDisk(chunk, SectCount(slot))
<1>0. AtEntry
  BY EntryFacts
<1>1. /\ link_list' = link_list /\ held' = held
      /\ chunk.table[i].num = 0 \/ Outside(chunk.table[i])
  BY DEF NoEntry, Corrupted
<1>2. Wraps(chunk) \/ ListOf(link_list[slot], chunk, {k \in G : k < i})
  BY <1>0 DEF PartInv, EntriesSoFar, AtEntry
<1>3. ~ Wraps(chunk) => {k \in G : k < i + 1} = {k \in G : k < i}
  <2>1. ~ Wraps(chunk) => i \notin G
    BY <1>0, <1>1, InsideOrOut
  <2>2. G \subseteq 1 .. EntryCount /\ i \in 1 .. EntryCount
    BY <1>0 DEF OnDisk, AtEntry
  <2> HIDE DEF G
  <2>3. ASSUME ~ Wraps(chunk), NEW k \in G PROVE k < i + 1 <=> k < i
    <3>1. k \in Int /\ i \in Int /\ k # i
      BY <2>1, <2>2, <2>3
    <3> QED BY <3>1
  <2> QED BY <2>3
<1>4. Wraps(chunk) \/ ListOf(link_list'[slot], chunk, {k \in G : k < i + 1})
  BY <1>1, <1>2, <1>3
<1>5. link_list' \in [Slots -> Seq(Parts)] /\ held' \in Int
  BY <1>1 DEF PartInv, PartTypes
<1>6. IsFiniteSet(Linked') /\ NothingLost'
  BY <1>0, <1>1 DEF PartInv, NothingLost, Linked, AtEntry
<1> QED BY <1>0, <1>4, <1>5, <1>6, EntryLoopKeeps DEF PartInv

(* An entry that is. *)
LEMMA LinkEntryKeeps ==
    ASSUME PartInv, LinkEntry
    PROVE  PartInv'
<1> DEFINE G == OnDisk(chunk, SectCount(slot))
           p == FromEntry(chunk.table[i])
           K == {k \in G : k < i}
<1>0. AtEntry
  BY EntryFacts
<1>1. /\ link_list' = [link_list EXCEPT ![slot] = Append(@, p)] /\ held' = held + 1
      /\ chunk.table[i].num # 0 /\ ~ Outside(chunk.table[i])
  BY DEF LinkEntry
<1>2. p \in Parts /\ slot \in Slots /\ link_list[slot] \in Seq(Parts)
  <2>1. p \in EntryParts
    BY <1>0 DEF AtEntry, EntryParts
  <2>2. slot \in Slots /\ link_list[slot] \in Seq(Parts)
    BY <1>0 DEF AtEntry, PartInv, PartTypes
  <2> HIDE DEF p
  <2> QED BY <2>1, <2>2 DEF Parts
<1>3. link_list'[slot] = Append(link_list[slot], p)
  BY <1>1, <1>2 DEF PartInv, PartTypes
<1>4. IsFiniteSet(Linked') /\ NothingLost' /\ link_list' \in [Slots -> Seq(Parts)]
  <2>1. Parsing /\ step' # "disk"
    BY <1>0 DEF AtEntry
  <2> HIDE DEF p
  <2> QED BY <1>1, <1>2, <2>1, LinkKeeps
<1>5. ASSUME ~ Wraps(chunk)
      PROVE  ListOf(link_list'[slot], chunk, {k \in G : k < i + 1})
  <2>1. ListOf(link_list[slot], chunk, K)
    BY <1>0, <1>5 DEF PartInv, EntriesSoFar, AtEntry
  <2>2. i \in G
    BY <1>0, <1>1, <1>5, InsideOrOut
  <2>3. G \subseteq 1 .. EntryCount /\ i \in 1 .. EntryCount
    BY <1>0 DEF OnDisk, AtEntry
  <2> HIDE DEF G
  <2>4. {k \in G : k < i + 1} = K \cup {i}
    <3>1. ASSUME NEW k \in G PROVE k < i + 1 <=> (k < i \/ k = i)
      <4>1. k \in Int /\ i \in Int
        BY <2>3
      <4> QED BY <4>1
    <3> QED BY <2>2, <3>1
  <2>5. K \in SUBSET (1 .. EntryCount) /\ \A k \in K : k < i
    BY <2>3
  <2> HIDE DEF K
  <2>6. ListOf(Append(link_list[slot], FromEntry(chunk.table[i])), chunk, K \cup {i})
    BY <1>2, <2>1, <2>3, <2>5, ListGrows
  <2> QED BY <1>3, <2>4, <2>6
<1>6. held' \in Int
  BY <1>1 DEF PartInv, PartTypes
<1> HIDE DEF p, K
<1> QED BY <1>0, <1>4, <1>5, <1>6, EntryLoopKeeps DEF PartInv

(* The table is done. *)
LEMMA EntriesDoneKeeps ==
    ASSUME PartInv, EntriesDone
    PROVE  PartInv'
<1> DEFINE G == OnDisk(chunk, SectCount(slot))
<1>0. /\ step = "entry" /\ step' = "exit" /\ link_list' = link_list /\ i' = i /\ held' = held
      /\ Parsing /\ chunk.sig /\ check_mbr(chunk.table) /\ i = EntryCount + 1
      /\ slot \notin failed
  <2>1. slot \in ListedSlots /\ slot \notin failed
    BY DEF EntriesDone, At, PartInv, Order, ChunkOwn
  <2> QED BY <2>1, ListedDisk DEF EntriesDone, At, Parsing, PartInv, EntriesSoFar
<1>1. ScanInv' /\ ListsOwn' /\ Order'
  BY <1>0, ParsingKeeps
<1>2. PartTypes' /\ Untouched'
  BY <1>0 DEF PartInv, PartTypes, Untouched, Fresh, Parsing
<1>3. ChunkOwn' /\ EntriesSoFar'
  BY <1>0 DEF ChunkOwn, EntriesSoFar
<1>4. DiskDone'
  <2>1. SUFFICES ASSUME Trusted(slot)' PROVE ListDone(slot)'
    BY <1>0 DEF DiskDone, Parsing
  <2>2. Trusted(slot)
    BY <1>0, <2>1 DEF Trusted, Parsing, vars
  <2>3. chunk = sector0[slot]
    BY <1>0, <2>2 DEF PartInv, ChunkOwn
  <2>4. Wraps(chunk) \/ ListOf(link_list[slot], chunk, {k \in G : k < i})
    BY <1>0 DEF PartInv, EntriesSoFar
  <2>5. {k \in G : k < i} = G
    BY <1>0 DEF OnDisk
  <2>6. Wraps(chunk) \/ Listed(link_list[slot], chunk, SectCount(slot))
    BY <1>0, <2>4, <2>5 DEF Listed, check_mbr
  <2>7. /\ SectCount(slot)' = SectCount(slot) /\ sector0' = sector0 /\ failed' = failed
        /\ slot' = slot
    BY <1>0 DEF SectCount, Parsing, vars
  <2> QED BY <1>0, <2>3, <2>6, <2>7 DEF ListDone
<1>5. IsFiniteSet(Linked') /\ NothingLost'
  BY <1>0 DEF PartInv, NothingLost, Linked
<1> QED BY <1>1, <1>2, <1>3, <1>4, <1>5 DEF PartInv

(* exit_here: the sector's chunk goes back, and the next slot is looked at. *)
LEMMA ExitKeeps ==
    ASSUME PartInv, Exit
    PROVE  PartInv'
<1>0. /\ pc = "done" /\ step = "exit" /\ step' = "disk" /\ slot' = slot + 1 /\ slot \in Nat
      /\ held' = held - 1 /\ i' = 0
      /\ UNCHANGED <<vars, sector0, chunk, link_list, failed, misread>>
  BY DEF Exit, At, PartInv, PartTypes
<1>1. ScanInv'
  BY <1>0, ScanKept DEF PartInv, vars
<1>2. PartTypes' /\ Order'
  BY <1>0 DEF PartInv, PartTypes, Order, vars
<1>3. Untouched'
  BY <1>0 DEF PartInv, Untouched, Fresh
<1>4. ChunkOwn' /\ EntriesSoFar' /\ DiskDone'
  BY <1>0 DEF ChunkOwn, EntriesSoFar, DiskDone
<1>5. ListsOwn'
  <2>1. ListedSlots' = ListedSlots /\ \A s : SectCount(s)' = SectCount(s)
    BY <1>0 DEF ListedSlots, SectCount, vars
  <2>2. \A s \in ListedSlots : s < slot' => s < slot \/ s = slot
    BY <1>0 DEF ListedSlots
  <2>3. slot \notin misread /\ disks[slot].code \notin slow => ListDone(slot)
    BY <1>0 DEF PartInv, DiskDone, Trusted
  <2> QED BY <1>0, <2>1, <2>2, <2>3 DEF PartInv, ListsOwn, ListDone, vars
<1>6. IsFiniteSet(Linked') /\ NothingLost'
  <2>1. Linked' = Linked
    BY <1>0 DEF Linked
  <2>2. IsFiniteSet(Linked) /\ Cardinality(Linked) \in Nat /\ held = Cardinality(Linked) + 1
    BY <1>0, FS_CardinalityType DEF PartInv, NothingLost
  <2> QED BY <1>0, <2>1, <2>2 DEF NothingLost
<1> QED BY <1>1, <1>2, <1>3, <1>4, <1>5, <1>6 DEF PartInv

-----------------------------------------------------------------------------
(* Every step of the two scans keeps the invariant. *)
LEMMA PartStep == PartInv /\ [BootNext]_bvars => PartInv'
BY PartStutter, WhileScanning, SkipKeeps, ReadKeeps, NoSignatureKeeps, VbrKeeps, MbrKeeps,
   PassedKeeps, LinkEntryKeeps, EntriesDoneKeeps, ExitKeeps
   DEF BootNext, scan_part_all_disks

(* The invariant holds throughout. *)
THEOREM PartInvariant == BootSpec => []PartInv
BY PartInit, PartStep, PTL DEF BootSpec

(* A disk whose identity was got has its own sector count, although one      *)
(* buffer serves all drives (disk_search_and_init).                          *)
THEOREM SizesAreOwn == BootSpec => []SizeOwnIfGot
<1>1. PartInv => SizeOwnIfGot
  BY DEF PartInv, ScanInv
<1> QED BY <1>1, PartInvariant, PTL

(* motherlobe fills from the front with drives there are, each once but for  *)
(* a boot drive the loop probes again.                                       *)
THEOREM DrivesAreListedOnce == BootSpec => []DrivesOnce
<1>1. ASSUME PartInv PROVE DrivesOnce
  <2>1. ListedSlots = 0 .. (index - 1)
    BY <1>1, ListedFilled DEF PartInv, ScanInv
  <2>2. \A s \in ListedSlots : s \in Slots /\ s < index
    BY <1>1, <2>1 DEF PartInv, ScanInv, ScanTypes
  <2>3. \A s \in ListedSlots : size[disks[s].code] # NONE
    BY <1>1, <2>2 DEF PartInv, ScanInv, Filled
  <2>4. ASSUME NEW s \in ListedSlots, NEW u \in ListedSlots, s # u,
               disks[s].code = disks[u].code
        PROVE  0 \in {s, u} /\ BootDrive \in Scanned
    <3>1. s \in Slots /\ s < index /\ u \in Slots /\ u < index /\ index \in Nat
      BY <1>1, <2>2 DEF PartInv, ScanInv, ScanTypes
    <3>2. s = 0 \/ u = 0
      BY <1>1, <2>4, <3>1 DEF PartInv, ScanInv, Apart
    <3>3. ASSUME NEW a \in Slots, NEW b \in Slots, a = 0, b > 0, a < index, b < index,
                 disks[a].code = disks[b].code
          PROVE  BootDrive \in Scanned
      <4>1. disks[a].code = BootDrive /\ disks[b].code \in 129 .. (code - 1)
        BY <1>1, <3>3 DEF PartInv, ScanInv, Filled
      <4> QED BY <3>3, <4>1
    <3> QED BY <2>4, <3>1, <3>2, <3>3
  <2> QED BY <2>1, <2>3, <2>4 DEF DrivesOnce
<1> QED BY <1>1, PartInvariant, PTL

(* A disk whose identity was got and whose sector 0 was read has the         *)
(* partitions of its own table that lie on it, in order, and one that could  *)
(* not be read has none (single_disk_scan).                                  *)
THEOREM ListsAreOwn == BootSpec => []ListsOwn
<1>1. PartInv => ListsOwn
  BY DEF PartInv
<1> QED BY <1>1, PartInvariant, PTL

(* Every chunk taken is in a list, is the sector's, or has been given back,  *)
(* on each way through scan_part_all_disks.                                  *)
THEOREM NoChunkIsLost == BootSpec => []NothingLost
<1>1. PartInv => NothingLost
  BY DEF PartInv
<1> QED BY <1>1, PartInvariant, PTL
=============================================================================

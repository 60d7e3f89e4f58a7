# A TLA+ model of the GENESIS-32 kernel

GENESIS-32 is a 32-bit x86 hobby kernel: a boot loader puts it in protected
mode, and `kernel_main` sets up a heap, an interrupt table, the timer, paging, a
small-object allocator and the ATA disks, scans the disks for partitions, and at
last enables interrupts. This directory models its core in TLA+, checks it with TLC on small
instances and proves with TLAPS, for every value of the constants, every safety property and both refinements that the runs check.

All paths below are under `src/src/kernel/` unless they begin with `docs/`.

## 1. Inventory

| component | state | operations | interacts with |
|---|---|---|---|
| page heap `heap/heap.c`, `kheap.c` | one byte per 4 KiB block | `kheap_init`, `kmalloc`, `kzalloc`, `kfree` | everybody |
| slab pages `heap/heap32.c` | a 124-byte table and 4 guard bytes at the start of a page | `table_guard_set`, `malloc_32`, `heap32_free` | called by heap_cream |
| small-object allocator `heap/heap_cream.c` | `mothermary`, a directory of slab pages | `heap_cream_malloc`, `heap_cream_free` | page heap below; disk and partition code above |
| paging `paging/paging.c` | directory, page tables, cr3 | `create_32_dir_table`, `set_dir_table`, `enable_paging`, `set_page_table_enrty` | page heap |
| timer, interrupts `time/`, `isr/`, `pit/`, `idt/`, `kernel.asm` | `tick`, the 8259 controllers, the interrupt flag | `int20_handler`, `sleep_ticks`, `sleep`, `sleep_ms`, `sr20`, `sr21`, `isr_x` | interrupts any other code |
| ATA driver `disk/disk.c` | `motherlobe`, the drive's registers | `disk_search_and_init`, `read_disk_block`, `write_disk_block` | drive; small-object allocator |
| disk streams `disk/disk_stream.c` | a position and a disk, in a page of their own | `init_disk_stream`, `disk_stream_seek`, `get_bytes_from_disk`, `free_disk_stream` | ATA driver, page heap |
| partitions `file_syst/partitions.c` | a list per disk | `scan_part_all_disks` | ATA driver, small-object allocator |
| FAT16 and VFS `file_syst/fat16.c`, `vfs.c` (not built) | FAT, open-file cache, mounts | mount, open, read, write, create, close | ATA driver |
| console `kernel.c` | screen, cursor | `print`, `scroll1`, `clear_screen` | everybody, `int21_handler` too |

**Concurrency.** One processor, no threads. `kernel_main` runs with interrupts off
until its last statement, and no handler allocates or touches a disk. So calls of the
heap, the slab allocator, paging and the disk driver are not interrupted by each other;
the actors that run against each other are the interrupt handlers and the code they
interrupt (Timer, Console), the drive and its driver (Disk, DiskStream, DiskScan), and the power, which may fail
between two writes to a disk (Fat16).

**What is hard here.** Long sequences of legal calls on shared tables with no
redundancy (heap, slab); pages that change hands with old bytes in them; loops that share an
index; 32-bit sums that wrap; an out-of-memory half way through building the page tables; a 64-bit
counter read in two halves while an interrupt increments it; drives that answer after
the driver has given up; one buffer used for several disks; a cursor two printers share;
a file's table entries and data written in several steps; list pointers that outlive what they point at. `PROJECT.json` lists each hazard at its line with the
properties that would catch it.

## 2. Modules

| module | models | state and actions |
|---|---|---|
| `BlockTable` | the table format shared by heap.c and heap32.c | operators: first fit, marking and clearing a run |
| `PageAllocator` | abstract specification: what callers of kmalloc/kfree are promised | regions held, last answer; `Malloc`, `Free` |
| `KHeap` | heap.c, kheap.c | `table`; `kheap_init`, `kmalloc(s)`, `kfree(p)` |
| `FirstFitScan` | the nested loops of `heap_get_start_block` and of heap32.c's `get_index`, step by step | which function, its locals `i`, `count`, `rtn_val`; heap32.c's `target` is `block_count - count` |
| `Heap32` | heap32.c | operators on a page's header bytes |
| `HeapCream` | heap_cream.c over the page heap, with disk streams as the other users of pages | `table`, `mem`, `mothermary`; malloc and free, one action per outcome; stream open, read, close |
| `Paging` | paging.c over the page heap | one action per round of the directory loop; remapping; other kmalloc/kfree |
| `Timer` | isr.asm, isr.c, time.c against PIT, keyboard and disk interrupts | pulses, acceptance, the three handlers, `sleep_ticks` load by load |
| `Console` | kernel.c's `print`, `scroll1`, `clear_screen` against isr.c's `int21_handler` | the screen and the cursor; one action per access of the interrupted `print`, one per letter of the handler |
| `Disk` | `read_disk_block`, `write_disk_block` against one drive | one action per wait, sector, error and result; the drive's own steps |
| `ByteStream` | abstract specification: what readers of a disk stream are promised | the disk as bytes, a request, the bytes it got; `Ask`, `Deliver`, `Complete`, `GiveUp`, `Spoil` |
| `DiskStream` | disk_stream.c over `Disk` | position and locals of `get_bytes_from_disk`; one action per driver call, per sector copied, per way out; other callers of the driver |
| `DiskScan` | `disk_search_and_init`, `check_disk`, `get_disk_info` | one action per probe, identity and entry |
| `Partitions` | `single_disk_scan`, `scan_part_all_disks`, after `DiskScan` in one behaviour | one action per outcome of the read, per kind of boot sector and per table entry; lists are built in place, the code assigns them when done |
| `Fat16` | `read_fat16`, `write_fat16`, `get_free_cluster` | `fat`, `data`, `dirent` on disk, the nodes' `first` and `size`; one action per disk access, `Crash` between any two |
| `OpenFiles` | `mount_fat16`, `umount_fat16`, `fat16_sub_open_file`, `fat16_sub_close_file` and the walk of `create_file_fat16` on the tables of vfs.c | chunks with their old contents, the four table pointers, `CACHE_TABLE_COUNT`; one action per way through mount and unmount, one per directory a walk enters and per way it ends |
| `KHeapProofs`, `HeapCreamProofs`, `PagingProofs`, `TimerProofs`, `ConsoleProofs`, `DiskStreamProofs`, `PartitionsProofs`, `Fat16Proofs` | theorems and proofs about `KHeap` and `FirstFitScan`, `HeapCream` (with `Heap32`), `Paging`, `Timer`, `Console`, `DiskStream` (with `Disk`), `Partitions` (with `DiskScan`), and `Fat16` and `OpenFiles` | |
| `MCKHeap`, `MCHeapCream`, `MCPartitions`, `MCOpenFiles` | constants for TLC | |

How they fit: `KHeap`, `Heap32`, `HeapCream` and `Paging` share `BlockTable`. `KHeap` takes
the result of the search as one step, the first fit, and so does `Heap32`; `FirstFitScan`
shows that the loops of both compute it (checked and proved). `HeapCream` composes slab pages, directory and page heap; it and
`Paging` see the page heap through its one-page requests, for which `KHeap`'s first fit and marking
are the same operators. `KHeap` implements `PageAllocator` (`AbstractSpec`).
`DiskStream` extends `Disk`: streams and other callers use one driver and one drive, so that an answer one of them gave up on may
reach the other. It implements `ByteStream` (`StreamPromise`): the disk's bytes are those of its sectors, a
request is open while `get_bytes_from_disk` runs, a fault is a result other than 0, and a request one of whose sectors
came from a drive that owed an earlier answer maps to a spoilt one, of which nothing is promised. A request for more than `Limit` bytes (2^32 less a sector) may stop short.
`Partitions` extends `DiskScan`: the partition scan works on the disk list that scan left, with the sizes it found and drives that may still
owe their identity. `OpenFiles` and `Fat16` share no state that changes: the mount's table and nodes in `Fat16` are those a
successful `mount_fat16` leaves.

History variables (`live`, `req`, `chunks`, `last`, `want`, `spare`, `start`, `asked`,
`wrapped`, `torn`, `clean`, `sent`, `slow`, `failed`, `misread`, `content`, `crashed`, `spoilt`, `raced`, `split`, `wide`, `stray`, `line`, `paper`, `did`) record what callers hold or asked for; no guard of a code action reads them
(`crashed` bounds the power failures to one).
A held region or chunk counts as gone when the code has cleared its first table
entry, so the history follows what the code did.

Names beginning like an action and preceded by a comment "Mutant:" are faulty
variants of the definition they precede. No specification uses them; each shows, put in place of its
original, that a property notices that fault.

Abstractions. A sector is one value; a slab page is its header bytes; addresses in
`Paging` are frame numbers, and of the flag bits only presence is kept (`create_32_dir_table` sets present and
writable on every entry, `set_page_table_enrty`, which nothing in the tree calls, what its caller gives; its callers are assumed not to redirect the heap's own pages); an unaligned address given to `set_page_table_enrty` is refused with
no effect and is not an action. A poll loop is one step that ends when its condition holds or gives up
while it does not. The second operand of the bounds checks, of `heap_malloc`'s sum, of
`sleep`'s product and of the paging offset keep their word width (`% WordSize`).
In `Fat16` disk accesses succeed, sectors have 512 bytes, and nodes are
never written back to the directory (no code does it), so that a remount finds them as they were. The
branches of `get_free_cluster` that link a cluster are left out: no call in the source reaches them.
In `Console` a letter is its number and colours are left out; the order of loads and stores is that of `build/kernel/kernel.o`.
In `OpenFiles` the small-object allocator hands out any free chunk or NULL, freed chunks keep their contents until they are reused, every
lookup matches (both hash functions return 0), and whether a directory has the name looked for is left open. A step that would
read a chunk as something it is not, or follow NULL or a ring, ends the behaviour: what comes then depends on bytes outside the model.
`mount_fat16` never sets `origin_mount_point` of the root node (fat16.c:137-147); `OpenFiles` gives a mount an origin, and what
a walk may do when the field holds something else is among the outcomes of `WalkWild` and `GiveUp`. A failed mount that frees an unset pointer (`FreeUnset`)
either hits nothing in use or ends the behaviour in the same way.
RAM is zero at boot in `HeapCream`, as under the emulator: its directory comes from `kzalloc(1)`, which clears one byte (heap_cream.c:11), so it is clear only if the page was; `KHeap` starts from any bytes in the table.

## 3. Runs

Bounds are in the `.cfg` files. `expect: pass` unless marked.

| run | what it asks | bounds and why they are enough |
|---|---|---|
| `kheap` | no block held twice, none lost, shapes intact, sizes sufficient, `PageAllocator` implemented | five two-byte blocks, a 16-value word, every size and every pointer: regions of 1 to 5 blocks, holes of every shape, the size that wraps and the one that just does not |
| `first_fit_scan` | the loops of both functions return the first fit and end | every table of five entries, requests 0 to 6: zero, exact, too large |
| `cream` | chunks disjoint, backed by a taken page, freed exactly, one owner per page | two pages of three slots, a directory of two, one stream, three shapes of old data, requests of 0 to 4 slots, every pointer: SINGLE, START END and START MID END chunks, a hole before a page, directory full, heap empty |
| `cream_free_finds_chunk` (violation) | a comment of heap_cream.c | three pages |
| `paging` | identity mapping kept, tables private, all mapped and reachable | 3 x 3 entries, five heap pages, other code holding 0 to 5 of them: the build succeeds, runs out at every entry, gets no directory |
| `timer` | early wakes explained, no line left in service, timer served, sleepers wake | words of 4 values, up to 15 ticks: three carries, a wrapping `sleep`, a `sleep_ticks` of more than a word, an end past the last tick of the two words |
| `console` | the column recovers, the row is lost only by one race, lines scroll up intact | a 4 x 3 screen, five characters of any kind, two interrupts of three letters anywhere: full rows, scrolling by either side, tabs past the edge; the cursor begins on any row |
| `disk` | a success is a success, writes stay in their sectors, every call returns, `ByteStream` implemented | three sectors of two bytes, a count register of 2, totals 0, 2 and 3 (the register's 0, its modulus, one more), an lba whose sum with the total wraps and whose register value is a sector of the disk; streams from bytes 0 and 1, of 4 bytes and of 15, in words of 16 values: across two sectors and three, past the end of the disk, a sum that wraps |
| `partitions` | list of disks without gaps, doubles or absent drives, sizes go to their disk; partitions come from the disk's own table and lie on the disk, no chunk lost | up to two drives at any of the four positions, of one sector or two, each poll loop giving up or not, identities that are garbage; tables of two entries of five kinds: empty, filling the disk, a count without a type, one sector too long, wrapping |
| `fat16` | chains apart, bytes kept and read back, copies of the table follow the first, the next partition kept | every well-formed volume of three clusters of two sectors, one table entry beyond them, two copies, two files, three calls of three bytes that cross one cluster boundary or two, one power failure: files with chains of 0 to 3 clusters, allocation at the head and past the end, a full volume |
| `open_files` | lookups meet only entries in use, entries can be found, chunks given back | six interchangeable chunks (symmetry), three calls, walks two directories deep: a mount after a failed one, with or without its cache entry, a second walk after a close with every reuse of the freed chunk, an unmount followed by anything, the table full |
| `fat16_write_linked` (violation) | fat16.c:396 | as `fat16` |

The scans end, and the calls of `Fat16` and `OpenFiles` and the characters of `Console` are bounded, so the runs of
`FirstFitScan`, `Partitions`, `Fat16`, `OpenFiles` and `Console` switch deadlock checking off; all others check it.

`TypeOK` is checked (and proved) for `KHeap`. In the other modules it records the types of the variables; it holds on the same instances and,
in the modules with proofs, is part of the inductive invariant or implied by it.

**Fairness.** The search loops: weak fairness of the only process, the processor
executing sequential code. `Timer`: the PIT pulses for ever (WF); the processor takes a
pending interrupt when it accepts them and finishes handlers (WF); the interrupted code
gets on between interrupts (SF, because handlers keep interrupting it; a key storm faster than
the processor is excluded). Keys and disk interrupts have no fairness.
`Disk` and `DiskStream`: WF of the driver and of the stream's own code; the drive may hang for ever, and nobody has to ask for anything.

### Where the code does not do what one would expect

The first two are violation runs; of the others, the named property states the exact extent.

1. **Holes in the slab directory** (`heap_cream.c:104`, `:30`). Freeing the last chunk of a page zeroes its directory
   entry, and both loops stop at the first zero: chunks behind it can no longer be freed, and
   their pages are not used for new requests. `ChunksDisjoint` and `ChunksBacked` still hold: memory is lost, not shared.
2. **Clusters linked to nothing** (`fat16.c:448`). A write past the end of a file's chain passes the end mark to
   `get_free_cluster` instead of the last cluster: the data go to a cluster that is marked and on no chain.
   `StoredKept` and `ChainsApart` show that nothing else is harmed.
3. **Slab pages are not cleared** (`heap_cream.c:42`). `kzalloc(1)` clears one byte. A page that was a sector buffer looks full, and
   the request it was taken for fails. `ChunksDisjoint` and `ChunksBacked` hold whatever the page contains.
4. **Torn tick** (`time.c:6`). A carry between the two loads ends a sleep early, or in line 5 makes it 2^32 ticks too long
   (`EarlyWakeExplained`: nothing else does but a wrapped product of `sleep` and an end past the last value of the 64-bit tick).
5. **Late answers** (`disk.c:283`). After a timeout the drive may still owe data; the next call
   may take it for its own and report success. `ReadExact`, `WriteStored`, `WriteConfined` and `StreamPromise` hold whenever the drive owed nothing.
6. **Short reads unreported** (`disk_stream.c:60`). A stream whose sector cannot be read returns like any other; the caller has the bytes
   before it and is not told (`StreamPromise`: a prefix, never a gap). Line 55 adds the offset in the sector to the number of bytes: for a request
   near 2^32 the sum wraps, and the loop ends early without an error (`ByteStream`'s `Limit`).
7. **Stale identity** (`disk.c:98`). A silent timeout leaves the previous disk's size in the buffer, and a drive that fails with data ready fills it with
   other bytes, since ERR is not looked at (`SizeOwnIfGot`: in no other case), and the answer
   the drive still owes may be read as its sector 0. The boot drive's code comes from the BIOS (`kernel.c:149`) and is entered first; if it is not
   0x80, the loop over 0x81 to 0x83 lists that drive a second time (`DrivesOnce`: no other).
8. **Another disk's partitions** (`partitions.c:144`). `DISK_READ_ERR` is positive and passes for success; the
   disk gets the list of the sector still in the chunk (`ListsOwn`). An entry whose `start_sect + sect_num` wraps (line 118) passes for one on the disk;
   `ListsOwn` excuses tables with such an entry, and no others.
9. **The row below the screen** (`kernel.c:107`, `:87`). The keyboard handler may move to the last row between the test of `cursor_y`
   and its increment; the cursor then stays on row 25 for good, and letters go behind the screen (`OffScreenExplained`).
   The column always recovers (`ColumnRecovers`).
10. **Scrolling loses text** (`kernel.c:50`). `scroll1` clears from cell 24\*79: of a line that has scrolled only columns 0 to 55
    survive, and column 79 never moves (`LinesShown` says what does survive, as long as no character was interrupted half way). A tab (`kernel.c:97`) never wraps.
11. **Behind the partition** (`fat16.c:321`). On a full volume an entry beyond the last cluster is taken, and the data go to the sectors behind
    the partition (`NeighbourKept`: only then).
12. **Stale ends of the open-file cache** (`fat16.c:817`, `:214`). Closing the last entry leaves `cache_table_last` on the freed chunk, so that later entries are
    linked to it and never found (`EntriesLinked`: up to that close every entry can be); unmounting leaves `cache_table_start` on the freed entry, so that the path still counts as mounted
    and a second unmount frees everything again (`LookupAlive`: nothing else breaks the list, closing twice does not).
13. **Failure path of mount** (`fat16.c:104`, `:110`, `:176`). Two of its ways in skip the initialisation of the pointers it frees; the others free the mount entry and leave it in
    the mount table. `LookupAlive` and `NothingLost` cover the second half; they say nothing once an unset pointer has hit a chunk in use. `fat16.c:151` is not checked: without memory the mount reports success and cannot be found (`NothingLost`).
14. **Walks that give up** (`fat16.c:997`). `is_first` is not cleared where names are made, so the entry of a directory made on the way stays open (`NothingLost`: nothing else is lost).

The bounds check of `read_disk_block` (`disk.c:226`) wraps for an lba near 2^32, and the registers then carry the lba modulo 2^28, which may be
a sector of the disk: such a write changes a sector nobody named. The model keeps the wrap; `ReadExact` and `WriteStored` are stated for sums that do
not wrap, `WriteConfined` for commands whose sectors the drive has.

## 4. Proofs

`KHeapProofs` (for every heap start, heap size, block size, word size and set of request sizes that
satisfy the assumptions of `KHeap`):

* `Invariance`: `Spec => []IInv`. `IInv` joins `TypeOK`, `LiveDisjoint`, `LiveShaped`,
  `NoLeak`, `LiveBigEnough` and that nothing is held before the heap is created. None of the parts is
  inductive alone: that `kfree` clears the blocks of one region and no other needs the shapes
  (`START MID* END`), that shapes survive needs disjointness, and that a free run meets no region
  needs that no cell of a region is marked free (lemma `HeldNotFree`). `FreeEffect` and `KmallocPreserves`
  carry the two cases.
* `Typing`, `Disjointness`, `Shapeliness`, `Leakless`, `BigEnough`: the invariants of run `kheap`.
  `BigEnough` rests on `BlockCountCovers`: either the rounding sum wraps, then the
  block count is 0, which no search satisfies, or it covers the request.
* `Refinement`: `Spec => AbstractSpec`, with `live`, `req` and `ret` as they are (`req` ties an answer to its
  request, so NULL for one size cannot pass for NULL of another). `KmallocRefines`: a NULL means
  that no region would do; `HoldsIsFirst`: the division of `heap_free` finds the region whose first block the pointer is in.
* `ScanCorrect`: `ScanSpec => []FindsFirstFit` for both functions of `FirstFitScan`, from the loop invariant `LoopInv` (no run begins before
  the current one; `rtn_val .. i-1` is free and `count` long). The use of `FirstFit` in `KHeap` and `Heap32` rests on it.

`HeapCreamProofs` (any number of pages, slots, guard bytes and directory entries, any request sizes, whatever a sector leaves in a page):
`CreamInvariant` joins `ChunksDisjoint`, `ChunksBacked` and `OneOwner` with two facts that none of them says: a chunk reads SINGLE or START MID\* END in
its page's table (`ChunksMarked`), and every registered page has its guard bytes (`PagesGuarded`), which stop `heap32_free`'s walk. The old bytes of a page are
no part of any chunk, so nothing is assumed of them. From it `ChunksAreDisjoint`, `ChunksAreBacked`, `PagesHaveOneOwner`, and `FreesAreExact`, an action property:
a walk through the middle of one chunk cannot reach another.

`PagingProofs` (any number of entries and pages): `PagingInvariant` adds to the checked properties where the loop is (`LoopState`): a round that got no page is
followed only by such rounds, because nobody frees a page meanwhile, so an entry is either absent or was filled with `offset` at its own place; and
`EnoughLeft`, which counts the pages left against the rounds left. `MappingIsKept`, `TablesArePrivate`, `BuildIsComplete` and `TablesAreReachable` follow. Assumed:
the heap lies in the address space, and nobody redirects the heap's own pages.

`TimerProofs` (any word size of at least 2, rates and arguments): `TimerInvariant` says that one interrupt is in service exactly while its handler runs (`OneAtATime`), and
what the locals of `sleep_ticks` hold at each load, unless a carry came in between (`Sleeping`). `EarlyWakes` and `ServiceEnded` follow. Assumed: the tick itself does
not pass its 64 bits.

`DiskStreamProofs` (drives, words, sectors and requests of any size): `StreamInvariant` follows one command through both sides. `Progress` says how far drive and driver are with it,
the drive being up to one sector behind in a write; `Settled` and `LateWrite` what is left of it after the call, when the locals belong to the next one;
`Place` at which byte of the disk the stream is and how many sectors hold the rest. `ReadsAreExact`, `WritesAreStored`, the action property
`WritesAreConfined`, and `StreamKeepsPromise`, the refinement of `ByteStream`, step by step. Assumed: the lba registers hold less than a word (28 bits of 32), and no sector equals
what an unanswered buffer holds.

`PartitionsProofs` (any number of table entries, any sizes): `PartInvariant` contains the disk scan's `ScanInv` (slots fill from the front, from codes already probed; a drive whose
identity was got owes nothing) and says whose sector the chunk holds and which entries before `i` are in the list. `SizesAreOwn`, `DrivesAreListedOnce`, `ListsAreOwn`
and `NoChunkIsLost` follow. Assumed: the disk table has at least four places (it has five).

`ConsoleProofs` (any screen at least as wide as high, any tab and message length, any number of characters and interrupts): `ConsoleInvariant` has two halves. `Column`, `RowBound` and `Target` bound
column, row and the cell computed from them at every access of `print`, through every interrupt, and give `ColumnAlwaysRecovers` and `RowLostOnlyByRace`. `Picture` says, while nothing disturbs `print`, on which row every line stands, also
half way through `scroll1`: a line whose cell has been copied is on its new row, the others are on the old one (`AllMoving`), and no cell is read after it was overwritten (`ScrollMoves`). It gives `LinesStayShown`.

`Fat16Proofs`, the two models of fat16.c. Both speak of what is reached along links (`Walk`, `Round`: recursive functions), and the library's induction theorems cannot be
instantiated here. The module gets its own: `LeastNatural` (a set of naturals that is not empty has a least element, from the library's well-foundedness of `<`), `Induction` (a set with 0 and
with every successor holds all naturals; the set is a variable, not an operator) and `Iterated` (a function can be iterated for ever, so that a recursive function over the naturals is what its definition says).

*Files* (any table, any number of copies, clusters, sectors and files, any offsets and lengths):

* `FilesInvariance`, `Spec => []IInv`. `ChainsApart` is not inductive: it says nothing of entries no file reaches, which a write may link. `Chains` says it of the links themselves: no two entries link to one cluster
  (`Linked`), none to a first cluster, and no two files begin at one (`Started`); `ChainPlace` derives from it, by induction along two chains at once, that a cluster is one place of one chain. `Place` says where a call is: at the
  cluster of its chain its position names, or, in a write past the end, at a claimed cluster that is on no chain (`Orphan`), which is why the bytes it writes harm nobody. `Calling` ties position, hops and bytes done; `Reading` says that
  the bytes got so far are those of the file; `CopyInv` which copies lag, and in which entry; `Beyond` and `Empty` what a claimed entry behind the volume, or one whose number is an end mark, implies: all entries before it were taken.
* `FilesTypeCorrect`, `FilesApart`, `FilesKept`, `ReadCorrect`, `CopiesCorrect`, `NeighbourCorrect`: the invariants of run `fat16`. Each holds with a power failure between any two steps.

*The open-file cache* (any number of chunks, calls and directories):

* `OpenInvariance`, `OpenSpec => []OpenInv`. `Listing` names the list: a function from places to entries in use, linked both ways, the mount point first; `cache_table_last` is its end or outside of it, and so is the entry a walk is at
  (`Clear`: unlinking it leaves the list alone). `CloseClear`, `CloseEnd`, `OpenClear` and `OpenEnd` follow closing and opening in each case, `CloseTwice` shows that the second close of `fat16.c:1000` changes nothing.
  `Owning` says whose the chunks in use are: those of the mounts (`Held`) and the two the walk has opened; and that no chunk outside leads into them (`Outside`), which makes a second
  unmount of a freed entry harmless to those in use. `Beginning` is what a mount may find.
* `LookupCorrect`, `EntriesFound`, `NothingIsLost`: the invariants of run `open_files`. `ListSeen`: the rounds of a lookup visit the list, all of it, within as many rounds as there are chunks.

Every inductive invariant was first checked with TLC, as an invariant of the instance its run uses. Attempts to prove corrected statements that the instances of the runs had been too small to refute: the end of a sleep past 2^64 ticks, a wrapped
lba that becomes another sector, a stream request near 2^32, and a boot drive that is scanned again. Each is now part of the statement, and, except for the last (a constant of run `partitions`), happens in its run.
The proofs about `Fat16` also corrected the model: `Hop` chose between overlapping cases, which leaves the choice open, and now tests them in the order of the code; and `WellFormed` counts the clusters of the volume only, so that a table with numbers above the end mark has well-formed states too.

Only model-checked:

* liveness (`Terminates`, `TimerServed`, `Wakes`, `Returns`), which is out of this prover's reach;
* the two violations.

## 5. Not modelled

* Pointers outside the heap given to `kfree` (heap.c:94): the entry read is a byte of the kernel image.
* NULL dereferences after an unchecked allocation (`disk.c:168`, `disk_stream.c:38`, `partitions.c:57`). In `write_fat16` (fat16.c:422, :425) such a NULL is not
  only a matter of memory running out: `heap_cream_malloc` serves at most 3968 bytes, so on a volume with clusters of 4096 bytes or more the
  cluster buffer is always NULL. `Fat16` speaks of volumes with smaller clusters.
* The cluster `create_file_fat16` takes for a new name (fat16.c:947): it calls `get_free_cluster` with the first sector of the partition, where the other callers add the
  reserved sectors and the comment at line 306 asks for them. The search then begins in the boot sector, takes the first zero word for a free entry and marks it there and once more per copy, a table's length further on. `Fat16` models
  the calls of `write_fat16`, which pass the table's own start; `OpenFiles` models what the walk does to the cache, for either result of line 947.
* A directory page that cannot be had is modelled, but not what a processor does with cr3 = 0.
* `sr0`, which returns to the faulting division; exceptions with an error code, which `isr_x` does not pop.
* How `create_file_fat16` takes names from a path: `set_fname` (fat16.c:673) moves both ends of its copy loop and runs past the name, and
  `strncpy` (string.c:19) lets its count wrap for a name of eight letters. `OpenFiles` models the walk as if names were taken; its steps on the cache do not depend on them.
  `search_cache_table` (fat16.c:605) never moves on, but its one caller is never called. Node ids: `VFS_INODE_ID_COUNT` starts above its maximum
  (vfs.c:35), so every node gets the error code as its id; nothing reads it.
* What `write_fat16` does on a full table (uninitialised sector number, fat16.c:358), or after a disk error nobody looks at (fat16.c:320).
* `print_x_y`, `print_string` and the number printing: straight stores, or calls of `print`.
* Boot loader, port I/O, host tool, archived code, clock stubs: see the components in `PROJECT.json`.

## 6. Plan

1. (done) page heap, its search loop, slab allocator, paging, timer, ATA driver and scan, partition scan, FAT16 file
   contents; proofs for heap and search.
2. (done) byte streams over the driver and their abstract specification, the console against the keyboard handler, disk scan and partition
   scan in one behaviour, the open-file cache and mounts, entries beyond the last cluster.
3. (done) proofs for the slab allocator, paging, timer, console, driver and streams with the refinement of `ByteStream`, disk scan and partition scan.
4. (done) proofs for the files of a FAT16 volume and for the open-file cache.
5. Left: how names are taken from a path, once `set_fname` ends; `read_fat16` and `write_fat16` over the driver of `Disk`, with accesses that fail.

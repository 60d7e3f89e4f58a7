-------------------------------- MODULE KHeap --------------------------------
(***************************************************************************)
(* The kernel's page heap (kernel/heap/heap.c and kheap.c): a byte table   *)
(* with one entry per 4 KiB block, first-fit search, and no other          *)
(* bookkeeping.  The kernel is single-threaded and no interrupt handler    *)
(* allocates, so each call is one step; the search loop itself is modelled *)
(* step by step in FirstFitScan.                                           *)
(*                                                                         *)
(* live is a history variable: the regions callers hold.  It is read off   *)
(* the table after a free (an allocation is gone when the code has cleared *)
(* its first entry), so that it records what the code did and not what it  *)
(* should have done.                                                       *)
(***************************************************************************)
EXTENDS BlockTable

CONSTANTS HeapStart,    \* KHEAP_START
          HeapBytes,    \* KHEAP_SIZE_BYTES
          BlockSize,    \* KHEAP_BLOCK_SIZE = 1 << KHEAP_BLOCK_SHIFT
          WordSize,     \* 2^32 on the i686
          Sizes         \* request sizes; any size_t

ASSUME BlockSizeAssumption == BlockSize \in Nat \ {0}
ASSUME HeapBytesAssumption == HeapBytes \in Nat
ASSUME HeapStartAssumption == HeapStart \in Nat \ {0}
ASSUME WordSizeAssumption ==
    WordSize \in Nat /\ HeapStart + HeapBytes <= WordSize
ASSUME SizesAssumption == Sizes \subseteq 0 .. (WordSize - 1)

VARIABLES table,        \* kernel_heap_table.entries
          created,      \* kernel_heap.table points at the table
          live,         \* history: the regions callers hold
          req,          \* history: the size last asked for, -1 after a kfree
          ret           \* the last pointer kmalloc returned

vars == <<table, created, live, req, ret>>

NULL == 0

(* kheap_init: kernel_heap_table.total *)
Total == HeapBytes \div BlockSize

Blocks == 0 .. (Total - 1)

AddrOf(i) == HeapStart + i * BlockSize

Pointers == HeapStart .. (HeapStart + Total * BlockSize - 1)

Cells(a) == a.first .. (a.first + a.len - 1)

-----------------------------------------------------------------------------
(* heap_validate_alignment and heap_entry_count *)
heap_validate_alignment(addr) == addr % BlockSize = 0

heap_entry_count(start, end) == (end - start) \div BlockSize = Total

(* heap_create, called by kheap_init: the table is cleared only when both   *)
(* checks pass; otherwise kernel_heap.table stays NULL.                     *)
heap_create(start, end) ==
    LET ok == /\ heap_validate_alignment(start)
              /\ heap_validate_alignment(end)
              /\ heap_entry_count(start, end)
    IN  /\ created' = ok
        /\ table' = IF ok THEN [i \in Blocks |-> FREE] ELSE table

kheap_init ==
    /\ ~ created
    /\ heap_create(HeapStart, HeapStart + HeapBytes)
    /\ UNCHANGED <<live, req, ret>>

-----------------------------------------------------------------------------
(* Mutant: the size is shifted without being rounded up. *)
BlockCountDown(s) == s \div BlockSize

(* heap_malloc's block_count: the sum wraps at the word. *)
BlockCount(s) == ((s + BlockSize - 1) % WordSize) \div BlockSize

(* Mutant: the search stops one entry short of max. *)
StartBlockShort(t, n) == FirstFit([k \in 0 .. (Total - 2) |-> t[k]], n)

(* heap_get_start_block: FirstFitScan shows that its loop computes this.     *)
heap_get_start_block(t, n) == FirstFit(t, n)

kmalloc(s) ==
    LET n == BlockCount(s)
        i == heap_get_start_block(table, n)
    IN  /\ created
        /\ \/ /\ i # -1
              /\ table' = MarkRun(table, i, n)
              /\ live' = live \cup {[first |-> i, len |-> n, size |-> s]}
              /\ ret' = AddrOf(i)
           \/ /\ i = -1
              /\ ret' = NULL
              /\ UNCHANGED <<table, live>>
        /\ req' = s
        /\ UNCHANGED created

-----------------------------------------------------------------------------
BlockOf(p) == (p - HeapStart) \div BlockSize

(* heap_free: a SINGLE entry is cleared, a START entry with all up to its    *)
(* END; a pointer whose entry is MID, END or FREE is ignored.                *)
heap_free(t, i) ==
    CASE t[i] = SINGLE -> [t EXCEPT ![i] = FREE]
      [] t[i] = START  -> ClearThroughEnd(t, i)
      [] OTHER         -> t

kfree(p) ==
    /\ created
    /\ table' = heap_free(table, BlockOf(p))
    /\ live' = {a \in live : table'[a.first] # FREE}
    /\ req' = -1
    /\ UNCHANGED <<created, ret>>

-----------------------------------------------------------------------------
(* Before kheap_init the table is whatever RAM at KHEAP_TABLE holds. *)
Init ==
    /\ table \in [Blocks -> Entries]
    /\ created = FALSE
    /\ live = {}
    /\ req = -1
    /\ ret = NULL

Next ==
    \/ kheap_init
    \/ \E s \in Sizes : kmalloc(s)
    \/ \E p \in Pointers : kfree(p)

Spec == Init /\ [][Next]_vars

-----------------------------------------------------------------------------
(* PROPERTIES *)

Regions == [first : Blocks, len : 1 .. Total, size : Sizes]

(* The table holds only the five entry values of heap.h, regions lie where  *)
(* the table can describe them, and kmalloc returns NULL or a block address. *)
TypeOK ==
    /\ table \in [Blocks -> Entries]
    /\ created \in BOOLEAN
    /\ live \subseteq Regions
    /\ req \in {-1} \cup Sizes
    /\ ret \in {NULL} \cup {AddrOf(i) : i \in Blocks}

(* heap_malloc never hands out a block that another caller still holds, and *)
(* never a region that runs past the end of the heap.                       *)
LiveDisjoint ==
    /\ \A a \in live : a.first + a.len <= Total
    /\ \A a, b \in live : a # b => Cells(a) \cap Cells(b) = {}

(* The shape heap_free relies on: the entries of a region held by a caller  *)
(* read SINGLE, or START MID* END, and stay so whatever is freed around it.  *)
Shaped(a) ==
    IF a.len = 1
    THEN table[a.first] = SINGLE
    ELSE /\ table[a.first] = START
         /\ table[a.first + a.len - 1] = END
         /\ \A k \in (a.first + 1) .. (a.first + a.len - 2) : table[k] = MID

LiveShaped == \A a \in live : Shaped(a)

(* No block leaks: every entry that is not free belongs to a region some    *)
(* caller holds and can still give back.                                    *)
NoLeak ==
    created => \A k \in Blocks :
                  table[k] # FREE => \E a \in live : k \in Cells(a)

(* The region handed out is at least as large as asked for, although        *)
(* heap_malloc adds BlockSize - 1 to the size in a word that can wrap, and   *)
(* less than one block is wasted.                                           *)
LiveBigEnough ==
    \A a \in live : /\ a.len * BlockSize >= a.size
                    /\ (a.len - 1) * BlockSize < a.size

(* heap.c implements the promise of a page allocator. *)
Abstract == INSTANCE PageAllocator

AbstractSpec == Abstract!Spec
=============================================================================

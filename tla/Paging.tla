------------------------------- MODULE Paging --------------------------------
(***************************************************************************)
(* paging.c over the page heap: create_32_dir_table builds a directory and *)
(* one page table per entry, all identity mapped; set_page_table_enrty     *)
(* redirects one virtual page.  Other kernel code takes and gives back     *)
(* heap pages before the directory is built and after.                     *)
(*                                                                         *)
(* Addresses are counted in frames of 4096 bytes.  A 32-bit address holds  *)
(* exactly NO_DIR_ENTRIES * NO_PAGE_ENTRIES frames, so offset wraps to 0   *)
(* when the last table has been filled.  Of the flag bits only presence is *)
(* kept: create_32_dir_table writes present and writable entries,          *)
(* set_page_table_enrty what flags its caller gives.                       *)
(***************************************************************************)
EXTENDS BlockTable, FiniteSets

CONSTANTS NO_DIR_ENTRIES,   \* 1024
          NO_PAGE_ENTRIES,  \* 1024
          NPages,           \* blocks of the page heap
          HeapFrame,        \* frame of block 0: KHEAP_START / 4096
          Remappable        \* virtual pages callers of set_page_table_enrty redirect

ASSUME DirEntriesAssumption == NO_DIR_ENTRIES \in Nat \ {0}
ASSUME PageEntriesAssumption == NO_PAGE_ENTRIES \in Nat \ {0}
ASSUME HeapPagesAssumption == NPages \in Nat

(* The heap lies inside the address space, and nobody redirects the virtual *)
(* pages of the heap itself, through which the tables are reached.           *)
ASSUME HeapFrameAssumption ==
    HeapFrame \in Nat /\ HeapFrame + NPages <= NO_DIR_ENTRIES * NO_PAGE_ENTRIES
ASSUME RemappableAssumption ==
    Remappable \subseteq (0 .. (NO_DIR_ENTRIES * NO_PAGE_ENTRIES - 1))
                             \ (HeapFrame .. (HeapFrame + NPages - 1))

VARIABLES table,        \* the page heap's table
          others,       \* heap pages held by other kernel code
          dir,          \* rtn_val of create_32_dir_table
          entry,        \* the directory page: a page table or NULL per entry
          pt,           \* the contents of heap pages used as page tables
          i, offset,    \* locals of create_32_dir_table
          cr3,          \* the directory the processor uses
          stray,        \* a write through an absent directory entry happened
          want,         \* history: the frame each virtual page should map to
          spare,        \* history: free pages when the build began
          pc

vars == <<table, others, dir, entry, pt, i, offset, cr3, stray, want, spare, pc>>

NULL == -1

Pages  == 0 .. (NPages - 1)
DirSet == 0 .. (NO_DIR_ENTRIES - 1)
PteSet == 0 .. (NO_PAGE_ENTRIES - 1)
Frames == NO_DIR_ENTRIES * NO_PAGE_ENTRIES
FrameSet == 0 .. (Frames - 1)

(* What an entry of a page table maps to, NULL for one that is not present. *)
Targets == FrameSet \cup {NULL}

VirtOf(d, j) == d * NO_PAGE_ENTRIES + j

FreePage == FirstFit(table, 1)
(* Mutant: the page is not marked taken. *)
TakeNothing(p) == table

Take(p) == [table EXCEPT ![p] = SINGLE]

-----------------------------------------------------------------------------
(* kmalloc and kfree of one page by the rest of the kernel, which does not   *)
(* run while a directory is being built.                                     *)
OtherKmalloc ==
    /\ pc # "fill"
    /\ FreePage # -1
    /\ table' = Take(FreePage)
    /\ others' = others \cup {FreePage}
    /\ UNCHANGED <<dir, entry, pt, i, offset, cr3, stray, want, spare, pc>>

OtherKfree ==
    /\ pc # "fill"
    /\ \E p \in others : /\ table' = [table EXCEPT ![p] = FREE]
                         /\ others' = others \ {p}
    /\ UNCHANGED <<dir, entry, pt, i, offset, cr3, stray, want, spare, pc>>

-----------------------------------------------------------------------------
(* create_32_dir_table up to its loop: a page for the directory, or NULL.    *)
CreateDir ==
    /\ pc = "start"
    /\ spare' = Cardinality({p \in Pages : table[p] = FREE})
    /\ dir' = FreePage
    /\ \/ /\ FreePage # -1
          /\ table' = Take(FreePage)
          /\ pc' = "fill"
       \/ /\ FreePage = -1
          /\ pc' = "built"
          /\ UNCHANGED table
    /\ UNCHANGED <<others, entry, pt, i, offset, cr3, stray, want>>

(* Mutant: offset is not moved on. *)
FillEntryNoAdvance ==
    /\ pc = "fill" /\ i < NO_DIR_ENTRIES
    /\ FreePage # -1
    /\ table' = Take(FreePage)
    /\ entry' = [entry EXCEPT ![i] = FreePage]
    /\ pt' = [pt EXCEPT ![FreePage] = [j \in PteSet |-> (offset + j) % Frames]]
    /\ i' = i + 1
    /\ UNCHANGED <<others, dir, offset, cr3, stray, want, spare, pc>>

(* Mutant: the inner loop leaves out the last page of a table. *)
FillEntryShort ==
    /\ pc = "fill" /\ i < NO_DIR_ENTRIES
    /\ FreePage # -1
    /\ table' = Take(FreePage)
    /\ entry' = [entry EXCEPT ![i] = FreePage]
    /\ pt' = [pt EXCEPT ![FreePage] =
                  [j \in PteSet |-> IF j = NO_PAGE_ENTRIES - 1
                                    THEN 0 ELSE (offset + j) % Frames]]
    /\ offset' = (offset + NO_PAGE_ENTRIES) % Frames
    /\ i' = i + 1
    /\ UNCHANGED <<others, dir, cr3, stray, want, spare, pc>>

(* One round of the loop that got a page: the table is filled from offset,   *)
(* which moves on by one table.                                              *)
FillEntry ==
    /\ pc = "fill" /\ i < NO_DIR_ENTRIES
    /\ FreePage # -1
    /\ table' = Take(FreePage)
    /\ entry' = [entry EXCEPT ![i] = FreePage]
    /\ pt' = [pt EXCEPT ![FreePage] = [j \in PteSet |-> (offset + j) % Frames]]
    /\ offset' = (offset + NO_PAGE_ENTRIES) % Frames
    /\ i' = i + 1
    /\ UNCHANGED <<others, dir, cr3, stray, want, spare, pc>>

(* One round that got NULL: the entry is absent and offset stays.            *)
FillAbsent ==
    /\ pc = "fill" /\ i < NO_DIR_ENTRIES
    /\ FreePage = -1
    /\ entry' = [entry EXCEPT ![i] = NULL]
    /\ i' = i + 1
    /\ UNCHANGED <<table, others, dir, pt, offset, cr3, stray, want, spare, pc>>

(* Mutant: the loop stops one entry early. *)
FillDoneEarly ==
    /\ pc = "fill" /\ i >= NO_DIR_ENTRIES - 1
    /\ pc' = "built"
    /\ UNCHANGED <<table, others, dir, entry, pt, i, offset, cr3, stray, want, spare>>

FillDone ==
    /\ pc = "fill" /\ i >= NO_DIR_ENTRIES
    /\ pc' = "built"
    /\ UNCHANGED <<table, others, dir, entry, pt, i, offset, cr3, stray, want, spare>>

(* set_dir_table: cr3 and cur_dir_table. *)
set_dir_table ==
    /\ pc = "built"
    /\ cr3' = dir
    /\ pc' = "loaded"
    /\ UNCHANGED <<table, others, dir, entry, pt, i, offset, stray, want, spare>>

enable_paging ==
    /\ pc = "loaded"
    /\ pc' = "on"
    /\ UNCHANGED <<table, others, dir, entry, pt, i, offset, cr3, stray, want, spare>>

(* get_index_from_virt for a page-aligned address. *)
dir_index(virt)  == virt \div NO_PAGE_ENTRIES
page_index(virt) == virt % NO_PAGE_ENTRIES

(* set_page_table_enrty; an unaligned address is refused with no change.     *)
(* val is a frame, or NULL when set_val and flags have no present bit.       *)
(* The directory entry is not checked for presence, so                       *)
(* an absent one sends the write to the page at address 0.                   *)
set_page_table_enrty(virt, val) ==
    /\ pc \in {"built", "loaded", "on"} /\ dir # NULL
    /\ LET p == entry[dir_index(virt)]
       IN  \/ /\ p # NULL
              /\ pt' = [pt EXCEPT ![p][page_index(virt)] = val]
              /\ UNCHANGED stray
           \/ /\ p = NULL
              /\ stray' = TRUE
              /\ UNCHANGED pt
    /\ want' = [want EXCEPT ![virt] = val]
    /\ UNCHANGED <<table, others, dir, entry, i, offset, cr3, spare, pc>>

-----------------------------------------------------------------------------
(* The heap has just been created. *)
Init ==
    /\ table = [p \in Pages |-> FREE]
    /\ others = {}
    /\ dir = NULL
    /\ entry = [d \in DirSet |-> NULL]
    /\ pt = [p \in Pages |-> [j \in PteSet |-> 0]]
    /\ i = 0
    /\ offset = 0
    /\ cr3 = NULL
    /\ stray = FALSE
    /\ want = [v \in FrameSet |-> v]
    /\ spare = 0
    /\ pc = "start"

Next ==
    \/ OtherKmalloc \/ OtherKfree
    \/ CreateDir \/ FillEntry \/ FillAbsent \/ FillDone
    \/ set_dir_table \/ enable_paging
    \/ \E virt \in Remappable, val \in Targets : set_page_table_enrty(virt, val)

Spec == Init /\ [][Next]_vars

-----------------------------------------------------------------------------
(* PROPERTIES *)

(* Directory entries are absent or name heap pages, and every page-table     *)
(* entry is absent or a frame of the 32-bit address space, the wrapped       *)
(* offset included.                                                          *)
TypeOK ==
    /\ table \in [Pages -> {FREE, SINGLE}]
    /\ others \subseteq Pages
    /\ dir \in {NULL} \cup Pages
    /\ entry \in [DirSet -> {NULL} \cup Pages]
    /\ pt \in [Pages -> [PteSet -> Targets]]
    /\ i \in 0 .. NO_DIR_ENTRIES
    /\ offset \in FrameSet
    /\ cr3 \in {NULL} \cup Pages
    /\ stray \in BOOLEAN
    /\ want \in [FrameSet -> Targets]
    /\ spare \in 0 .. NPages
    /\ pc \in {"start", "fill", "built", "loaded", "on"}

(* paging.c:13-14, "mapping of these addresses such that physical addr=      *)
(* virtual addr": every virtual page behind a present directory entry maps   *)
(* to itself or to what it was last redirected to.  Absent entries do not    *)
(* move offset on, so this fails if a page is ever got after a refusal.      *)
MappingKept ==
    \A d \in DirSet, j \in PteSet :
        entry[d] # NULL => pt[entry[d]][j] = want[VirtOf(d, j)]

(* The directory, the page tables and the pages other code holds are all     *)
(* different pages, taken in the heap's table.                               *)
TablesPrivate ==
    /\ \A d, e \in DirSet : d # e /\ entry[d] # NULL => entry[d] # entry[e]
    /\ \A d \in DirSet : entry[d] # NULL => /\ entry[d] # dir
                                            /\ entry[d] \notin others
                                            /\ table[entry[d]] = SINGLE
    /\ dir # NULL => dir \notin others /\ table[dir] = SINGLE

(* The kernel goes on running when paging is switched on: the directory and  *)
(* every page table, which paging.c reaches by their physical addresses,     *)
(* are found by the processor at those same virtual addresses.               *)
TablesReachable ==
    pc = "on" /\ spare >= NO_DIR_ENTRIES + 1 =>
        \A p \in {cr3} \cup {entry[d] : d \in DirSet} :
            LET virt == HeapFrame + p
            IN  pt[entry[dir_index(virt)]][page_index(virt)] = virt

(* With a page for the directory and one for each entry to be had when the   *)
(* build begins, the whole address space is mapped and no write to a page    *)
(* table goes astray.                                                        *)
FullyMapped ==
    spare >= NO_DIR_ENTRIES + 1 /\ pc \in {"built", "loaded", "on"} =>
        /\ dir # NULL
        /\ \A d \in DirSet : entry[d] # NULL
        /\ ~ stray
=============================================================================

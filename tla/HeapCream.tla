------------------------------ MODULE HeapCream ------------------------------
(***************************************************************************)
(* heap_cream.c, the small-object allocator every driver uses, over the    *)
(* page heap of heap.c: a directory (mothermary) of pages cut by heap32.c. *)
(* The page heap has other users too; disk_stream.c takes whole pages,     *)
(* fills them and gives them back, so a page may come back to the slab     *)
(* allocator with old bytes in it: kzalloc(1) clears one byte.             *)
(*                                                                         *)
(* The kernel is single-threaded: each call is one step.  RAM is zero when *)
(* the machine starts, as under the emulator the kernel is run on.         *)
(***************************************************************************)
EXTENDS Heap32, FiniteSets

CONSTANTS NPages,       \* blocks of the page heap
          MaxHeap,      \* MAX_4KB_HEAP, slots of the directory
          Sizes,        \* request sizes in bytes
          MaxStreams,   \* bound: disk streams open at once
          SectorData    \* what a disk sector may leave in a page's header

ASSUME NPagesAssumption == NPages \in Nat
ASSUME MaxHeapAssumption == MaxHeap \in Nat
ASSUME CreamSizesAssumption == Sizes \subseteq Nat
ASSUME MaxStreamsAssumption == MaxStreams \in Nat
ASSUME SectorDataAssumption == SectorData \subseteq Pages32

VARIABLES table,        \* the page heap's table
          mem,          \* the header bytes of every page
          mothermary,   \* the directory: a page or NULL per index
          streams,      \* pages held by open disk streams
          chunks,       \* history: the chunks callers hold
          last          \* history: the last call and whether it succeeded

vars == <<table, mem, mothermary, streams, chunks, last>>

NULL == -1

Pages == 0 .. (NPages - 1)
Dir   == 0 .. (MaxHeap - 1)

(* A chunk and the pointer a caller has for it. *)
Chunks == [page : Pages, slot : SlotSet, len : 1 .. Slots]
PtrOf(c) == <<c.page, DATA_OFFSET_BYTES + c.slot * SlotBytes>>

Pointers == Pages \X (0 .. (PageBytes - 1))

Call(op, arg, ok) == last' = [op |-> op, arg |-> arg, ok |-> ok]

-----------------------------------------------------------------------------
(* The page heap as its single-page users see it (KHeap). *)
FreePage == FirstFit(table, 1)
Take(p)  == [table EXCEPT ![p] = SINGLE]
Give(t, p) == [t EXCEPT ![p] = FREE]

(* kzalloc(1): one byte of the page is cleared. *)
Kzalloced1(p) == [mem[p] EXCEPT ![0] = 0]

-----------------------------------------------------------------------------
(* The indices both loops of heap_cream.c visit: up to the first 0 entry. *)
Visited == {i \in Dir : \A j \in 0 .. i : mothermary[j] # NULL}

Serving(s) == {i \in Visited : CanServe(mem[mothermary[i]], s)}

(* What malloc_32 adds to the chunks callers hold. *)
NewChunk(p, h, s) ==
    [page |-> p, slot |-> get_index(h, NoBlocks(s)), len |-> NoBlocks(s)]

(* heap_cream_malloc of more than a page holds. *)
MallocTooBig(s) ==
    /\ s > TOTAL_BYTES_AVAIL
    /\ Call("malloc", s, FALSE)
    /\ UNCHANGED <<table, mem, mothermary, streams, chunks>>

(* The first visited page with room serves the request. *)
MallocFromDir(s) ==
    /\ s <= TOTAL_BYTES_AVAIL
    /\ \E i \in Serving(s) :
          LET p == mothermary[i]
          IN  /\ \A j \in Serving(s) : i <= j
              /\ mem' = [mem EXCEPT ![p] = malloc_32(mem[p], s)]
              /\ chunks' = chunks \cup {NewChunk(p, mem[p], s)}
    /\ Call("malloc", s, TRUE)
    /\ UNCHANGED <<table, mothermary, streams>>

(* No visited page has room and every index is in use. *)
MallocDirFull(s) ==
    /\ s <= TOTAL_BYTES_AVAIL
    /\ Serving(s) = {} /\ Visited = Dir
    /\ Call("malloc", s, FALSE)
    /\ UNCHANGED <<table, mem, mothermary, streams, chunks>>

(* No page to be had: the directory entry is assigned the NULL it held. *)
MallocNoPage(s) ==
    /\ s <= TOTAL_BYTES_AVAIL
    /\ Serving(s) = {} /\ Visited # Dir
    /\ FreePage = -1
    /\ Call("malloc", s, FALSE)
    /\ UNCHANGED <<table, mem, mothermary, streams, chunks>>

(* A page is added at the first 0 entry and asked once; it stays in the      *)
(* directory even when it cannot serve the request.                          *)
MallocNewPage(s) ==
    /\ s <= TOTAL_BYTES_AVAIL
    /\ Serving(s) = {} /\ Visited # Dir
    /\ FreePage # -1
    /\ LET p == FreePage
           h == table_guard_set(Kzalloced1(p))
           ok == CanServe(h, s)
       IN  /\ table' = Take(p)
           /\ mothermary' = [mothermary EXCEPT ![Cardinality(Visited)] = p]
           /\ mem' = [mem EXCEPT ![p] = IF ok THEN malloc_32(h, s) ELSE h]
           /\ chunks' = IF ok THEN chunks \cup {NewChunk(p, h, s)} ELSE chunks
           /\ Call("malloc", s, ok)
    /\ UNCHANGED streams

heap_cream_malloc(s) ==
    \/ MallocTooBig(s)
    \/ MallocFromDir(s)
    \/ MallocDirFull(s)
    \/ MallocNoPage(s)
    \/ MallocNewPage(s)

-----------------------------------------------------------------------------
(* Mutant: the loop of heap_cream_single_chk_kill looks at one slot. *)
EmptyFirst(h) == h[0] = FREE

Empty(h) == \A k \in SlotSet : h[k] = FREE

(* A chunk is gone when the code has cleared its first table byte. *)
StillHeld(c, m) == m[c.page][c.slot] # FREE

(* Mutant: heap_cream_kill leaves the directory entry. *)
FreeKeepEntry(ptr) ==
    \E i \in Visited :
        LET p == mothermary[i]
            f == heap32_free(mem[p], ptr[2])
            kill == f.ok /\ Empty(f.h)
        IN  /\ ptr[1] = p
            /\ mem' = [mem EXCEPT ![p] = f.h]
            /\ table' = IF kill THEN Give(table, p) ELSE table
            /\ chunks' = {c \in chunks : StillHeld(c, mem')}
            /\ Call("free", ptr, f.ok)
            /\ UNCHANGED <<mothermary, streams>>

(* heap_cream_free finds the pointer's page among the visited ones, clears   *)
(* the chunk and gives an empty page back (heap_cream_single_chk_kill).      *)
FreeFound(ptr) ==
    \E i \in Visited :
        LET p == mothermary[i]
            f == heap32_free(mem[p], ptr[2])
            kill == f.ok /\ Empty(f.h)
        IN  /\ ptr[1] = p
            /\ mem' = [mem EXCEPT ![p] = f.h]
            /\ table' = IF kill THEN Give(table, p) ELSE table
            /\ mothermary' = IF kill THEN [mothermary EXCEPT ![i] = NULL] ELSE mothermary
            /\ chunks' = {c \in chunks : StillHeld(c, mem')}
            /\ Call("free", ptr, f.ok)
            /\ UNCHANGED streams

FreeNotFound(ptr) ==
    /\ \A i \in Visited : mothermary[i] # ptr[1]
    /\ Call("free", ptr, FALSE)
    /\ UNCHANGED <<table, mem, mothermary, streams, chunks>>

heap_cream_free(ptr) == FreeFound(ptr) \/ FreeNotFound(ptr)

-----------------------------------------------------------------------------
(* Other users of the page heap.  init_disk_stream takes a page and keeps    *)
(* it: kzalloc clears the bytes of the struct, then pos (header byte 0) and  *)
(* the disk pointer (header byte 1) are stored.  free_disk_stream gives the  *)
(* page back as it is.  get_bytes_from_disk takes a page for its sector      *)
(* buffer, zeroes it, reads sectors into it and gives it back before it      *)
(* returns; when the first read fails the page comes back zeroed.  Neither   *)
(* checks kzalloc for NULL: what they do without a page is not modelled.     *)
Zeroed == [k \in Header |-> 0]

init_disk_stream ==
    /\ Cardinality(streams) < MaxStreams
    /\ FreePage # -1
    /\ table' = Take(FreePage)
    /\ streams' = streams \cup {FreePage}
    /\ mem' = [mem EXCEPT ![FreePage] = [@ EXCEPT ![0] = 0, ![1] = JUNK]]
    /\ Call("open", NULL, TRUE)
    /\ UNCHANGED <<mothermary, chunks>>

free_disk_stream ==
    \E p \in streams :
        /\ table' = Give(table, p)
        /\ streams' = streams \ {p}
        /\ Call("close", NULL, TRUE)
        /\ UNCHANGED <<mem, mothermary, chunks>>

get_bytes_from_disk ==
    /\ streams # {} /\ FreePage # -1
    /\ \E d \in SectorData \cup {Zeroed} : mem' = [mem EXCEPT ![FreePage] = d]
    /\ Call("read", NULL, TRUE)
    /\ UNCHANGED <<table, mothermary, streams, chunks>>

-----------------------------------------------------------------------------
(* help_me_mary_mother_of_god has run; the directory's own page is not       *)
(* among Pages, as nothing ever frees it.                                    *)
Init ==
    /\ table = [p \in Pages |-> FREE]
    /\ mem = [p \in Pages |-> Zeroed]
    /\ mothermary = [i \in Dir |-> NULL]
    /\ streams = {}
    /\ chunks = {}
    /\ last = [op |-> "boot", arg |-> NULL, ok |-> TRUE]

Next ==
    \/ \E s \in Sizes : heap_cream_malloc(s)
    \/ \E ptr \in Pointers : heap_cream_free(ptr)
    \/ init_disk_stream
    \/ free_disk_stream
    \/ get_bytes_from_disk

Spec == Init /\ [][Next]_vars

-----------------------------------------------------------------------------
(* PROPERTIES *)

(* The heap's users here take single pages, so its table holds no other mark; *)
(* a slab header holds table bytes, guard bytes or old data.                 *)
TypeOK ==
    /\ table \in [Pages -> {FREE, SINGLE}]
    /\ mem \in [Pages -> Pages32]
    /\ mothermary \in [Dir -> {NULL} \cup Pages]
    /\ streams \subseteq Pages
    /\ chunks \subseteq Chunks

Registered == {mothermary[i] : i \in Dir} \ {NULL}

SlotsOf(c) == c.slot .. (c.slot + c.len - 1)

(* Two callers never hold overlapping chunks, whatever old bytes a page came *)
(* back with and however the directory is fragmented.                        *)
ChunksDisjoint ==
    \A c, d \in chunks :
        c # d /\ c.page = d.page => SlotsOf(c) \cap SlotsOf(d) = {}

(* A page with a chunk somebody holds is never given back to the page heap:  *)
(* it is in the directory, taken, and no disk stream writes to it.           *)
ChunksBacked ==
    \A c \in chunks : /\ c.page \in Registered
                      /\ table[c.page] = SINGLE
                      /\ c.page \notin streams

(* A page has one owner: one index of the directory, or one stream. *)
OneOwner ==
    /\ \A i, j \in Dir : i # j /\ mothermary[i] # NULL => mothermary[i] # mothermary[j]
    /\ Registered \cap streams = {}
    /\ \A p \in Registered \cup streams : table[p] = SINGLE

(* heap_cream_free retires the chunk its pointer names and no other, also    *)
(* when heap32_free gives up half way at a corrupted middle.                 *)
FreeExact ==
    [][\A c \in chunks : c \notin chunks' => /\ last'.op = "free"
                                             /\ last'.ok
                                             /\ last'.arg = PtrOf(c)
                                             /\ chunks' = chunks \ {c}]_vars

(* heap_cream.c:95: "we need to find which page block we have it": freeing a  *)
(* chunk one holds succeeds.                                                 *)
FreeFindsChunk ==
    [][\A c \in chunks :
          last'.op = "free" /\ last'.arg = PtrOf(c) => last'.ok]_vars
=============================================================================

---------------------------- MODULE PagingProofs -----------------------------
(***************************************************************************)
(* Proofs about Paging for every number of entries, heap size and position *)
(* of the heap, and for every set of pages callers redirect.               *)
(***************************************************************************)
EXTENDS Paging, FiniteSetTheorems, TLAPS

USE DEF NULL, FREE, SINGLE

FreeSet == {p \in Pages : table[p] = FREE}

(* What other kernel code holds is taken. *)
OthersTaken == \A p \in others : table[p] = SINGLE

(* Nothing is redirected before the directory is built, and no redirection   *)
(* touches the virtual pages of the heap.                                    *)
Redirected ==
    /\ pc \in {"start", "fill"} => stray = FALSE /\ \A v \in FrameSet : want[v] = v
    /\ \A v \in HeapFrame .. (HeapFrame + NPages - 1) : want[v] = v

(* The loop of create_32_dir_table: entries from i on are still absent, and  *)
(* a round that got no page is followed by such rounds only, since nobody    *)
(* frees a page meanwhile; until then offset is where entry i begins.        *)
LoopState ==
    /\ pc = "start" => i = 0 /\ offset = 0
    /\ pc \in {"start", "fill"} =>
        \A d \in DirSet : d >= i => entry[d] = NULL
    /\ pc = "fill" =>
        \/ FreeSet = {}
        \/ \A d \in DirSet : d < i => entry[d] # NULL
    /\ pc \in {"start", "fill"} /\ i < NO_DIR_ENTRIES
        /\ (\A d \in DirSet : d < i => entry[d] # NULL) =>
            offset = i * NO_PAGE_ENTRIES

(* With enough spare pages no round is refused: the pages left cover the     *)
(* rounds left.                                                              *)
EnoughLeft ==
    spare >= NO_DIR_ENTRIES + 1 /\ pc = "fill" =>
        /\ Cardinality(FreeSet) >= NO_DIR_ENTRIES - i
        /\ \A d \in DirSet : d < i => entry[d] # NULL

(* Which directory the processor has been given. *)
Loaded ==
    /\ pc = "start" => spare = 0
    /\ pc = "fill" => dir # NULL
    /\ pc \in {"loaded", "on"} => cr3 = dir

PagingInv ==
    /\ TypeOK
    /\ TablesPrivate /\ OthersTaken
    /\ MappingKept /\ Redirected
    /\ LoopState /\ EnoughLeft /\ Loaded
    /\ FullyMapped
-----------------------------------------------------------------------------
(* Operators of the model. *)

(* Every non-empty set of naturals has a least element. *)
LEMMA LeastNatural ==
    ASSUME NEW S \in SUBSET Nat, S # {}
    PROVE  \E m \in S : \A n \in S : m <= n
<1>1. PICK m \in S : \A n \in S : ~ (<<n, m>> \in OpToRel(<, Nat))
  BY NatLessThanWellFounded, WFMin
<1>2. \A n \in S : ~ (n < m)
  BY <1>1 DEF OpToRel
<1> QED
  BY <1>2

(* kmalloc of one page finds a free page whenever there is one. *)
LEMMA FreePageFound ==
    ASSUME TypeOK
    PROVE  \/ FreePage = -1 /\ FreeSet = {}
           \/ FreePage \in FreeSet /\ FreePage \in Pages /\ FreePage # -1
<1>1. DOMAIN table = Pages /\ NPages \in Nat
  BY HeapPagesAssumption DEF TypeOK
<1>2. Runs(table, 1) = FreeSet
  <2>1. \A q \in Pages : q .. (q + 1 - 1) = {q}
    BY <1>1 DEF Pages
  <2> QED
    BY <1>1, <2>1 DEF Runs, FreeSet
<1>3. FreeSet \in SUBSET Nat /\ \A q \in Pages : q # -1
  BY <1>1 DEF FreeSet, Pages
<1>4. CASE FreeSet = {}
  BY <1>2, <1>4 DEF FreePage, FirstFit
<1>5. CASE FreeSet # {}
  <2>1. \E m \in FreeSet : \A n \in FreeSet : m <= n
    BY <1>3, <1>5, LeastNatural
  <2>2. FreePage \in FreeSet
    BY <1>2, <1>5, <2>1 DEF FreePage, FirstFit
  <2> QED
    BY <1>3, <2>2 DEF FreeSet
<1> QED
  BY <1>4, <1>5

(* The number of free pages, and what taking one does to it. *)
LEMMA FreeCount ==
    /\ IsFiniteSet(FreeSet)
    /\ Cardinality(FreeSet) \in 0 .. NPages
    /\ Cardinality(FreeSet) = 0 <=> FreeSet = {}
    /\ \A q \in FreeSet : Cardinality(FreeSet \ {q}) = Cardinality(FreeSet) - 1
<1>1. NPages \in Nat
  BY HeapPagesAssumption
<1>2. IsFiniteSet(Pages) /\ Cardinality(Pages) = NPages
  BY <1>1, FS_Interval DEF Pages
<1>3. FreeSet \in SUBSET Pages
  BY DEF FreeSet
<1>4. IsFiniteSet(FreeSet) /\ Cardinality(FreeSet) <= NPages
  BY <1>2, <1>3, FS_Subset
<1>5. Cardinality(FreeSet) \in Nat
  BY <1>4, FS_CardinalityType
<1>6. Cardinality(FreeSet) = 0 <=> FreeSet = {}
  BY <1>4, FS_EmptySet
<1>7. \A q \in FreeSet : Cardinality(FreeSet \ {q}) = Cardinality(FreeSet) - 1
  BY <1>4, FS_RemoveElement
<1> QED
  BY <1>1, <1>4, <1>5, <1>6, <1>7

(* The constants in the form the proofs use. *)
LEMMA Sizes ==
    /\ NO_DIR_ENTRIES \in Nat /\ NO_DIR_ENTRIES > 0
    /\ NO_PAGE_ENTRIES \in Nat /\ NO_PAGE_ENTRIES > 0
    /\ Frames \in Nat /\ Frames > 0
    /\ NPages \in Nat /\ HeapFrame \in Nat /\ HeapFrame + NPages <= Frames
    /\ Remappable \subseteq FrameSet \ (HeapFrame .. (HeapFrame + NPages - 1))
<1>1. /\ NO_DIR_ENTRIES \in Nat /\ NO_DIR_ENTRIES > 0
      /\ NO_PAGE_ENTRIES \in Nat /\ NO_PAGE_ENTRIES > 0
  BY DirEntriesAssumption, PageEntriesAssumption
<1>2. Frames \in Nat /\ Frames > 0
  BY <1>1 DEF Frames
<1> QED
  BY <1>1, <1>2, HeapPagesAssumption, HeapFrameAssumption, RemappableAssumption
     DEF Frames, FrameSet

(* A directory entry begins inside the address space and ends inside it. *)
LEMMA VirtInside ==
    ASSUME NEW d \in DirSet, NEW j \in PteSet
    PROVE  /\ VirtOf(d, j) \in FrameSet
           /\ d * NO_PAGE_ENTRIES \in Nat
           /\ d * NO_PAGE_ENTRIES + j < Frames
<1>1. d \in Nat /\ d <= NO_DIR_ENTRIES - 1 /\ j \in Nat /\ j <= NO_PAGE_ENTRIES - 1
  BY Sizes DEF DirSet, PteSet
<1>2. d * NO_PAGE_ENTRIES \in Nat /\ d * NO_PAGE_ENTRIES <= (NO_DIR_ENTRIES - 1) * NO_PAGE_ENTRIES
  BY <1>1, Sizes
<1>3. (NO_DIR_ENTRIES - 1) * NO_PAGE_ENTRIES = Frames - NO_PAGE_ENTRIES
  BY Sizes DEF Frames
<1> QED
  BY <1>1, <1>2, <1>3, Sizes DEF VirtOf, FrameSet

(* get_index_from_virt takes a virtual page apart, and only its own entry    *)
(* and index put it together again.                                          *)
LEMMA VirtSplit ==
    ASSUME NEW virt \in FrameSet
    PROVE  /\ dir_index(virt) \in DirSet
           /\ page_index(virt) \in PteSet
           /\ VirtOf(dir_index(virt), page_index(virt)) = virt
           /\ \A d \in DirSet, j \in PteSet :
                VirtOf(d, j) = virt => d = dir_index(virt) /\ j = page_index(virt)
<1> DEFINE n == NO_PAGE_ENTRIES
           q == virt \div n
           r == virt % n
<1>1. virt \in Nat /\ virt < Frames /\ n \in Nat \ {0}
  BY Sizes DEF FrameSet
<1>2. q \in Nat /\ r \in 0 .. (n - 1) /\ virt = n * q + r
  BY <1>1
<1>3. Frames = n * NO_DIR_ENTRIES
  BY Sizes DEF Frames
<1> HIDE DEF n, q, r
<1>4. q < NO_DIR_ENTRIES
  <2> SUFFICES ASSUME q >= NO_DIR_ENTRIES PROVE FALSE
    BY <1>2, Sizes
  <2>1. n * q >= n * NO_DIR_ENTRIES
    BY <1>1, <1>2, Sizes
  <2> QED
    BY <1>1, <1>2, <1>3, <2>1, Sizes
<1>5. dir_index(virt) = q /\ page_index(virt) = r
  BY DEF dir_index, page_index, n, q, r
<1>6. q * n = n * q
  BY <1>1, <1>2
<1>7. ASSUME NEW d \in DirSet, NEW j \in PteSet, VirtOf(d, j) = virt
      PROVE  d = q /\ j = r
  <2>1. d \in Nat /\ j \in 0 .. (n - 1)
    BY Sizes DEF DirSet, PteSet, n
  <2>2. n * d + j = n * q + r
    BY <1>1, <1>2, <1>7, <2>1 DEF VirtOf, n
  <2>3. n * d = n * q + (r - j)
    BY <1>1, <1>2, <2>1, <2>2
  <2>4. n * (d - q) = n * d - n * q
    BY <1>1, <1>2, <2>1
  <2>5. n * d \in Int /\ n * q \in Int
    BY <1>1, <1>2, <2>1
  <2>6. n * (d - q) = r - j
    BY <1>2, <2>1, <2>3, <2>4, <2>5
  <2>7. d - q >= 1 => n * (d - q) >= n
    BY <1>1, <1>2, <2>1
  <2>8. d - q <= -1 => n * (d - q) <= -n
    BY <1>1, <1>2, <2>1
  <2>9. d = q
    BY <1>1, <1>2, <2>1, <2>6, <2>7, <2>8
  <2> QED
    BY <1>2, <2>1, <2>2, <2>5, <2>9
<1> QED
  BY <1>1, <1>2, <1>4, <1>5, <1>6, <1>7, Sizes DEF DirSet, PteSet, VirtOf, n
-----------------------------------------------------------------------------
(* The invariant is kept. *)

(* Taking the page kmalloc finds. *)
LEMMA PageTaken ==
    ASSUME PagingInv, FreePage # -1, table' = Take(FreePage)
    PROVE  /\ FreePage \in Pages /\ table[FreePage] = FREE
           /\ table' \in [Pages -> {FREE, SINGLE}]
           /\ table'[FreePage] = SINGLE
           /\ \A q \in Pages : table[q] = SINGLE => table'[q] = SINGLE /\ q # FreePage
           /\ FreeSet' = FreeSet \ {FreePage}
           /\ FreePage \notin others
           /\ FreePage # dir
           /\ \A d \in DirSet : entry[d] # FreePage
           /\ Cardinality(FreeSet') = Cardinality(FreeSet) - 1
<1>1. TypeOK /\ FreePage \in FreeSet /\ FreePage \in Pages
  BY FreePageFound DEF PagingInv
<1>2. table[FreePage] = FREE
  BY <1>1 DEF FreeSet
<1>3. table' \in [Pages -> {FREE, SINGLE}] /\ table' = [table EXCEPT ![FreePage] = SINGLE]
  BY <1>1 DEF Take, TypeOK
<1>4. FreeSet' = FreeSet \ {FreePage}
  BY <1>1, <1>3 DEF FreeSet, TypeOK
<1>5. Cardinality(FreeSet') = Cardinality(FreeSet) - 1
  BY <1>1, <1>4, FreeCount
<1>6. FreePage \notin others /\ FreePage # dir /\ \A d \in DirSet : entry[d] # FreePage
  BY <1>1, <1>2 DEF PagingInv, OthersTaken, TablesPrivate
<1> QED
  BY <1>1, <1>2, <1>3, <1>4, <1>5, <1>6 DEF TypeOK

(* kmalloc and kfree by the rest of the kernel. *)
LEMMA OthersKeepInv == PagingInv /\ (OtherKmalloc \/ OtherKfree) => PagingInv'
<1> SUFFICES ASSUME PagingInv, OtherKmalloc \/ OtherKfree PROVE PagingInv'
  OBVIOUS
<1>1. /\ pc # "fill"
      /\ UNCHANGED <<dir, entry, pt, i, offset, cr3, stray, want, spare, pc>>
  BY DEF OtherKmalloc, OtherKfree
<1>2. MappingKept' /\ Redirected' /\ Loaded' /\ FullyMapped' /\ EnoughLeft'
  BY <1>1 DEF PagingInv, MappingKept, Redirected, Loaded, FullyMapped, EnoughLeft
<1>3. LoopState'
  BY <1>1 DEF PagingInv, LoopState
<1>4. CASE OtherKmalloc
  <2>1. FreePage # -1 /\ table' = Take(FreePage) /\ others' = others \cup {FreePage}
    BY <1>4 DEF OtherKmalloc
  <2>2. TypeOK'
    BY <1>1, <2>1, PageTaken DEF PagingInv, TypeOK
  <2>3. OthersTaken'
    BY <2>1, PageTaken DEF PagingInv, TypeOK, OthersTaken
  <2>4. TablesPrivate'
    BY <1>1, <2>1, PageTaken DEF PagingInv, TypeOK, TablesPrivate
  <2> QED
    BY <1>2, <1>3, <2>2, <2>3, <2>4 DEF PagingInv
<1>5. CASE OtherKfree
  <2>1. PICK q \in others : /\ table' = [table EXCEPT ![q] = FREE]
                            /\ others' = others \ {q}
    BY <1>5 DEF OtherKfree
  <2>2. q \in Pages /\ TypeOK'
    BY <1>1, <2>1 DEF PagingInv, TypeOK
  <2>3. OthersTaken'
    BY <2>1, <2>2 DEF PagingInv, TypeOK, OthersTaken
  <2>4. TablesPrivate'
    BY <1>1, <2>1, <2>2 DEF PagingInv, TypeOK, TablesPrivate
  <2> QED
    BY <1>2, <1>3, <2>2, <2>3, <2>4 DEF PagingInv
<1> QED
  BY <1>4, <1>5

(* The page for the directory. *)
LEMMA CreateKeepsInv == PagingInv /\ CreateDir => PagingInv'
<1> SUFFICES ASSUME PagingInv, CreateDir PROVE PagingInv'
  OBVIOUS
<1>1. /\ pc = "start" /\ spare' = Cardinality(FreeSet) /\ dir' = FreePage
      /\ UNCHANGED <<others, entry, pt, i, offset, cr3, stray, want>>
  BY DEF CreateDir, FreeSet
<1>2. /\ i = 0 /\ offset = 0 /\ stray = FALSE
      /\ \A d \in DirSet : entry[d] = NULL
      /\ \A v \in FrameSet : want[v] = v
  BY <1>1, Sizes DEF PagingInv, LoopState, Redirected, TypeOK, DirSet
<1>3. MappingKept'
  BY <1>1, <1>2 DEF MappingKept
<1>4. \A v \in HeapFrame .. (HeapFrame + NPages - 1) : want'[v] = v
  BY <1>1 DEF PagingInv, Redirected
<1>5. spare' \in 0 .. NPages
  BY <1>1, FreeCount
<1>6. CASE FreePage # -1
  <2>1. table' = Take(FreePage) /\ pc' = "fill"
    BY <1>6 DEF CreateDir
  <2>2. TypeOK'
    BY <1>1, <1>5, <1>6, <2>1, PageTaken DEF PagingInv, TypeOK
  <2>3. OthersTaken' /\ TablesPrivate'
    BY <1>1, <1>2, <1>6, <2>1, PageTaken DEF PagingInv, TypeOK, OthersTaken, TablesPrivate
  <2>4. Redirected' /\ Loaded' /\ FullyMapped'
    BY <1>1, <1>2, <1>4, <1>6, <2>1 DEF Redirected, Loaded, FullyMapped
  <2>5. LoopState'
    <3>1. i' * NO_PAGE_ENTRIES = 0
      BY <1>1, <1>2, Sizes
    <3>2. \A d \in DirSet : ~ (d < i') /\ entry'[d] = NULL
      BY <1>1, <1>2, Sizes DEF DirSet
    <3> QED
      BY <1>1, <1>2, <2>1, <3>1, <3>2 DEF LoopState
  <2>6. EnoughLeft'
    <3>1. Cardinality(FreeSet') = spare' - 1
      BY <1>1, <1>6, <2>1, PageTaken
    <3>2. \A d \in DirSet : ~ (d < i')
      BY <1>1, <1>2, Sizes DEF DirSet
    <3> QED
      BY <1>1, <1>2, <1>5, <3>1, <3>2, Sizes DEF EnoughLeft
  <2> QED
    BY <1>3, <2>2, <2>3, <2>4, <2>5, <2>6 DEF PagingInv
<1>7. CASE FreePage = -1
  <2>1. table' = table /\ pc' = "built" /\ FreeSet = {}
    BY <1>7, FreePageFound DEF CreateDir, PagingInv
  <2>2. spare' = 0
    BY <1>1, <2>1, FreeCount
  <2>3. TypeOK'
    BY <1>1, <1>5, <1>7, <2>1 DEF PagingInv, TypeOK
  <2>4. OthersTaken' /\ TablesPrivate'
    BY <1>1, <1>2, <1>7, <2>1 DEF PagingInv, OthersTaken, TablesPrivate
  <2>5. Redirected' /\ LoopState' /\ EnoughLeft' /\ Loaded'
    BY <1>4, <2>1 DEF Redirected, LoopState, EnoughLeft, Loaded
  <2>6. FullyMapped'
    BY <2>2, Sizes DEF FullyMapped
  <2> QED
    BY <1>3, <2>3, <2>4, <2>5, <2>6 DEF PagingInv
<1> QED
  BY <1>6, <1>7

(* A round of the loop that got a page. *)
LEMMA FillKeepsInv == PagingInv /\ FillEntry => PagingInv'
<1> SUFFICES ASSUME PagingInv, FillEntry PROVE PagingInv'
  OBVIOUS
<1> DEFINE f == FreePage
<1>1. /\ pc = "fill" /\ i < NO_DIR_ENTRIES /\ f # -1
      /\ table' = Take(f)
      /\ entry' = [entry EXCEPT ![i] = f]
      /\ pt' = [pt EXCEPT ![f] = [j \in PteSet |-> (offset + j) % Frames]]
      /\ offset' = (offset + NO_PAGE_ENTRIES) % Frames
      /\ i' = i + 1
      /\ UNCHANGED <<others, dir, cr3, stray, want, spare, pc>>
  BY DEF FillEntry
<1>2. /\ f \in Pages /\ table[f] = FREE
      /\ table' \in [Pages -> {FREE, SINGLE}]
      /\ table'[f] = SINGLE
      /\ \A q \in Pages : table[q] = SINGLE => table'[q] = SINGLE /\ q # f
      /\ FreeSet' = FreeSet \ {f}
      /\ f \notin others /\ f # dir
      /\ \A d \in DirSet : entry[d] # f
      /\ Cardinality(FreeSet') = Cardinality(FreeSet) - 1
  BY <1>1, PageTaken
<1>3. FreeSet # {}
  BY <1>2 DEF FreeSet
<1> HIDE DEF f
<1>4. i \in DirSet /\ i \in Nat
  BY <1>1, Sizes DEF PagingInv, TypeOK, DirSet
<1>5. \A d \in DirSet : d < i => entry[d] # NULL
  BY <1>1, <1>3 DEF PagingInv, LoopState
<1>6. \A d \in DirSet : d >= i => entry[d] = NULL
  BY <1>1 DEF PagingInv, LoopState
<1>7. offset = i * NO_PAGE_ENTRIES
  BY <1>1, <1>5 DEF PagingInv, LoopState
<1>8. \A j \in PteSet : (offset + j) % Frames = VirtOf(i, j) /\ VirtOf(i, j) \in FrameSet
  <2> TAKE j \in PteSet
  <2>1. /\ VirtOf(i, j) \in FrameSet /\ offset \in Nat /\ offset + j < Frames
        /\ j \in Nat
    BY <1>4, <1>7, VirtInside, Sizes DEF PteSet
  <2>2. Frames \in Nat \ {0}
    BY Sizes
  <2>3. (offset + j) % Frames = offset + j
    BY <2>1, <2>2
  <2> QED
    BY <1>7, <2>1, <2>3 DEF VirtOf
<1>9. /\ entry' \in [DirSet -> {NULL} \cup Pages]
      /\ \A d \in DirSet : entry'[d] = IF d = i THEN f ELSE entry[d]
  BY <1>1, <1>2, <1>4 DEF PagingInv, TypeOK
<1>10. /\ pt' \in [Pages -> [PteSet -> Targets]]
       /\ \A j \in PteSet : pt'[f][j] = VirtOf(i, j)
       /\ \A q \in Pages : q # f => pt'[q] = pt[q]
  <2> DEFINE row == [j \in PteSet |-> (offset + j) % Frames]
  <2>1. row \in [PteSet -> Targets] /\ \A j \in PteSet : row[j] = VirtOf(i, j)
    BY <1>8 DEF Targets
  <2>2. pt' = [pt EXCEPT ![f] = row]
    BY <1>1
  <2> HIDE DEF row
  <2> QED
    BY <1>2, <2>1, <2>2 DEF PagingInv, TypeOK
<1>11. offset' \in FrameSet
  <2>1. offset + NO_PAGE_ENTRIES \in Nat /\ Frames \in Nat \ {0}
    BY Sizes DEF PagingInv, TypeOK, FrameSet
  <2> QED
    BY <1>1, <2>1 DEF FrameSet
<1>12. TypeOK'
  BY <1>1, <1>2, <1>4, <1>9, <1>10, <1>11, Sizes DEF PagingInv, TypeOK
<1>13. OthersTaken'
  BY <1>1, <1>2 DEF PagingInv, TypeOK, OthersTaken
<1>14. TablesPrivate'
  <2>1. \A d \in DirSet : entry[d] # NULL => entry[d] \in Pages
    BY DEF PagingInv, TypeOK
  <2>2. dir # NULL => dir \in Pages
    BY DEF PagingInv, TypeOK
  <2> QED
    BY <1>1, <1>2, <1>4, <1>9, <2>1, <2>2 DEF PagingInv, TablesPrivate
<1>15. MappingKept'
  <2> SUFFICES ASSUME NEW d \in DirSet, NEW j \in PteSet, entry'[d] # NULL
               PROVE  pt'[entry'[d]][j] = want'[VirtOf(d, j)]
    BY DEF MappingKept
  <2>1. CASE d = i
    <3>1. want[VirtOf(i, j)] = VirtOf(i, j)
      BY <1>1, <1>8 DEF PagingInv, Redirected
    <3> QED
      BY <1>1, <1>4, <1>9, <1>10, <2>1, <3>1
  <2>2. CASE d # i
    BY <1>1, <1>2, <1>9, <1>10, <2>2 DEF PagingInv, MappingKept, TypeOK
  <2> QED
    BY <2>1, <2>2
<1>16. Redirected' /\ Loaded' /\ FullyMapped'
  BY <1>1 DEF PagingInv, Redirected, Loaded, FullyMapped
<1>17. \A d \in DirSet : /\ d < i' => entry'[d] # NULL
                         /\ d >= i' => entry'[d] = NULL
  BY <1>1, <1>2, <1>4, <1>5, <1>6, <1>9, Sizes DEF DirSet, Pages
<1>18. i' < NO_DIR_ENTRIES => offset' = i' * NO_PAGE_ENTRIES
  <2> SUFFICES ASSUME i' < NO_DIR_ENTRIES PROVE offset' = i' * NO_PAGE_ENTRIES
    OBVIOUS
  <2>1. i' \in DirSet /\ 0 \in PteSet
    BY <1>1, <1>4, Sizes DEF DirSet, PteSet
  <2>2. i' * NO_PAGE_ENTRIES \in Nat /\ i' * NO_PAGE_ENTRIES + 0 < Frames
    BY <2>1, VirtInside
  <2>3. (i + 1) * NO_PAGE_ENTRIES = offset + NO_PAGE_ENTRIES
    BY <1>4, <1>7, Sizes
  <2>4. Frames \in Nat \ {0} /\ offset + NO_PAGE_ENTRIES \in Nat
        /\ offset + NO_PAGE_ENTRIES < Frames
    BY <1>1, <2>2, <2>3, Sizes
  <2>5. (offset + NO_PAGE_ENTRIES) % Frames = offset + NO_PAGE_ENTRIES
    BY <2>4
  <2> QED
    BY <1>1, <2>3, <2>5
<1>19. LoopState'
  BY <1>1, <1>17, <1>18 DEF LoopState
<1>20. EnoughLeft'
  <2>1. Cardinality(FreeSet) \in Nat
    BY FreeCount
  <2> QED
    BY <1>1, <1>2, <1>4, <1>17, <2>1, Sizes DEF PagingInv, EnoughLeft
<1> QED
  BY <1>12, <1>13, <1>14, <1>15, <1>16, <1>19, <1>20 DEF PagingInv

(* A round that got none: with enough spare pages it cannot happen. *)
LEMMA AbsentKeepsInv == PagingInv /\ FillAbsent => PagingInv'
<1> SUFFICES ASSUME PagingInv, FillAbsent PROVE PagingInv'
  OBVIOUS
<1>1. /\ pc = "fill" /\ i < NO_DIR_ENTRIES /\ FreePage = -1
      /\ entry' = [entry EXCEPT ![i] = NULL]
      /\ i' = i + 1
      /\ UNCHANGED <<table, others, dir, pt, offset, cr3, stray, want, spare, pc>>
  BY DEF FillAbsent
<1>2. FreeSet = {} /\ FreeSet' = FreeSet
  BY <1>1, FreePageFound DEF PagingInv, FreeSet
<1>3. i \in DirSet /\ i \in Nat
  BY <1>1, Sizes DEF PagingInv, TypeOK, DirSet
<1>4. entry' = entry
  <2>1. entry[i] = NULL
    BY <1>1, <1>3 DEF PagingInv, LoopState
  <2> QED
    BY <1>1, <1>3, <2>1 DEF PagingInv, TypeOK
<1>5. TypeOK'
  BY <1>1, <1>3, <1>4, Sizes DEF PagingInv, TypeOK
<1>6. OthersTaken' /\ TablesPrivate' /\ MappingKept'
  BY <1>1, <1>4 DEF PagingInv, OthersTaken, TablesPrivate, MappingKept
<1>7. Redirected' /\ Loaded' /\ FullyMapped'
  BY <1>1, <1>4 DEF PagingInv, Redirected, Loaded, FullyMapped
<1>8. LoopState'
  <2>1. ~ (\A d \in DirSet : d < i' => entry'[d] # NULL)
    BY <1>1, <1>3, <1>4, Sizes DEF PagingInv, LoopState
  <2>2. \A d \in DirSet : d >= i' => entry'[d] = NULL
    BY <1>1, <1>3, <1>4, Sizes DEF PagingInv, LoopState, DirSet
  <2> QED
    BY <1>1, <1>2, <2>1, <2>2 DEF LoopState
<1>9. EnoughLeft'
  <2>1. Cardinality(FreeSet) = 0
    BY <1>2, FreeCount
  <2>2. ~ (spare >= NO_DIR_ENTRIES + 1)
    BY <1>1, <1>3, <2>1, Sizes DEF PagingInv, EnoughLeft
  <2> QED
    BY <1>1, <2>2 DEF EnoughLeft
<1> QED
  BY <1>5, <1>6, <1>7, <1>8, <1>9 DEF PagingInv

(* The end of the loop, set_dir_table and enable_paging. *)
LEMMA SwitchKeepsInv ==
    PagingInv /\ (FillDone \/ set_dir_table \/ enable_paging) => PagingInv'
<1> SUFFICES ASSUME PagingInv, FillDone \/ set_dir_table \/ enable_paging
             PROVE  PagingInv'
  OBVIOUS
<1>1. /\ UNCHANGED <<table, others, dir, entry, pt, i, offset, stray, want, spare>>
      /\ pc' \in {"built", "loaded", "on"}
      /\ cr3' \in {cr3, dir}
  BY DEF FillDone, set_dir_table, enable_paging
<1>2. TypeOK'
  BY <1>1 DEF PagingInv, TypeOK
<1>3. OthersTaken' /\ TablesPrivate' /\ MappingKept'
  BY <1>1 DEF PagingInv, OthersTaken, TablesPrivate, MappingKept
<1>4. Redirected' /\ LoopState' /\ EnoughLeft'
  BY <1>1 DEF PagingInv, Redirected, LoopState, EnoughLeft
<1>5. Loaded'
  BY <1>1 DEF PagingInv, Loaded, FillDone, set_dir_table, enable_paging
<1>6. FullyMapped'
  <2>1. CASE FillDone
    <3>1. \A d \in DirSet : d < i
      BY <2>1, Sizes DEF FillDone, PagingInv, TypeOK, DirSet
    <3> QED
      BY <1>1, <2>1, <3>1
         DEF FillDone, PagingInv, EnoughLeft, Loaded, Redirected, FullyMapped
  <2>2. CASE set_dir_table \/ enable_paging
    BY <1>1, <2>2 DEF set_dir_table, enable_paging, PagingInv, FullyMapped
  <2> QED
    BY <2>1, <2>2
<1> QED
  BY <1>2, <1>3, <1>4, <1>5, <1>6 DEF PagingInv

(* set_page_table_enrty reaches the one entry of the page it redirects. *)
LEMMA RedirectKeepsInv ==
    ASSUME PagingInv, NEW virt \in Remappable, NEW val \in Targets,
           set_page_table_enrty(virt, val)
    PROVE  PagingInv'
<1> DEFINE e == dir_index(virt)
           x == page_index(virt)
           p == entry[e]
<1>1. /\ pc \in {"built", "loaded", "on"} /\ dir # NULL
      /\ want' = [want EXCEPT ![virt] = val]
      /\ UNCHANGED <<table, others, dir, entry, i, offset, cr3, spare, pc>>
      /\ \/ p # NULL /\ pt' = [pt EXCEPT ![p][x] = val] /\ stray' = stray
         \/ p = NULL /\ stray' = TRUE /\ pt' = pt
  BY DEF set_page_table_enrty
<1>2. virt \in FrameSet /\ virt \notin HeapFrame .. (HeapFrame + NPages - 1)
  BY Sizes
<1>3. /\ e \in DirSet /\ x \in PteSet
      /\ VirtOf(e, x) = virt
      /\ \A d \in DirSet, j \in PteSet : VirtOf(d, j) = virt => d = e /\ j = x
  BY <1>2, VirtSplit
<1> HIDE DEF e, x
<1>4. /\ want' \in [FrameSet -> Targets]
      /\ \A v \in FrameSet : want'[v] = IF v = virt THEN val ELSE want[v]
  BY <1>1, <1>2 DEF PagingInv, TypeOK
<1>5. /\ pt' \in [Pages -> [PteSet -> Targets]]
      /\ \A q \in Pages, j \in PteSet :
            pt'[q][j] = IF q = p /\ p # NULL /\ j = x THEN val ELSE pt[q][j]
  BY <1>1, <1>3 DEF PagingInv, TypeOK
<1>6. TypeOK'
  BY <1>1, <1>4, <1>5 DEF PagingInv, TypeOK
<1>7. OthersTaken' /\ TablesPrivate'
  BY <1>1 DEF PagingInv, OthersTaken, TablesPrivate
<1>8. MappingKept'
  <2> SUFFICES ASSUME NEW d \in DirSet, NEW j \in PteSet, entry[d] # NULL
               PROVE  pt'[entry[d]][j] = want'[VirtOf(d, j)]
    BY <1>1 DEF MappingKept
  <2>1. VirtOf(d, j) \in FrameSet /\ entry[d] \in Pages
    BY VirtInside DEF PagingInv, TypeOK
  <2>2. pt[entry[d]][j] = want[VirtOf(d, j)]
    BY DEF PagingInv, MappingKept
  <2>3. CASE VirtOf(d, j) = virt
    BY <1>3, <1>4, <1>5, <2>1, <2>3
  <2>4. CASE VirtOf(d, j) # virt
    <3>1. ~ (entry[d] = p /\ j = x)
      <4>1. CASE d = e
        BY <1>3, <2>4, <4>1
      <4>2. CASE d # e
        BY <1>3, <4>2 DEF PagingInv, TablesPrivate
      <4> QED
        BY <4>1, <4>2
    <3> QED
      BY <1>4, <1>5, <2>1, <2>2, <2>4, <3>1
  <2> QED
    BY <2>3, <2>4
<1>9. Redirected'
  <2>1. HeapFrame .. (HeapFrame + NPages - 1) \subseteq FrameSet
    BY Sizes DEF FrameSet
  <2> QED
    BY <1>1, <1>2, <1>4, <2>1 DEF PagingInv, Redirected
<1>10. LoopState' /\ EnoughLeft' /\ Loaded'
  BY <1>1 DEF PagingInv, LoopState, EnoughLeft, Loaded
<1>11. FullyMapped'
  BY <1>1, <1>3 DEF PagingInv, FullyMapped
<1> QED
  BY <1>6, <1>7, <1>8, <1>9, <1>10, <1>11 DEF PagingInv

-----------------------------------------------------------------------------
(* The invariant holds in every behaviour of paging.c over the page heap.    *)
THEOREM PagingInvariant == Spec => []PagingInv
<1>1. Init => PagingInv
  <2> SUFFICES ASSUME Init PROVE PagingInv
    OBVIOUS
  <2>1. 0 \in FrameSet /\ 0 \in 0 .. NO_DIR_ENTRIES /\ 0 \in 0 .. NPages
    BY Sizes DEF FrameSet
  <2>2. TypeOK
    BY <2>1 DEF Init, TypeOK, Targets
  <2>3. OthersTaken /\ TablesPrivate /\ MappingKept
    BY DEF Init, OthersTaken, TablesPrivate, MappingKept
  <2>4. Redirected
    BY Sizes DEF Init, Redirected, FrameSet
  <2>5. LoopState
    <3>1. 0 * NO_PAGE_ENTRIES = 0
      BY Sizes
    <3> QED
      BY <3>1 DEF Init, LoopState
  <2>6. EnoughLeft /\ Loaded /\ FullyMapped
    BY Sizes DEF Init, EnoughLeft, Loaded, FullyMapped
  <2> QED
    BY <2>2, <2>3, <2>4, <2>5, <2>6 DEF PagingInv
<1>2. PagingInv /\ [Next]_vars => PagingInv'
  <2> SUFFICES ASSUME PagingInv, [Next]_vars PROVE PagingInv'
    OBVIOUS
  <2>1. CASE UNCHANGED vars
    BY <2>1 DEF vars, PagingInv, TypeOK, TablesPrivate, OthersTaken, MappingKept, Redirected,
                LoopState, EnoughLeft, Loaded, FullyMapped, FreeSet
  <2> QED
    BY <2>1, OthersKeepInv, CreateKeepsInv, FillKeepsInv, AbsentKeepsInv,
       SwitchKeepsInv, RedirectKeepsInv DEF Next
<1> QED
  BY <1>1, <1>2, PTL DEF Spec

(* Directory entries name heap pages and page-table entries are frames of    *)
(* the address space, also when offset wraps after the last table.           *)
THEOREM PagingTyping == Spec => []TypeOK
<1>1. PagingInv => TypeOK
  BY DEF PagingInv
<1> QED
  BY <1>1, PagingInvariant, PTL

(* create_32_dir_table maps every page behind a present entry to itself, and *)
(* set_page_table_enrty redirects the page it is given and no other.         *)
THEOREM MappingIsKept == Spec => []MappingKept
<1>1. PagingInv => MappingKept
  BY DEF PagingInv
<1> QED
  BY <1>1, PagingInvariant, PTL

(* Page tables, the directory and pages of other code never share a page.    *)
THEOREM TablesArePrivate == Spec => []TablesPrivate
<1>1. PagingInv => TablesPrivate
  BY DEF PagingInv
<1> QED
  BY <1>1, PagingInvariant, PTL

(* One page more than there are directory entries is enough for a complete   *)
(* build, and then no write to a page table goes astray.                     *)
THEOREM BuildIsComplete == Spec => []FullyMapped
<1>1. PagingInv => FullyMapped
  BY DEF PagingInv
<1> QED
  BY <1>1, PagingInvariant, PTL

(* After enable_paging the directory and the page tables are found at the    *)
(* virtual addresses that equal their physical ones.                         *)
THEOREM TablesAreReachable == Spec => []TablesReachable
<1>1. PagingInv => TablesReachable
  <2> SUFFICES ASSUME PagingInv, pc = "on", spare >= NO_DIR_ENTRIES + 1,
                      NEW p \in {cr3} \cup {entry[d] : d \in DirSet}
               PROVE  LET virt == HeapFrame + p
                      IN  pt[entry[dir_index(virt)]][page_index(virt)] = virt
    BY DEF TablesReachable
  <2> DEFINE virt == HeapFrame + p
  <2>1. dir # NULL /\ cr3 = dir /\ \A d \in DirSet : entry[d] # NULL
    BY DEF PagingInv, FullyMapped, Loaded
  <2>2. p \in Pages
    BY <2>1 DEF PagingInv, TypeOK
  <2>3. virt \in HeapFrame .. (HeapFrame + NPages - 1) /\ virt \in FrameSet
    BY <2>2, Sizes DEF Pages, FrameSet
  <2> HIDE DEF virt
  <2>4. want[virt] = virt
    BY <2>3 DEF PagingInv, Redirected
  <2>5. pt[entry[dir_index(virt)]][page_index(virt)] = virt
    BY <2>1, <2>3, <2>4, VirtSplit DEF PagingInv, MappingKept
  <2> QED
    BY <2>5 DEF virt
<1> QED
  BY <1>1, PagingInvariant, PTL
=============================================================================

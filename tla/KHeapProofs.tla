----------------------------- MODULE KHeapProofs -----------------------------
(***************************************************************************)
(* Proofs about KHeap for every heap size, block size, word size and set of *)
(* request sizes.                                                          *)
(***************************************************************************)
EXTENDS KHeap, FirstFitScan, WellFoundedInduction, TLAPS

USE DEF NULL, FREE, SINGLE, START, MID, END

(* Every non-empty set of naturals has a least element. *)
LEMMA LeastNatural ==
    ASSUME NEW S \in SUBSET Nat, S # {}
    PROVE  \E blk \in S : \A j \in S : blk <= j
<1>1. PICK blk \in S : \A j \in S : ~ (<<j, blk>> \in OpToRel(<, Nat))
  BY NatLessThanWellFounded, WFMin
<1>2. \A j \in S : ~ (j < blk)
  BY <1>1 DEF OpToRel
<1> QED
  BY <1>2

(* What Euclidean division by a block size gives. *)
LEMMA Division ==
    ASSUME NEW x \in Nat, NEW b \in Nat \ {0}
    PROVE  /\ x \div b \in Nat
           /\ b * (x \div b) <= x
           /\ x < b * (x \div b) + b
  OBVIOUS

(* What a word-wide sum of two words' worth of value wraps to. *)
LEMMA Wrap ==
    ASSUME NEW x \in Nat, NEW w \in Nat \ {0}
    PROVE  /\ x % w \in 0 .. (w - 1)
           /\ x < w => x % w = x
           /\ w <= x /\ x < 2 * w => x % w = x - w
<1>1. x % w \in 0 .. (w - 1)
  OBVIOUS
<1>2. ASSUME x < w PROVE x % w = x
  BY <1>2
<1>3. ASSUME w <= x, x < 2 * w PROVE x % w = x - w
  BY <1>3
<1> QED
  BY <1>1, <1>2, <1>3

(* The heap has a natural number of blocks. *)
LEMMA TotalNat == Total \in Nat
  BY Division, BlockSizeAssumption, HeapBytesAssumption DEF Total

(* heap_free's division maps a pointer into the heap to an entry of the     *)
(* table.                                                                   *)
LEMMA BlockOfPointer ==
    ASSUME NEW p \in Pointers
    PROVE  BlockOf(p) \in Blocks
<1> DEFINE x == p - HeapStart
           q == x \div BlockSize
<1>1. Total \in Nat /\ BlockSize \in Nat \ {0} /\ HeapStart \in Nat
  BY TotalNat, BlockSizeAssumption, HeapStartAssumption
<1>2. Total * BlockSize \in Nat
  BY <1>1
<1>3. x \in Nat /\ x < Total * BlockSize
  BY <1>1, <1>2 DEF Pointers
<1>4. q \in Nat /\ BlockSize * q <= x
  BY <1>1, <1>3, Division
<1> HIDE DEF x, q
<1>5. q < Total
  <2> SUFFICES ASSUME q >= Total PROVE FALSE
    BY <1>1, <1>4
  <2>1. BlockSize * q >= BlockSize * Total
    BY <1>1, <1>4
  <2> QED
    BY <1>1, <1>2, <1>3, <1>4, <2>1
<1>6. q \in Blocks
  BY <1>1, <1>4, <1>5 DEF Blocks
<1> QED
  BY <1>6 DEF q, x, BlockOf

(* heap_malloc's word-wide rounding never under-counts: either the sum       *)
(* wraps and the count is zero, which no search satisfies, or the blocks      *)
(* counted cover the request with less than one block to spare.               *)
LEMMA BlockCountCovers ==
    ASSUME NEW s \in Sizes
    PROVE  /\ BlockCount(s) \in Nat
           /\ BlockCount(s) > 0 => /\ BlockCount(s) * BlockSize >= s
                                   /\ (BlockCount(s) - 1) * BlockSize < s
                                   /\ s > 0
                                   /\ s + BlockSize - 1 < WordSize
           /\ BlockCount(s) = 0 => ~ (s > 0 /\ s + BlockSize - 1 < WordSize)
<1> DEFINE x == s + BlockSize - 1
           r == x % WordSize
           n == r \div BlockSize
<1>1. /\ BlockSize \in Nat \ {0} /\ WordSize \in Nat \ {0}
      /\ s \in Nat /\ s < WordSize /\ x \in Nat
  BY BlockSizeAssumption, WordSizeAssumption, HeapStartAssumption,
     HeapBytesAssumption, SizesAssumption
<1>2. r \in Nat /\ r < WordSize
  BY <1>1, Wrap
<1>3. n \in Nat /\ BlockSize * n <= r /\ r < BlockSize * n + BlockSize
  BY <1>1, <1>2, Division
<1>4. x < WordSize => r = x
  BY <1>1, Wrap
<1>5. x >= WordSize => r < BlockSize
  <2>1. CASE BlockSize <= WordSize
    <3>1. x < 2 * WordSize
      BY <1>1, <2>1
    <3> HIDE DEF r
    <3>2. x >= WordSize => r = x - WordSize
      BY <1>1, <3>1, Wrap DEF r
    <3> QED
      BY <1>1, <3>2
  <2>2. CASE BlockSize > WordSize
    BY <1>1, <1>2, <2>2
  <2> QED
    BY <1>1, <2>1, <2>2
<1> HIDE DEF r, n
<1>6. x >= WordSize => n = 0
  <2> SUFFICES ASSUME x >= WordSize, n > 0 PROVE FALSE
    BY <1>1, <1>3
  <2>1. BlockSize * n >= BlockSize
    BY <1>1, <1>3
  <2> QED
    BY <1>1, <1>2, <1>3, <1>5, <2>1
<1>7. BlockSize * n = n * BlockSize /\ (n - 1) * BlockSize = n * BlockSize - BlockSize
  BY <1>1, <1>3
<1>8. n = 0 => BlockSize * n = 0
  BY <1>1
<1>9. n > 0 => BlockSize * n >= BlockSize
  BY <1>1, <1>3
<1>10. BlockCount(s) = n
  BY DEF BlockCount, n, r
<1> QED
  BY <1>1, <1>2, <1>3, <1>4, <1>6, <1>7, <1>8, <1>9, <1>10

(* The search returns NULL or the first run, and NULL only if there is none. *)
LEMMA StartBlock ==
    ASSUME NEW t, DOMAIN t = Blocks, NEW n \in Nat
    PROVE  LET blk == heap_get_start_block(t, n)
           IN  \/ blk = -1 /\ (n = 0 \/ Runs(t, n) = {})
               \/ n > 0 /\ blk \in Runs(t, n) /\ blk \in Blocks /\ blk + n <= Total
<1>1. Runs(t, n) \in SUBSET Nat
  BY TotalNat DEF Runs, Blocks
<1>2. CASE n = 0 \/ Runs(t, n) = {}
  BY <1>2 DEF heap_get_start_block, FirstFit
<1>3. CASE n # 0 /\ Runs(t, n) # {}
  <2> DEFINE blk == heap_get_start_block(t, n)
  <2>1. \E j \in Runs(t, n) : \A k \in Runs(t, n) : j <= k
    BY <1>1, <1>3, LeastNatural
  <2>2. blk \in Runs(t, n)
    BY <1>3, <2>1 DEF heap_get_start_block, FirstFit
  <2> HIDE DEF blk
  <2>3. blk \in Blocks /\ \A k \in blk .. (blk + n - 1) : k \in Blocks
    BY <2>2 DEF Runs
  <2>4. blk + n - 1 \in Blocks
    BY <1>3, <2>3, TotalNat DEF Blocks
  <2>5. blk + n <= Total
    BY <2>3, <2>4, TotalNat DEF Blocks
  <2> QED
    BY <1>3, <2>2, <2>3, <2>5 DEF blk
<1> QED
  BY <1>2, <1>3

-----------------------------------------------------------------------------
(* The inductive invariant.  NoLeak and LiveShaped are what make            *)
(* LiveDisjoint inductive: a block a caller holds is not free in the table,  *)
(* so the search cannot return it, and a free clears one whole region.       *)
IInv ==
    /\ TypeOK
    /\ LiveDisjoint
    /\ LiveShaped
    /\ NoLeak
    /\ LiveBigEnough
    /\ ~ created => live = {}

(* No cell of a region held by a caller is free in the table. *)
LEMMA HeldNotFree ==
    ASSUME IInv, NEW a \in live, NEW k \in Cells(a)
    PROVE  k \in Blocks /\ table[k] # FREE
<1>1. /\ a.first \in Nat /\ a.len \in Nat \ {0} /\ Total \in Nat
      /\ a.first + a.len <= Total
  BY TotalNat DEF IInv, TypeOK, LiveDisjoint, Regions, Blocks
<1>2. k \in Int /\ a.first <= k /\ k <= a.first + a.len - 1
  BY <1>1 DEF Cells
<1>3. k \in Blocks
  BY <1>1, <1>2 DEF Blocks
<1>4. \/ k = a.first
      \/ k = a.first + a.len - 1
      \/ k \in (a.first + 1) .. (a.first + a.len - 2)
  BY <1>1, <1>2
<1>5. Shaped(a)
  BY DEF IInv, LiveShaped
<1> QED
  BY <1>1, <1>2, <1>3, <1>4, <1>5 DEF Shaped

(* Marking a free run leaves every other entry alone. *)
LEMMA MarkShape ==
    ASSUME NEW t \in [Blocks -> Entries], NEW n \in Nat \ {0}, NEW blk \in Blocks,
           blk + n <= Total
    PROVE  /\ MarkRun(t, blk, n) \in [Blocks -> Entries]
           /\ \A k \in Blocks : k \notin blk .. (blk + n - 1) => MarkRun(t, blk, n)[k] = t[k]
           /\ n = 1 => MarkRun(t, blk, n)[blk] = SINGLE
           /\ n > 1 => /\ MarkRun(t, blk, n)[blk] = START
                       /\ MarkRun(t, blk, n)[blk + n - 1] = END
                       /\ \A k \in (blk + 1) .. (blk + n - 2) : MarkRun(t, blk, n)[k] = MID
<1>1. Total \in Nat /\ blk \in Nat /\ blk < Total
  BY TotalNat DEF Blocks
<1>2. ASSUME NEW k \in Blocks
      PROVE  /\ MarkRun(t, blk, n)[k] \in Entries
             /\ k \notin blk .. (blk + n - 1) => MarkRun(t, blk, n)[k] = t[k]
  BY <1>1, <1>2 DEF MarkRun, Blocks, Entries
<1>3. MarkRun(t, blk, n) \in [Blocks -> Entries]
  BY <1>2 DEF MarkRun
<1>4. n = 1 => MarkRun(t, blk, n)[blk] = SINGLE
  BY <1>1 DEF MarkRun, Blocks
<1>5. ASSUME n > 1
      PROVE  /\ MarkRun(t, blk, n)[blk] = START
             /\ MarkRun(t, blk, n)[blk + n - 1] = END
             /\ \A k \in (blk + 1) .. (blk + n - 2) : MarkRun(t, blk, n)[k] = MID
  BY <1>1, <1>5 DEF MarkRun, Blocks
<1> QED
  BY <1>2, <1>3, <1>4, <1>5

(* What heap_free does to the table: nothing, when no region begins at the   *)
(* entry, or it clears exactly the cells of the region that does.            *)
LEMMA FreeEffect ==
    ASSUME IInv, created, NEW blk \in Blocks
    PROVE  \/ /\ heap_free(table, blk) = table
              /\ \A a \in live : a.first # blk
           \/ \E a \in live :
                /\ a.first = blk
                /\ heap_free(table, blk) =
                      [k \in Blocks |-> IF k \in Cells(a) THEN FREE ELSE table[k]]
<1>1. Total \in Nat /\ blk \in Nat /\ table \in [Blocks -> Entries]
  BY TotalNat DEF Blocks, IInv, TypeOK
<1>2. \A a \in live : /\ a.first \in Nat /\ a.len \in Nat \ {0}
                      /\ a.first + a.len <= Total
  BY <1>1 DEF IInv, TypeOK, LiveDisjoint, Regions, Blocks
<1>3. CASE table[blk] # SINGLE /\ table[blk] # START
  <2>1. heap_free(table, blk) = table
    BY <1>3 DEF heap_free
  <2>2. \A a \in live : a.first # blk
    BY <1>2, <1>3 DEF IInv, LiveShaped, Shaped
  <2> QED
    BY <2>1, <2>2
<1>4. ASSUME table[blk] = SINGLE \/ table[blk] = START
      PROVE  \E a \in live : a.first = blk /\ (table[blk] = SINGLE <=> a.len = 1)
  <2>1. PICK a \in live : blk \in Cells(a)
    BY <1>4 DEF IInv, NoLeak
  <2>2. /\ Shaped(a) /\ a.first \in Nat /\ a.len \in Nat \ {0}
        /\ a.first <= blk /\ blk <= a.first + a.len - 1
    BY <1>2, <2>1 DEF IInv, LiveShaped, Cells
  <2>3. a.first = blk
    <3>1. \/ blk = a.first
          \/ blk = a.first + a.len - 1
          \/ blk \in (a.first + 1) .. (a.first + a.len - 2)
      BY <1>1, <2>2
    <3> QED
      BY <1>2, <1>4, <2>2, <3>1 DEF Shaped
  <2> QED
    BY <1>4, <2>2, <2>3 DEF Shaped
<1>5. CASE table[blk] = SINGLE
  <2>1. PICK a \in live : a.first = blk /\ a.len = 1
    BY <1>4, <1>5
  <2>2. Cells(a) = {blk}
    BY <1>1, <2>1 DEF Cells
  <2>3. heap_free(table, blk) = [k \in Blocks |-> IF k \in Cells(a) THEN FREE ELSE table[k]]
    <3>1. heap_free(table, blk) = [table EXCEPT ![blk] = FREE]
      BY <1>5 DEF heap_free
    <3> QED
      BY <1>1, <2>2, <3>1
  <2> QED
    BY <2>1, <2>3
<1>6. CASE table[blk] = START
  <2>1. PICK a \in live : a.first = blk /\ a.len # 1
    BY <1>4, <1>6
  <2>2. /\ table[a.first + a.len - 1] = END
        /\ \A k \in (a.first + 1) .. (a.first + a.len - 2) : table[k] = MID
    BY <2>1 DEF IInv, LiveShaped, Shaped
  <2>3. ASSUME NEW k \in Blocks
        PROVE  (k >= blk /\ \A j \in blk .. (k - 1) : table[j] # END) <=> k \in Cells(a)
    <3>1. k \in Int /\ blk \in Int /\ a.len \in Nat /\ a.len > 1
      BY <1>1, <1>2, <2>1 DEF Blocks
    <3>2. ASSUME k \in Cells(a)
          PROVE  k >= blk /\ \A j \in blk .. (k - 1) : table[j] # END
      <4>1. k >= blk /\ k <= blk + a.len - 1
        BY <2>1, <3>1, <3>2 DEF Cells
      <4>2. ASSUME NEW j \in blk .. (k - 1) PROVE table[j] # END
        <5>1. j = blk \/ j \in (blk + 1) .. (blk + a.len - 2)
          BY <3>1, <4>1, <4>2
        <5> QED
          BY <1>6, <2>1, <2>2, <5>1
      <4> QED
        BY <4>1, <4>2
    <3>3. ASSUME k >= blk, \A j \in blk .. (k - 1) : table[j] # END
          PROVE  k \in Cells(a)
      <4>1. ~ (blk + a.len - 1 \in blk .. (k - 1))
        BY <2>1, <2>2, <3>3
      <4>2. k <= blk + a.len - 1
        BY <3>1, <4>1
      <4> QED
        BY <2>1, <3>1, <3>3, <4>2 DEF Cells
    <3> QED
      BY <3>2, <3>3
  <2>4. heap_free(table, blk) = [k \in Blocks |-> IF k \in Cells(a) THEN FREE ELSE table[k]]
    <3>1. heap_free(table, blk) = ClearThroughEnd(table, blk)
      BY <1>6 DEF heap_free
    <3> QED
      BY <1>1, <2>3, <3>1 DEF ClearThroughEnd
  <2> QED
    BY <2>1, <2>4
<1> QED
  BY <1>3, <1>5, <1>6

(* A region is held by a caller exactly once per first cell. *)
LEMMA FirstUnique ==
    ASSUME IInv, NEW a \in live, NEW b \in live, a # b
    PROVE  /\ a.first \in Cells(a)
           /\ a.first # b.first
           /\ a.first \notin Cells(b)
           /\ \A k \in Cells(a) : k \notin Cells(b)
<1>1. \A c \in live : c.first \in Nat /\ c.len \in Nat \ {0}
  BY TotalNat DEF IInv, TypeOK, Regions, Blocks
<1>2. \A c \in live : c.first \in Cells(c)
  BY <1>1 DEF Cells
<1>3. Cells(a) \cap Cells(b) = {}
  BY DEF IInv, LiveDisjoint
<1> QED
  BY <1>2, <1>3

(* What kfree does to the regions callers hold. *)
LEMMA KfreeEffect ==
    ASSUME IInv, NEW p \in Pointers, kfree(p)
    PROVE  \/ UNCHANGED <<table, created, live, ret>> /\ \A a \in live : a.first # BlockOf(p)
           \/ \E a \in live :
                /\ a.first = BlockOf(p)
                /\ live' = live \ {a}
                /\ table' = [k \in Blocks |-> IF k \in Cells(a) THEN FREE ELSE table[k]]
                /\ UNCHANGED <<created, ret>>
<1>1. BlockOf(p) \in Blocks
  BY BlockOfPointer
<1>2. \A a \in live : table[a.first] # FREE /\ a.first \in Blocks
  <2> TAKE a \in live
  <2>1. a.first \in Cells(a)
    BY TotalNat DEF IInv, TypeOK, Regions, Blocks, Cells
  <2> QED
    BY <2>1, HeldNotFree
<1>3. CASE /\ heap_free(table, BlockOf(p)) = table
           /\ \A a \in live : a.first # BlockOf(p)
  <2>1. table' = table
    BY <1>3 DEF kfree
  <2>2. live' = live
    BY <1>2, <2>1 DEF kfree
  <2> QED
    BY <1>3, <2>1, <2>2 DEF kfree
<1>4. ASSUME NEW a \in live, a.first = BlockOf(p),
             heap_free(table, BlockOf(p)) =
                [k \in Blocks |-> IF k \in Cells(a) THEN FREE ELSE table[k]]
      PROVE  live' = live \ {a}
  <2>1. table' = [k \in Blocks |-> IF k \in Cells(a) THEN FREE ELSE table[k]]
    BY <1>4 DEF kfree
  <2>2. a.first \in Cells(a)
    BY TotalNat DEF IInv, TypeOK, Regions, Blocks, Cells
  <2>3. table'[a.first] = FREE
    BY <1>2, <2>1, <2>2
  <2>4. \A b \in live : b # a => table'[b.first] # FREE
    BY <1>2, <2>1, FirstUnique
  <2> QED
    BY <2>3, <2>4 DEF kfree
<1> QED
  BY <1>1, <1>3, <1>4, FreeEffect DEF kfree

(* A successful kmalloc: the run it takes was free, so the new region meets  *)
(* no other, and the shapes of the others are untouched.                     *)
LEMMA KmallocPreserves ==
    ASSUME IInv, NEW s \in Sizes, kmalloc(s)
    PROVE  IInv'
<1> DEFINE n == BlockCount(s)
<1> PICK blk : blk = heap_get_start_block(table, n)
  OBVIOUS
<1> DEFINE new == [first |-> blk, len |-> n, size |-> s]
<1>1. n \in Nat /\ Total \in Nat /\ table \in [Blocks -> Entries] /\ created
  BY BlockCountCovers, TotalNat DEF IInv, TypeOK, kmalloc
<1>2. CASE blk = -1
  <2>1. UNCHANGED <<table, live, created>> /\ ret' = NULL /\ req' = s
    BY <1>2 DEF kmalloc
  <2> QED
    BY <2>1 DEF IInv, TypeOK, LiveDisjoint, LiveShaped, Shaped, NoLeak, LiveBigEnough
<1>3. CASE blk # -1
  <2>1. /\ table' = MarkRun(table, blk, n)
        /\ live' = live \cup {new}
        /\ ret' = AddrOf(blk)
        /\ created' = created
        /\ req' = s
    BY <1>3 DEF kmalloc
  <2> HIDE DEF n
  <2>2. n > 0 /\ blk \in Runs(table, n) /\ blk \in Blocks /\ blk + n <= Total
    BY <1>1, <1>3, StartBlock
  <2>3. blk \in Nat /\ n \in 1 .. Total /\ \A k \in blk .. (blk + n - 1) : table[k] = FREE
    BY <1>1, <2>2 DEF Runs, Blocks
  <2>4. new \in Regions
    BY <2>2, <2>3 DEF Regions
  <2>5. Cells(new) = blk .. (blk + n - 1)
    BY DEF Cells
  <2>6. \A a \in live : \A k \in Cells(a) : k \notin Cells(new)
    BY <2>3, <2>5, HeldNotFree
  <2>7. TypeOK'
    BY <1>1, <2>1, <2>2, <2>3, <2>4, MarkShape DEF IInv, TypeOK
  <2>8. LiveDisjoint'
    <3>1. \A a \in live' : a.first + a.len <= Total
      BY <2>1, <2>2 DEF IInv, LiveDisjoint
    <3>2. ASSUME NEW a \in live', NEW b \in live', a # b
          PROVE  Cells(a) \cap Cells(b) = {}
      <4>1. CASE a \in live /\ b \in live
        BY <3>2, <4>1 DEF IInv, LiveDisjoint
      <4>2. CASE a = new \/ b = new
        BY <2>1, <2>6, <3>2, <4>2
      <4> QED
        BY <2>1, <4>1, <4>2
    <3> QED
      BY <3>1, <3>2 DEF LiveDisjoint
  <2>9. LiveShaped'
    <3>1. ASSUME NEW a \in live PROVE Shaped(a)'
      <4>1. /\ a.first \in Nat /\ a.len \in Nat \ {0} /\ Shaped(a)
        BY <1>1 DEF IInv, TypeOK, Regions, Blocks, LiveShaped
      <4>2. \A k \in Cells(a) : table'[k] = table[k]
        <5> TAKE k \in Cells(a)
        <5>1. k \in Blocks /\ k \notin blk .. (blk + n - 1)
          BY <2>5, <2>6, HeldNotFree
        <5> QED
          BY <1>1, <2>1, <2>2, <2>3, <5>1, MarkShape
      <4>3. /\ a.first \in Cells(a) /\ a.first + a.len - 1 \in Cells(a)
            /\ \A k \in (a.first + 1) .. (a.first + a.len - 2) : k \in Cells(a)
        BY <4>1 DEF Cells
      <4> QED
        BY <4>1, <4>2, <4>3 DEF Shaped
    <3>2. Shaped(new)'
      BY <1>1, <2>1, <2>2, <2>3, MarkShape DEF Shaped
    <3> QED
      BY <2>1, <3>1, <3>2 DEF LiveShaped
  <2>10. NoLeak'
    <3>1. ASSUME NEW k \in Blocks, table'[k] # FREE
          PROVE  \E a \in live' : k \in Cells(a)
      <4>1. CASE k \in blk .. (blk + n - 1)
        BY <2>1, <2>5, <4>1
      <4>2. CASE k \notin blk .. (blk + n - 1)
        <5>1. table[k] # FREE
          BY <1>1, <2>1, <2>2, <2>3, <3>1, <4>2, MarkShape
        <5> QED
          BY <1>1, <2>1, <5>1 DEF IInv, NoLeak
      <4> QED
        BY <4>1, <4>2
    <3> QED
      BY <3>1 DEF NoLeak
  <2>11. LiveBigEnough'
    <3>1. n * BlockSize >= s /\ (n - 1) * BlockSize < s
      BY <2>2, BlockCountCovers DEF n
    <3> QED
      BY <2>1, <3>1 DEF IInv, LiveBigEnough
  <2> QED
    BY <1>1, <2>1, <2>7, <2>8, <2>9, <2>10, <2>11 DEF IInv
<1> QED
  BY <1>2, <1>3

(* kfree clears one whole region or nothing, so what is left keeps its shape. *)
LEMMA KfreePreserves ==
    ASSUME IInv, NEW p \in Pointers, kfree(p)
    PROVE  IInv'
<1>0. req' = -1
  BY DEF kfree
<1>1. CASE UNCHANGED <<table, created, live, ret>>
  BY <1>0, <1>1 DEF IInv, TypeOK, LiveDisjoint, LiveShaped, Shaped, NoLeak, LiveBigEnough
<1>2. ASSUME NEW a \in live,
             live' = live \ {a},
             table' = [k \in Blocks |-> IF k \in Cells(a) THEN FREE ELSE table[k]],
             UNCHANGED <<created, ret>>
      PROVE  IInv'
  <2>1. TypeOK'
    <3>1. table' \in [Blocks -> Entries]
      BY <1>2 DEF IInv, TypeOK, Entries
    <3> QED
      BY <1>0, <1>2, <3>1 DEF IInv, TypeOK
  <2>2. LiveDisjoint'
    BY <1>2 DEF IInv, LiveDisjoint
  <2>3. LiveShaped'
    <3>1. ASSUME NEW b \in live, b # a PROVE Shaped(b)'
      <4>1. b.first \in Nat /\ b.len \in Nat \ {0} /\ Shaped(b)
        BY TotalNat DEF IInv, TypeOK, Regions, Blocks, LiveShaped
      <4>2. \A k \in Cells(b) : table'[k] = table[k]
        BY <1>2, <3>1, FirstUnique, HeldNotFree
      <4>3. /\ b.first \in Cells(b) /\ b.first + b.len - 1 \in Cells(b)
            /\ \A k \in (b.first + 1) .. (b.first + b.len - 2) : k \in Cells(b)
        BY <4>1 DEF Cells
      <4> QED
        BY <4>1, <4>2, <4>3 DEF Shaped
    <3> QED
      BY <1>2, <3>1 DEF LiveShaped
  <2>4. NoLeak'
    BY <1>2 DEF IInv, NoLeak
  <2>5. LiveBigEnough'
    BY <1>2 DEF IInv, LiveBigEnough
  <2> QED
    BY <1>2, <2>1, <2>2, <2>3, <2>4, <2>5 DEF IInv
<1> QED
  BY <1>1, <1>2, KfreeEffect

(* The page heap keeps the inductive invariant at every step. *)
THEOREM Invariance == Spec => []IInv
<1>1. Init => IInv
  BY DEF Init, IInv, TypeOK, LiveDisjoint, LiveShaped, NoLeak, LiveBigEnough
<1>2. IInv /\ [Next]_vars => IInv'
  <2> SUFFICES ASSUME IInv, [Next]_vars PROVE IInv'
    OBVIOUS
  <2>1. CASE kheap_init
    <3>1. live = {} /\ live' = {} /\ ret' = ret /\ req' = req
      BY <2>1 DEF kheap_init, IInv
    <3>2. table' \in [Blocks -> Entries] /\ created' \in BOOLEAN
      BY <2>1 DEF kheap_init, heap_create, IInv, TypeOK, Entries
    <3>3. created' => \A k \in Blocks : table'[k] = FREE
      BY <2>1 DEF kheap_init, heap_create
    <3> QED
      BY <3>1, <3>2, <3>3
      DEF IInv, TypeOK, LiveDisjoint, LiveShaped, NoLeak, LiveBigEnough
  <2>2. CASE \E s \in Sizes : kmalloc(s)
    BY <2>2, KmallocPreserves
  <2>3. CASE \E p \in Pointers : kfree(p)
    BY <2>3, KfreePreserves
  <2>4. CASE UNCHANGED vars
    BY <2>4 DEF vars, IInv, TypeOK, LiveDisjoint, LiveShaped, Shaped, NoLeak, LiveBigEnough
  <2> QED
    BY <2>1, <2>2, <2>3, <2>4 DEF Next
<1> QED
  BY <1>1, <1>2, PTL DEF Spec

(* Type correctness of the page heap. *)
THEOREM Typing == Spec => []TypeOK
<1>1. IInv => TypeOK
  BY DEF IInv
<1> QED
  BY <1>1, Invariance, PTL

(* No two callers of kmalloc ever hold the same block. *)
THEOREM Disjointness == Spec => []LiveDisjoint
<1>1. IInv => LiveDisjoint
  BY DEF IInv
<1> QED
  BY <1>1, Invariance, PTL

(* What heap_free walks over is always there: the entries of a held region   *)
(* read SINGLE or START MID* END, whatever was allocated and freed around it. *)
THEOREM Shapeliness == Spec => []LiveShaped
<1>1. IInv => LiveShaped
  BY DEF IInv
<1> QED
  BY <1>1, Invariance, PTL

(* No block is lost, whatever sequence of frees was made. *)
THEOREM Leakless == Spec => []NoLeak
<1>1. IInv => NoLeak
  BY DEF IInv
<1> QED
  BY <1>1, Invariance, PTL

(* A region is always large enough for its request, despite the word wrap. *)
THEOREM BigEnough == Spec => []LiveBigEnough
<1>1. IInv => LiveBigEnough
  BY DEF IInv
<1> QED
  BY <1>1, Invariance, PTL

-----------------------------------------------------------------------------
(* REFINEMENT: heap.c implements PageAllocator, with live, req and ret as they are. *)

(* A block count is determined by the bytes it must cover. *)
LEMMA CoverUnique ==
    ASSUME NEW b \in Nat \ {0}, NEW s \in Nat, NEW m \in Nat, NEW n \in Nat,
           m * b >= s, (m - 1) * b < s, n * b >= s, (n - 1) * b < s
    PROVE  m = n
<1>1. ASSUME NEW x \in Nat, NEW y \in Nat, x < y, x * b >= s, (y - 1) * b < s
      PROVE  FALSE
  <2>1. (y - 1) * b >= x * b
    BY <1>1
  <2> QED
    BY <1>1, <2>1
<1> QED
  BY <1>1

(* A pointer lies in the first block of a region exactly when heap_free's    *)
(* division gives the region's first entry.                                  *)
LEMMA HoldsIsFirst ==
    ASSUME NEW p \in Pointers, NEW a, a.first \in Nat
    PROVE  Abstract!Holds(a, p) <=> a.first = BlockOf(p)
<1> DEFINE x == p - HeapStart
           q == x \div BlockSize
<1>1. /\ Total \in Nat /\ BlockSize \in Nat \ {0} /\ HeapStart \in Nat
      /\ Total * BlockSize \in Nat
  BY TotalNat, BlockSizeAssumption, HeapStartAssumption
<1>2. x \in Nat
  BY <1>1 DEF Pointers
<1>3. q \in Nat /\ BlockSize * q <= x /\ x < BlockSize * q + BlockSize
  BY <1>1, <1>2, Division
<1> HIDE DEF q
<1>4. a.first * BlockSize \in Nat /\ a.first * BlockSize = BlockSize * a.first
  BY <1>1
<1>5. Abstract!Holds(a, p) <=> /\ a.first * BlockSize <= x
                               /\ x < a.first * BlockSize + BlockSize
  BY <1>1, <1>4 DEF Abstract!Holds, Abstract!AddrOf, Pointers
<1>6. a.first = q => Abstract!Holds(a, p)
  BY <1>3, <1>4, <1>5
<1>7. ASSUME a.first < q PROVE ~ Abstract!Holds(a, p)
  <2>1. BlockSize * q >= BlockSize * a.first + BlockSize
    BY <1>1, <1>3, <1>7
  <2> QED
    BY <1>1, <1>2, <1>3, <1>4, <1>5, <2>1
<1>8. ASSUME a.first > q PROVE ~ Abstract!Holds(a, p)
  <2>1. BlockSize * a.first >= BlockSize * q + BlockSize
    BY <1>1, <1>3, <1>8
  <2> QED
    BY <1>1, <1>2, <1>3, <1>4, <1>5, <2>1
<1>9. BlockOf(p) = q
  BY DEF BlockOf, q
<1> QED
  BY <1>3, <1>6, <1>7, <1>8, <1>9

(* kmalloc answers as the abstract allocator may: a region clear of the      *)
(* others, or NULL when no region would do.                                  *)
LEMMA KmallocRefines ==
    ASSUME IInv, NEW s \in Sizes, kmalloc(s)
    PROVE  Abstract!Malloc(s)
<1> DEFINE n == BlockCount(s)
<1> PICK blk : blk = heap_get_start_block(table, n)
  OBVIOUS
<1> DEFINE new == [first |-> blk, len |-> n, size |-> s]
<1>1. /\ n \in Nat /\ Total \in Nat /\ created /\ s \in Nat
      /\ BlockSize \in Nat \ {0} /\ table \in [Blocks -> Entries]
  BY BlockCountCovers, TotalNat, BlockSizeAssumption, SizesAssumption,
     WordSizeAssumption, HeapStartAssumption, HeapBytesAssumption
  DEF kmalloc, IInv, TypeOK
<1>2. CASE blk # -1
  <2>1. live' = live \cup {new} /\ ret' = AddrOf(blk) /\ req' = s
    BY <1>2 DEF kmalloc
  <2> HIDE DEF n
  <2>2. n > 0 /\ blk \in Runs(table, n) /\ blk \in Blocks /\ blk + n <= Total
    BY <1>1, <1>2, StartBlock
  <2>3. /\ n * BlockSize >= s /\ (n - 1) * BlockSize < s
        /\ s > 0 /\ s + BlockSize - 1 < WordSize
    BY <2>2, BlockCountCovers DEF n
  <2>4. /\ blk \in Nat /\ n \in 1 .. Total
        /\ \A k \in blk .. (blk + n - 1) : table[k] = FREE
    BY <1>1, <2>2 DEF Runs, Blocks
  <2>5. \A a \in live : Abstract!Disjoint(new, a)
    BY <2>4, HeldNotFree DEF Abstract!Disjoint, Abstract!Cells, Cells
  <2>6. new \in Abstract!Regions
    BY <2>2, <2>4 DEF Abstract!Regions, Abstract!Blocks, Blocks
  <2>7. new \in Abstract!Candidates(s)
    BY <2>2, <2>3, <2>5, <2>6 DEF Abstract!Candidates
  <2> QED
    BY <2>1, <2>3, <2>7
    DEF Abstract!Malloc, Abstract!Representable, Abstract!AddrOf, AddrOf
<1>3. CASE blk = -1
  <2>1. UNCHANGED live /\ ret' = NULL /\ req' = s
    BY <1>3 DEF kmalloc
  <2>2. ASSUME Abstract!Representable(s), NEW c \in Abstract!Candidates(s)
        PROVE  FALSE
    <3>1. /\ c.first \in Blocks /\ c.len \in 1 .. Total
          /\ c.first + c.len <= Total
          /\ c.len * BlockSize >= s /\ (c.len - 1) * BlockSize < s
          /\ \A b \in live : Cells(c) \cap Cells(b) = {}
      BY DEF Abstract!Candidates, Abstract!Regions, Abstract!Blocks, Blocks,
             Abstract!Disjoint, Abstract!Cells, Cells
    <3> HIDE DEF n
    <3>2. n # 0
      BY <2>2, BlockCountCovers DEF n, Abstract!Representable
    <3>3. n * BlockSize >= s /\ (n - 1) * BlockSize < s
      BY <1>1, <3>2, BlockCountCovers DEF n
    <3>4. c.len = n
      <4>1. c.len \in Nat /\ s \in Nat /\ n \in Nat
        BY <1>1, <3>1
      <4> QED
        BY <1>1, <3>1, <3>3, <4>1, CoverUnique, Zenon
    <3>5. \A k \in c.first .. (c.first + n - 1) : k \in Blocks /\ table[k] = FREE
      <4> TAKE k \in c.first .. (c.first + n - 1)
      <4>1. k \in Blocks /\ k \in Cells(c)
        BY <1>1, <3>1, <3>4 DEF Blocks, Cells
      <4> QED
        BY <1>1, <3>1, <4>1 DEF IInv, NoLeak
    <3>6. c.first \in Runs(table, n)
      BY <1>1, <3>1, <3>4, <3>5 DEF Runs
    <3> QED
      <4>1. blk \notin Blocks
        BY <1>3 DEF Blocks
      <4> QED
        BY <1>1, <3>2, <3>6, <4>1, StartBlock
  <2> QED
    BY <2>1, <2>2 DEF Abstract!Malloc, Abstract!NULL
<1> QED
  BY <1>2, <1>3

(* heap.c keeps the promise of a page allocator: every kmalloc, kfree and    *)
(* kheap_init is a step the abstract allocator may take, or changes nothing  *)
(* a caller can see.                                                         *)
THEOREM Refinement == Spec => AbstractSpec
<1>1. Init => Abstract!Init
  BY DEF Init, Abstract!Init, Abstract!NULL
<1>2. IInv /\ [Next]_vars => [Abstract!Next]_<<live, req, ret>>
  <2> SUFFICES ASSUME IInv, [Next]_vars PROVE [Abstract!Next]_<<live, req, ret>>
    OBVIOUS
  <2>1. CASE kheap_init
    BY <2>1 DEF kheap_init
  <2>2. ASSUME NEW s \in Sizes, kmalloc(s) PROVE Abstract!Next
    BY <2>2, KmallocRefines DEF Abstract!Next
  <2>3. ASSUME NEW p \in Pointers, kfree(p) PROVE Abstract!Next
    <3>1. \A a \in live : a.first \in Nat
      BY TotalNat DEF IInv, TypeOK, Regions, Blocks
    <3>2. \A a \in live : Abstract!Holds(a, p) <=> a.first = BlockOf(p)
      BY <3>1, HoldsIsFirst
    <3>3. live' = {a \in live : ~ Abstract!Holds(a, p)} /\ ret' = ret
      <4>1. CASE UNCHANGED <<live, ret>> /\ \A a \in live : a.first # BlockOf(p)
        BY <3>2, <4>1
      <4>2. ASSUME NEW a \in live, a.first = BlockOf(p), live' = live \ {a}, ret' = ret
            PROVE  live' = {b \in live : ~ Abstract!Holds(b, p)} /\ ret' = ret
        BY <3>2, <4>2, FirstUnique
      <4> QED
        BY <2>3, <4>1, <4>2, KfreeEffect
    <3>4. p \in Abstract!Pointers
      BY DEF Pointers, Abstract!Pointers
    <3> QED
      BY <2>3, <3>3, <3>4 DEF kfree, Abstract!Next, Abstract!Free
  <2>4. CASE UNCHANGED vars
    BY <2>4 DEF vars
  <2> QED
    BY <2>1, <2>2, <2>3, <2>4 DEF Next
<1> QED
  BY <1>1, <1>2, Invariance, PTL DEF Spec, AbstractSpec, Abstract!Spec
-----------------------------------------------------------------------------
(* The search loops of FirstFitScan, for tables of every length and requests *)
(* of every size.                                                            *)

(* The least element of a set of naturals is what FirstFit chooses. *)
LEMMA FirstFitIs ==
    ASSUME NEW t, NEW n, n # 0, DOMAIN t \subseteq Nat,
           NEW r \in Runs(t, n), \A j \in Runs(t, n) : r <= j
    PROVE  FirstFit(t, n) = r
<1>1. Runs(t, n) # {} /\ Runs(t, n) \subseteq Nat
  BY DEF Runs
<1> DEFINE c == CHOOSE x \in Runs(t, n) : \A j \in Runs(t, n) : x <= j
<1>2. c \in Runs(t, n) /\ \A j \in Runs(t, n) : c <= j
  OBVIOUS
<1>3. c <= r /\ r <= c
  BY <1>2
<1>4. c = r
  BY <1>1, <1>2, <1>3
<1> QED
  BY <1>1, <1>4 DEF FirstFit

(* The loop invariant.  In the for, no run begins before i; in the while,    *)
(* rtn_val .. i-1 are count free entries and no run begins before rtn_val.    *)
LoopInv ==
    /\ entries \in [Slots -> Entries]
    /\ block_count \in Nat
    /\ i \in Nat
    /\ pc = "for" => /\ rtn_val = -1 /\ count = 0
                     /\ block_count > 0 => \A j \in Runs(entries, block_count) : j >= i
    /\ pc = "while" => /\ rtn_val \in Slots /\ count \in Nat \ {0}
                       /\ i = rtn_val + count
                       /\ i <= TableSize
                       /\ block_count > 0 => /\ count <= block_count
                                             /\ \A j \in Runs(entries, block_count) : j >= rtn_val
                       /\ \A k \in rtn_val .. (i - 1) : entries[k] = FREE
    /\ pc = "done" => rtn_val = FirstFit(entries, block_count)
    /\ pc \in {"for", "while", "done"}

(* The loop invariant holds throughout a search. *)
THEOREM LoopInvariance == ScanSpec => []LoopInv
<1> USE TableSizeAssumption, MaxRequestAssumption
<1>1. ScanInit => LoopInv
  BY DEF ScanInit, LoopInv, Runs, Slots
<1>2. LoopInv /\ [ScanNext]_scanVars => LoopInv'
  <2> SUFFICES ASSUME LoopInv, [ScanNext]_scanVars PROVE LoopInv'
    OBVIOUS
  <2>0. /\ entries \in [Slots -> Entries] /\ block_count \in Nat /\ i \in Nat
        /\ Runs(entries, block_count) \subseteq Slots /\ Slots \subseteq Nat
    BY DEF LoopInv, Runs, Slots
  <2>1. CASE ForTaken
    <3>1. ASSUME block_count > 0, NEW j \in Runs(entries, block_count)
          PROVE  j >= i + 1
      <4>0. j \in Nat
        BY <2>0, <3>1
      <4>1. j >= i /\ j \in j .. (j + block_count - 1)
        BY <2>0, <2>1, <3>1, <4>0 DEF LoopInv, ForTaken
      <4>2. entries[j] = FREE
        BY <4>1 DEF Runs
      <4> QED
        BY <2>0, <2>1, <4>0, <4>1, <4>2 DEF ForTaken
    <3> QED
      BY <2>0, <2>1, <3>1 DEF LoopInv, ForTaken
  <2>2. CASE ForFree
    BY <2>0, <2>2 DEF LoopInv, ForFree, Slots
  <2>3. CASE While
    <3>1. /\ rtn_val \in Slots /\ count \in Nat \ {0} /\ i = rtn_val + count
          /\ block_count > 0 => count < block_count
          /\ i < TableSize /\ entries[i] = FREE
          /\ \A k \in rtn_val .. (i - 1) : entries[k] = FREE
      BY <2>0, <2>3 DEF LoopInv, While, Extends, WantsMore
    <3>2. \A k \in rtn_val .. i : entries[k] = FREE
      BY <2>0, <3>1
    <3> QED
      BY <2>0, <2>3, <3>1, <3>2 DEF LoopInv, While
  <2>4. CASE Found
    <3>1. /\ rtn_val \in Slots /\ count \in Nat \ {0} /\ i = rtn_val + count
          /\ count = block_count /\ i <= TableSize
          /\ \A k \in rtn_val .. (i - 1) : entries[k] = FREE
          /\ \A j \in Runs(entries, block_count) : j >= rtn_val
      BY <2>0, <2>4 DEF LoopInv, Found
    <3>2. rtn_val \in Runs(entries, block_count)
      BY <2>0, <3>1 DEF Runs, Slots
    <3>3. rtn_val = FirstFit(entries, block_count)
      <4>1. \A j \in Runs(entries, block_count) : rtn_val <= j
        BY <2>0, <3>1
      <4> QED
        BY <2>0, <3>1, <3>2, <4>1, FirstFitIs
    <3> QED
      BY <2>0, <2>4, <3>3 DEF LoopInv, Found
  <2>5. CASE Restart
    <3>1. /\ rtn_val \in Slots /\ count \in Nat \ {0} /\ i = rtn_val + count
          /\ i <= TableSize /\ ~ Extends /\ count # block_count
      BY <2>5 DEF LoopInv, Restart
    <3>2. ASSUME block_count > 0, NEW j \in Runs(entries, block_count)
          PROVE  j >= i + 1
      <4>0. j \in Nat
        BY <2>0, <3>2
      <4>1. j >= rtn_val /\ count < block_count /\ j \in Nat
        <5>1. count <= block_count /\ j >= rtn_val
          BY <2>5, <3>2 DEF LoopInv, Restart
        <5> QED
          BY <2>0, <3>1, <4>0, <5>1
      <4>2. ~ (i < TableSize /\ entries[i] = FREE)
        BY <2>0, <3>1, <4>1 DEF Extends, WantsMore
      <4>3. ~ (i \in Slots /\ entries[i] = FREE)
        BY <2>0, <4>2 DEF Slots
      <4>4. i \notin j .. (j + block_count - 1)
        BY <2>0, <4>3 DEF Runs
      <4> QED
        BY <2>0, <3>1, <4>1, <4>4 DEF Slots
    <3> QED
      BY <2>0, <2>5, <3>1, <3>2 DEF LoopInv, Restart
  <2>6. CASE ForExit
    <3>1. i >= TableSize /\ rtn_val = -1
      BY <2>6 DEF LoopInv, ForExit
    <3>2. block_count # 0 => Runs(entries, block_count) = {}
      BY <2>0, <2>6, <3>1 DEF LoopInv, ForExit, Slots
    <3>3. rtn_val = FirstFit(entries, block_count)
      BY <3>1, <3>2 DEF FirstFit
    <3> QED
      BY <2>0, <2>6, <3>3 DEF LoopInv, ForExit
  <2>7. CASE UNCHANGED scanVars
    BY <2>7 DEF scanVars, LoopInv
  <2> QED
    BY <2>1, <2>2, <2>3, <2>4, <2>5, <2>6, <2>7 DEF ScanNext
<1> QED
  BY <1>1, <1>2, PTL DEF ScanSpec

(* heap_get_start_block and get_index return the first fit, for every table  *)
(* and request.                                                              *)
THEOREM ScanCorrect == ScanSpec => []FindsFirstFit
<1>1. LoopInv => FindsFirstFit
  BY DEF LoopInv, FindsFirstFit
<1> QED
  BY <1>1, LoopInvariance, PTL
=============================================================================

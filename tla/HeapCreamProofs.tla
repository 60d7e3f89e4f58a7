--------------------------- MODULE HeapCreamProofs ---------------------------
(***************************************************************************)
(* Proofs about HeapCream and the slab pages of Heap32, for every number   *)
(* of pages, slots, guard bytes and directory entries, every set of        *)
(* request sizes and whatever sectors leave in a page.                     *)
(***************************************************************************)
EXTENDS HeapCream, FiniteSetTheorems, TLAPS

USE DEF NULL, FREE, SINGLE, START, MID, END

(* The table bytes of a chunk: SINGLE, or START MID* END. *)
Marked(h, c) ==
    /\ c.slot + c.len <= Slots
    /\ c.len = 1 => h[c.slot] = SINGLE
    /\ c.len > 1 => /\ h[c.slot] = START
                    /\ h[c.slot + c.len - 1] = END
                    /\ \A k \in (c.slot + 1) .. (c.slot + c.len - 2) : h[k] = MID

ChunksMarked == \A c \in chunks : Marked(mem[c.page], c)

(* The guard bytes stop heap32_free's walk. *)
Guarded(h) == \A k \in Header : k >= Slots => h[k] = GUARD

PagesGuarded == \A p \in Registered : Guarded(mem[p])

CreamInv ==
    /\ TypeOK
    /\ ChunksDisjoint /\ ChunksBacked /\ OneOwner
    /\ ChunksMarked /\ PagesGuarded
-----------------------------------------------------------------------------
(* Operators of the model. *)

(* Every non-empty set of naturals has a least element. *)
LEMMA LeastNatural ==
    ASSUME NEW S \in SUBSET Nat, S # {}
    PROVE  \E m \in S : \A n \in S : m <= n
<1>1. PICK m \in S : \A n \in S : ~ (<<n, m>> \in OpToRel(<, Nat))
  BY NatLessThanWellFounded, WFMin
<1>2. \A n \in S : ~ (n < m)
  BY <1>1 DEF OpToRel
<1> QED
  BY <1>2

(* The constants in the form the proofs use. *)
LEMMA Layout ==
    /\ Slots \in Nat /\ Slots > 0 /\ SlotBytes \in Nat /\ SlotBytes > 0
    /\ DATA_OFFSET_BYTES \in Nat /\ DATA_OFFSET_BYTES > Slots
    /\ Slots \in Header /\ SlotSet \subseteq Header /\ Header \subseteq Nat
    /\ 0 \in Header /\ 1 \in Header
    /\ NPages \in Nat /\ MaxHeap \in Nat
  BY SlotsAssumption, GuardBytesAssumption, SlotBytesAssumption, NPagesAssumption,
     MaxHeapAssumption
     DEF DATA_OFFSET_BYTES, Header, SlotSet

(* The number of slots a request needs. *)
LEMMA NoBlocksNat ==
    ASSUME NEW s \in Sizes
    PROVE  NoBlocks(s) \in Nat
<1> DEFINE x == s + SlotBytes - 1
<1>1. x \in Nat /\ SlotBytes \in Nat \ {0}
  BY CreamSizesAssumption, Layout
<1> HIDE DEF x
<1>2. x \div SlotBytes \in Nat
  BY <1>1
<1> QED
  BY <1>2 DEF NoBlocks, x

(* get_index returns -1 or the head of a run of free slots inside the page. *)
LEMMA GetIndex ==
    ASSUME NEW h \in Pages32, NEW n \in Nat
    PROVE  LET k == get_index(h, n)
           IN  \/ k = -1
               \/ /\ k \in SlotSet /\ n > 0 /\ k + n <= Slots
                  /\ \A j \in k .. (k + n - 1) : h[j] = FREE
<1> DEFINE t == [k \in SlotSet |-> h[k]]
<1>1. DOMAIN t = SlotSet
  OBVIOUS
<1>2. \A k \in SlotSet : t[k] = h[k]
  OBVIOUS
<1> HIDE DEF t
<1>3. Runs(t, n) \in SUBSET Nat
  BY <1>1, Layout DEF Runs
<1>4. CASE n = 0 \/ Runs(t, n) = {}
  BY <1>4 DEF get_index, FirstFit, t
<1>5. CASE n # 0 /\ Runs(t, n) # {}
  <2> PICK k : k = FirstFit(t, n)
    OBVIOUS
  <2>1. \E m \in Runs(t, n) : \A j \in Runs(t, n) : m <= j
    BY <1>3, <1>5, LeastNatural
  <2>2. k \in Runs(t, n)
    BY <1>5, <2>1 DEF FirstFit
  <2>3. k \in SlotSet /\ \A j \in k .. (k + n - 1) : j \in SlotSet /\ t[j] = FREE
    BY <1>1, <2>2 DEF Runs
  <2>4. k \in Nat /\ n > 0
    BY <1>5, <2>3, Layout
  <2>5. k + n - 1 \in SlotSet
    BY <2>3, <2>4
  <2>6. k + n <= Slots
    BY <2>4, <2>5, Layout DEF SlotSet
  <2>7. get_index(h, n) = k
    BY DEF get_index, t
  <2> QED
    BY <1>2, <2>3, <2>4, <2>6, <2>7
<1> QED
  BY <1>4, <1>5

(* What malloc_32 leaves in a page: the new chunk's slots were free, they    *)
(* carry its marks now, and no other byte has changed.                       *)
LEMMA MallocPage ==
    ASSUME NEW p \in Pages, NEW h \in Pages32, NEW s \in Sizes, CanServe(h, s)
    PROVE  LET g == malloc_32(h, s)
               c == NewChunk(p, h, s)
           IN  /\ g \in Pages32
               /\ c \in Chunks /\ c.page = p
               /\ Marked(g, c)
               /\ \A k \in SlotsOf(c) : h[k] = FREE
               /\ \A k \in Header : k \notin SlotsOf(c) => g[k] = h[k]
               /\ Guarded(h) => Guarded(g)
<1> PICK n : n = NoBlocks(s)
  OBVIOUS
<1> PICK m : m = get_index(h, n)
  OBVIOUS
<1> DEFINE g == MarkRun(h, m, n)
           c == [page |-> p, slot |-> m, len |-> n]
<1>1. /\ n \in Nat /\ n > 0 /\ m \in SlotSet /\ m \in Nat /\ m + n <= Slots
      /\ \A j \in m .. (m + n - 1) : h[j] = FREE
  BY GetIndex, NoBlocksNat, Layout DEF CanServe
<1>2. malloc_32(h, s) = g /\ NewChunk(p, h, s) = c
  BY DEF malloc_32, set_table_val, NewChunk
<1>3. c \in Chunks /\ c.page = p /\ SlotsOf(c) = m .. (m + n - 1)
  BY <1>1, Layout DEF Chunks, SlotsOf
<1>4. ASSUME NEW k \in Header
      PROVE  /\ g[k] \in Bytes
             /\ k \notin m .. (m + n - 1) => g[k] = h[k]
  BY <1>1, <1>4, Layout DEF MarkRun, Pages32, Bytes, Entries
<1>5. g \in Pages32
  <2>1. DOMAIN h = Header
    BY DEF Pages32
  <2> QED
    BY <1>4, <2>1 DEF Pages32, MarkRun
<1>6. Marked(g, c)
  <2>1. n = 1 => g[m] = SINGLE
    BY <1>1, Layout DEF MarkRun, Pages32
  <2>2. ASSUME n > 1
        PROVE  /\ g[m] = START /\ g[m + n - 1] = END
               /\ \A k \in (m + 1) .. (m + n - 2) : g[k] = MID
    <3>1. \A k \in m .. (m + n - 1) : k \in Header
      BY <1>1, Layout DEF Header
    <3>2. g[m] = START
      BY <1>1, <2>2, <3>1, Layout DEF MarkRun, Pages32
    <3>3. g[m + n - 1] = END
      BY <1>1, <2>2, <3>1, Layout DEF MarkRun, Pages32
    <3>4. ASSUME NEW k \in (m + 1) .. (m + n - 2) PROVE g[k] = MID
      BY <1>1, <2>2, <3>1, <3>4, Layout DEF MarkRun, Pages32
    <3> QED
      BY <3>2, <3>3, <3>4
  <2> QED
    BY <1>1, <2>1, <2>2 DEF Marked
<1>7. ASSUME Guarded(h) PROVE Guarded(g)
  <2> SUFFICES ASSUME NEW k \in Header, k >= Slots PROVE g[k] = GUARD
    BY DEF Guarded
  <2>1. k \notin m .. (m + n - 1)
    BY <1>1, Layout
  <2> QED
    BY <1>4, <1>7, <2>1 DEF Guarded
<1> HIDE DEF g, c
<1> QED
  BY <1>1, <1>2, <1>3, <1>4, <1>5, <1>6, <1>7

(* No byte of a marked chunk is free, its first one is SINGLE or START, and   *)
(* the others are neither.                                                    *)
LEMMA MarkedBytes ==
    ASSUME NEW c \in Chunks, NEW h, Marked(h, c)
    PROVE  /\ c.slot \in Nat /\ c.len \in Nat /\ c.len > 0 /\ c.slot + c.len <= Slots
           /\ c.slot \in SlotsOf(c)
           /\ SlotsOf(c) \subseteq SlotSet
           /\ h[c.slot] \in {SINGLE, START}
           /\ \A k \in SlotsOf(c) : h[k] # FREE
           /\ \A k \in SlotsOf(c) : k # c.slot => h[k] \in {MID, END}
<1>1. /\ c.slot \in Nat /\ c.len \in Nat /\ c.len > 0 /\ c.slot + c.len <= Slots
  BY Layout DEF Chunks, SlotSet, Marked
<1>2. c.slot \in SlotsOf(c) /\ SlotsOf(c) \subseteq SlotSet
  BY <1>1, Layout DEF SlotsOf, SlotSet
<1>3. h[c.slot] \in {SINGLE, START}
  BY <1>1 DEF Marked
<1>4. ASSUME NEW k \in SlotsOf(c), k # c.slot PROVE h[k] \in {MID, END}
  <2>1. k \in Nat /\ k > c.slot /\ k <= c.slot + c.len - 1
    BY <1>1, <1>4 DEF SlotsOf
  <2>2. c.len > 1 /\ (k = c.slot + c.len - 1 \/ k \in (c.slot + 1) .. (c.slot + c.len - 2))
    BY <1>1, <2>1
  <2> QED
    BY <2>2 DEF Marked
<1> QED
  BY <1>1, <1>2, <1>3, <1>4

(* The slot an accepted offset names. *)
LEMMA OffsetSlot ==
    ASSUME NEW off \in 0 .. (PageBytes - 1), ~ BadOffset(off)
    PROVE  SlotOf(off) \in SlotSet /\ off = DATA_OFFSET_BYTES + SlotOf(off) * SlotBytes
<1> DEFINE x == off - DATA_OFFSET_BYTES
           q == x \div SlotBytes
<1>1. /\ off \in Nat /\ x \in Nat /\ x % SlotBytes = 0
      /\ off < PageBytes /\ SlotBytes \in Nat \ {0}
  BY SlotsAssumption, Layout DEF BadOffset, PageBytes, TOTAL_BYTES_AVAIL
<1>2. x = off - DATA_OFFSET_BYTES /\ DATA_OFFSET_BYTES \in Nat
  BY Layout
<1>3. SlotOf(off) = q
  BY DEF SlotOf
<1> HIDE DEF x
<1>4. q \in Nat /\ x = SlotBytes * q
  BY <1>1
<1> HIDE DEF q
<1>5. SlotBytes * q = q * SlotBytes
  BY <1>1, <1>4
<1>6. q < Slots
  <2> SUFFICES ASSUME q >= Slots PROVE FALSE
    BY <1>4, Layout
  <2>1. q * SlotBytes >= Slots * SlotBytes
    BY <1>1, <1>4, Layout
  <2>2. x < Slots * SlotBytes
    BY <1>1, <1>2, Layout DEF PageBytes, TOTAL_BYTES_AVAIL
  <2>3. Slots * SlotBytes \in Nat /\ q * SlotBytes \in Nat
    BY <1>1, <1>4, Layout
  <2> QED
    BY <1>1, <1>4, <1>5, <2>1, <2>2, <2>3
<1> QED
  BY <1>1, <1>2, <1>3, <1>4, <1>5, <1>6, Layout DEF SlotSet

(* From a START slot the walk of heap32_free ends at or before the guard. *)
LEMMA TailFound ==
    ASSUME NEW h \in Pages32, Guarded(h), NEW i \in SlotSet
    PROVE  LET e == TailOf(h, i)
           IN  /\ e \in Header /\ e > i /\ e <= Slots /\ h[e] # MID
               /\ \A j \in (i + 1) .. (e - 1) : h[j] = MID
<1> DEFINE S == {k \in Header : k > i /\ h[k] # MID}
<1>1. Slots \in S
  BY Layout DEF Guarded, SlotSet, GUARD
<1>2. S \in SUBSET Nat
  BY Layout
<1> HIDE DEF S
<1>3. PICK m \in S : \A n \in S : m <= n
  BY <1>1, <1>2, LeastNatural
<1>4. /\ m \in Header /\ m > i /\ h[m] # MID
      /\ \A j \in (i + 1) .. (m - 1) : h[j] = MID
  <2> SUFFICES ASSUME NEW j \in (i + 1) .. (m - 1) PROVE h[j] = MID
    BY DEF S
  <2>1. m \in Nat /\ i \in Nat /\ j \in Header /\ j > i /\ j < m
    BY <1>2, Layout DEF Header, SlotSet, S
  <2>2. j \notin S
    BY <1>2, <1>3, <2>1
  <2> QED
    BY <2>1, <2>2 DEF S
<1> PICK e : e = TailOf(h, i)
  OBVIOUS
<1>5. /\ e \in Header /\ e > i /\ h[e] # MID
      /\ \A j \in (i + 1) .. (e - 1) : h[j] = MID
  BY <1>4 DEF TailOf
<1>6. e <= Slots
  <2> SUFFICES ASSUME e > Slots PROVE FALSE
    BY <1>5, Layout
  <2>1. Slots \in (i + 1) .. (e - 1)
    BY <1>5, Layout DEF SlotSet
  <2>2. h[Slots] = MID /\ h[Slots] = GUARD
    BY <1>5, <2>1, Layout DEF Guarded
  <2> QED
    BY <2>2 DEF GUARD
<1> QED
  BY <1>5, <1>6

(* The bytes i .. e of a page have been cleared: a SINGLE or a START followed *)
(* by nothing but MID and END; success is reported exactly when the run       *)
(* ended in its END.                                                          *)
ClearedRun(h, f, i, e) ==
    /\ e >= i
    /\ f.h = Cleared(h, i .. e)
    /\ \/ f.ok = TRUE /\ h[i] = SINGLE /\ e = i
       \/ /\ f.ok = TRUE /\ h[i] = START /\ e > i /\ h[e] = END
          /\ \A k \in (i + 1) .. (e - 1) : h[k] = MID
       \/ /\ f.ok = FALSE /\ h[i] = START /\ h[e + 1] \notin {MID, END}
          /\ \A k \in (i + 1) .. e : h[k] = MID

(* What heap32_free clears: nothing, or a run from the slot its offset names. *)
LEMMA FreePageEffect ==
    ASSUME NEW h \in Pages32, Guarded(h), NEW off \in 0 .. (PageBytes - 1),
           NEW f, f = heap32_free(h, off), NEW i, i = SlotOf(off)
    PROVE  \/ f.ok = FALSE /\ f.h = h
           \/ /\ ~ BadOffset(off) /\ i \in SlotSet
              /\ \E e \in SlotSet : ClearedRun(h, f, i, e)
<1>1. CASE BadOffset(off) \/ h[i] \notin {SINGLE, START}
  <2>1. f = [ok |-> FALSE, h |-> h]
    BY <1>1 DEF heap32_free
  <2> QED
    BY <2>1
<1>2. CASE ~ BadOffset(off) /\ h[i] = SINGLE
  <2>1. i \in SlotSet /\ i \in Nat
    BY <1>2, OffsetSlot, Layout
  <2>2. f = [ok |-> TRUE, h |-> Cleared(h, {i})]
    BY <1>2 DEF heap32_free
  <2>3. i .. i = {i} /\ i >= i
    BY <2>1
  <2>4. ClearedRun(h, f, i, i)
    BY <1>2, <2>2, <2>3 DEF ClearedRun
  <2> QED
    BY <1>2, <2>1, <2>4
<1>3. CASE ~ BadOffset(off) /\ h[i] = START
  <2> PICK e : e = TailOf(h, i)
    OBVIOUS
  <2>1. i \in SlotSet /\ i \in Nat
    BY <1>3, OffsetSlot, Layout
  <2>2. f = IF h[e] = END THEN [ok |-> TRUE,  h |-> Cleared(h, i .. e)]
                          ELSE [ok |-> FALSE, h |-> Cleared(h, i .. (e - 1))]
    BY <1>3 DEF heap32_free
  <2>3. /\ e \in Header /\ e > i /\ e <= Slots /\ h[e] # MID
        /\ \A j \in (i + 1) .. (e - 1) : h[j] = MID
    BY <2>1, TailFound
  <2>4. e \in Nat
    BY <2>3, Layout
  <2>5. CASE h[e] = END
    <3>1. h[Slots] = GUARD
      BY Layout DEF Guarded
    <3>2. e \in SlotSet
      BY <2>3, <2>4, <2>5, <3>1, Layout DEF SlotSet, GUARD
    <3>3. f.ok = TRUE /\ f.h = Cleared(h, i .. e)
      BY <2>2, <2>5
    <3>4. ClearedRun(h, f, i, e)
      BY <1>3, <2>1, <2>3, <2>4, <2>5, <3>3 DEF ClearedRun
    <3> QED
      BY <1>3, <2>1, <3>2, <3>4
  <2>6. CASE h[e] # END
    <3> PICK l : l = e - 1
      OBVIOUS
    <3>1. l \in SlotSet /\ l >= i /\ l + 1 = e
      BY <2>1, <2>3, <2>4, Layout DEF SlotSet
    <3>2. f.ok = FALSE /\ f.h = Cleared(h, i .. l)
      BY <2>2, <2>6
    <3>3. h[l + 1] \notin {MID, END} /\ \A k \in (i + 1) .. l : h[k] = MID
      BY <2>3, <2>6, <3>1
    <3>4. ClearedRun(h, f, i, l)
      BY <1>3, <3>1, <3>2, <3>3 DEF ClearedRun
    <3> QED
      BY <1>3, <2>1, <3>1, <3>4
  <2> QED
    BY <2>5, <2>6
<1> QED
  BY <1>1, <1>2, <1>3

(* heap32_free leaves a page of table bytes with its guard. *)
LEMMA FreePageType ==
    ASSUME NEW h \in Pages32, Guarded(h), NEW off \in 0 .. (PageBytes - 1),
           NEW f, f = heap32_free(h, off)
    PROVE  f.h \in Pages32 /\ Guarded(f.h) /\ f.ok \in BOOLEAN
<1>1. ASSUME NEW i \in SlotSet, NEW e \in SlotSet
      PROVE  Cleared(h, i .. e) \in Pages32 /\ Guarded(Cleared(h, i .. e))
  <2>1. Cleared(h, i .. e) \in Pages32
    BY DEF Cleared, Pages32, Bytes, Entries
  <2>2. \A k \in Header : k >= Slots => k \notin i .. e
    BY Layout DEF SlotSet
  <2>3. Guarded(Cleared(h, i .. e))
    BY <2>2 DEF Cleared, Guarded
  <2> QED
    BY <2>1, <2>3
<1>2. CASE f.ok = FALSE /\ f.h = h
  BY <1>2
<1>3. ASSUME SlotOf(off) \in SlotSet, NEW e \in SlotSet, ClearedRun(h, f, SlotOf(off), e)
      PROVE  f.h \in Pages32 /\ Guarded(f.h) /\ f.ok \in BOOLEAN
  <2>1. f.h = Cleared(h, SlotOf(off) .. e) /\ (f.ok = TRUE \/ f.ok = FALSE)
    BY <1>3 DEF ClearedRun
  <2> QED
    BY <1>1, <1>3, <2>1
<1> QED
  BY <1>2, <1>3, FreePageEffect

(* A marked chunk is cleared whole, by the pointer its caller got and with    *)
(* success reported, or not touched at all.                                   *)
LEMMA FreeWholeChunk ==
    ASSUME NEW h \in Pages32, Guarded(h), NEW off \in 0 .. (PageBytes - 1),
           NEW c \in Chunks, Marked(h, c)
    PROVE  LET f == heap32_free(h, off)
           IN  \/ /\ f.ok = TRUE /\ f.h[c.slot] = FREE
                  /\ off = DATA_OFFSET_BYTES + c.slot * SlotBytes
               \/ \A k \in SlotsOf(c) : f.h[k] = h[k]
<1> PICK f : f = heap32_free(h, off)
  OBVIOUS
<1> PICK i : i = SlotOf(off)
  OBVIOUS
<1>1. /\ c.slot \in Nat /\ c.len \in Nat /\ c.len > 0 /\ c.slot + c.len <= Slots
      /\ c.slot \in SlotsOf(c) /\ SlotsOf(c) \subseteq SlotSet
      /\ h[c.slot] \in {SINGLE, START}
      /\ \A k \in SlotsOf(c) : k # c.slot => h[k] \in {MID, END}
  BY MarkedBytes
<1>2. CASE f.ok = FALSE /\ f.h = h
  BY <1>2
<1>3. ASSUME ~ BadOffset(off), i \in SlotSet, NEW e \in SlotSet, ClearedRun(h, f, i, e)
      PROVE  \/ /\ f.ok = TRUE /\ f.h[c.slot] = FREE
                /\ off = DATA_OFFSET_BYTES + c.slot * SlotBytes
             \/ \A k \in SlotsOf(c) : f.h[k] = h[k]
  <2>1. i \in Nat /\ e \in Nat /\ e < Slots /\ off = DATA_OFFSET_BYTES + i * SlotBytes
    BY <1>3, OffsetSlot, Layout DEF SlotSet
  <2>2. \A k \in Header : f.h[k] = IF k \in i .. e THEN FREE ELSE h[k]
    BY <1>3 DEF Cleared, ClearedRun
  <2>3. h[i] \in {SINGLE, START} /\ \A k \in (i + 1) .. e : h[k] \in {MID, END}
    <3>1. \A k \in (i + 1) .. e : k = e \/ k \in (i + 1) .. (e - 1)
      BY <2>1
    <3> QED
      BY <1>3, <2>1, <3>1 DEF ClearedRun
  <2>4. CASE c.slot = i
    <3>1. f.h[c.slot] = FREE
      <4>1. i \in Header /\ i \in i .. e
        BY <1>3, <2>1, Layout DEF ClearedRun
      <4> QED
        BY <2>2, <2>4, <4>1
    <3>2. f.ok = TRUE
      <4> SUFFICES ASSUME f.ok = FALSE PROVE FALSE
        BY <1>3 DEF ClearedRun
      <4>1. /\ h[i] = START /\ h[e + 1] \notin {MID, END}
            /\ \A k \in (i + 1) .. e : h[k] = MID
        BY <1>3 DEF ClearedRun
      <4>2. c.len > 1 /\ h[i + c.len - 1] = END
        BY <1>1, <2>4, <4>1 DEF Marked
      <4>3. i + c.len - 1 > e
        BY <1>1, <2>1, <4>1, <4>2
      <4>4. e + 1 \in SlotsOf(c) /\ e + 1 # c.slot
        <5>1. e >= i
          BY <1>3 DEF ClearedRun
        <5>2. SlotsOf(c) = i .. (i + c.len - 1)
          BY <2>4 DEF SlotsOf
        <5>3. e + 1 \in i .. (i + c.len - 1) /\ e + 1 # i
          BY <1>1, <2>1, <4>3, <5>1
        <5> QED
          BY <2>4, <5>2, <5>3
      <4> QED
        BY <1>1, <4>1, <4>4
    <3> QED
      BY <2>1, <2>4, <3>1, <3>2
  <2>5. CASE c.slot # i
    <3>1. c.slot \notin i .. e
      <4>1. c.slot \in i .. e => c.slot \in (i + 1) .. e
        BY <1>1, <2>1, <2>5
      <4> QED
        BY <1>1, <2>3, <4>1
    <3>2. i \notin SlotsOf(c)
      BY <1>1, <2>3, <2>5
    <3>3. \A k \in SlotsOf(c) : k \notin i .. e
      BY <1>1, <2>1, <3>1, <3>2 DEF SlotsOf
    <3> QED
      BY <1>1, <2>2, <3>3, Layout
  <2> QED
    BY <2>4, <2>5
<1> QED
  BY <1>2, <1>3, FreePageEffect

-----------------------------------------------------------------------------
(* The directory. *)

(* kzalloc of a page finds a free page whenever there is one; nobody holds it. *)
LEMMA FreePageFound ==
    ASSUME CreamInv, FreePage # -1
    PROVE  /\ FreePage \in Pages /\ table[FreePage] = FREE
           /\ FreePage \notin Registered /\ FreePage \notin streams
           /\ \A c \in chunks : c.page # FreePage
<1>1. DOMAIN table = Pages /\ NPages \in Nat
  BY Layout DEF CreamInv, TypeOK
<1>2. Runs(table, 1) # {} /\ FreePage = CHOOSE m \in Runs(table, 1) : \A n \in Runs(table, 1) : m <= n
  BY DEF FreePage, FirstFit
<1>3. Runs(table, 1) \in SUBSET Nat
  BY <1>1 DEF Runs, Pages
<1>4. \E m \in Runs(table, 1) : \A n \in Runs(table, 1) : m <= n
  BY <1>2, <1>3, LeastNatural
<1>5. FreePage \in Runs(table, 1)
  BY <1>2, <1>4
<1>6. FreePage \in Pages /\ table[FreePage] = FREE
  <2>1. FreePage \in Nat /\ FreePage \in FreePage .. (FreePage + 1 - 1)
    BY <1>3, <1>5
  <2> QED
    BY <1>1, <1>5, <2>1 DEF Runs
<1> QED
  BY <1>6 DEF CreamInv, OneOwner, ChunksBacked

(* The loops visit the entries before the first 0; their number is its index. *)
LEMMA VisitedPrefix ==
    ASSUME CreamInv, Visited # Dir
    PROVE  Cardinality(Visited) \in Dir /\ mothermary[Cardinality(Visited)] = NULL
<1> DEFINE S == {n \in Dir : mothermary[n] = NULL}
<1>1. MaxHeap \in Nat /\ S \in SUBSET Nat
  BY Layout DEF Dir
<1>2. S # {}
  <2> SUFFICES ASSUME S = {} PROVE FALSE
    OBVIOUS
  <2>1. \A n \in Dir : \A j \in 0 .. n : j \in Dir
    BY <1>1 DEF Dir
  <2> QED
    BY <2>1 DEF Visited
<1> HIDE DEF S
<1>3. PICK m \in S : \A n \in S : m <= n
  BY <1>1, <1>2, LeastNatural
<1>4. m \in Dir /\ m \in Nat /\ mothermary[m] = NULL
  BY <1>1 DEF S
<1>5. \A n \in 0 .. (m - 1) : n \in Dir /\ mothermary[n] # NULL
  BY <1>1, <1>3, <1>4 DEF S, Dir
<1>6. Visited = 0 .. (m - 1)
  <2>1. ASSUME NEW n \in Visited PROVE n \in 0 .. (m - 1)
    <3>1. n \in Nat /\ n \in Dir /\ m \notin 0 .. n
      BY <1>1, <1>4, <2>1 DEF Visited, Dir
    <3> QED
      BY <1>4, <3>1
  <2>2. ASSUME NEW n \in 0 .. (m - 1) PROVE n \in Visited
    <3>1. \A j \in 0 .. n : j \in 0 .. (m - 1)
      BY <1>4, <2>2
    <3> QED
      BY <1>5, <2>2, <3>1 DEF Visited
  <2> QED
    BY <2>1, <2>2
<1>7. Cardinality(0 .. (m - 1)) = m
  BY <1>4, FS_Interval
<1> QED
  BY <1>4, <1>6, <1>7

-----------------------------------------------------------------------------
(* The invariant is kept. *)

(* A chunk keeps its marks while its bytes stay. *)
LEMMA MarksStay ==
    ASSUME NEW c \in Chunks, NEW h, NEW g, Marked(h, c),
           \A k \in SlotsOf(c) : g[k] = h[k]
    PROVE  Marked(g, c)
<1>1. c.slot \in Nat /\ c.len \in Nat /\ c.len > 0
  BY MarkedBytes
<1>2. /\ c.slot \in SlotsOf(c) /\ c.slot + c.len - 1 \in SlotsOf(c)
      /\ \A k \in (c.slot + 1) .. (c.slot + c.len - 2) : k \in SlotsOf(c)
  BY <1>1 DEF SlotsOf
<1> QED
  BY <1>1, <1>2 DEF Marked

(* A chunk cut from a page on which the held chunks are marked. *)
LEMMA ChunkAdded ==
    ASSUME CreamInv, NEW p \in Pages, NEW h \in Pages32, NEW s \in Sizes, CanServe(h, s),
           \A c \in chunks : c.page = p => Marked(h, c),
           mem' = [mem EXCEPT ![p] = malloc_32(h, s)],
           chunks' = chunks \cup {NewChunk(p, h, s)}
    PROVE  /\ mem' \in [Pages -> Pages32] /\ chunks' \subseteq Chunks
           /\ ChunksDisjoint' /\ ChunksMarked'
           /\ \A c \in chunks' : c \in chunks \/ c.page = p
           /\ Guarded(h) => Guarded(mem'[p])
           /\ \A q \in Pages : q # p => mem'[q] = mem[q]
<1> PICK g : g = malloc_32(h, s)
  OBVIOUS
<1> PICK new : new = NewChunk(p, h, s)
  OBVIOUS
<1>1. /\ g \in Pages32 /\ new \in Chunks /\ new.page = p /\ Marked(g, new)
      /\ \A k \in SlotsOf(new) : h[k] = FREE
      /\ \A k \in Header : k \notin SlotsOf(new) => g[k] = h[k]
      /\ Guarded(h) => Guarded(g)
  BY MallocPage
<1>2. /\ mem \in [Pages -> Pages32] /\ chunks \subseteq Chunks
      /\ \A c \in chunks : Marked(mem[c.page], c) /\ c.page \in Pages
  BY DEF CreamInv, TypeOK, ChunksMarked, Chunks
<1>3. /\ mem' \in [Pages -> Pages32] /\ mem'[p] = g
      /\ \A q \in Pages : q # p => mem'[q] = mem[q]
  BY <1>1, <1>2
<1>4. ASSUME NEW c \in chunks, c.page = p
      PROVE  SlotsOf(c) \cap SlotsOf(new) = {} /\ Marked(g, c)
  <2>1. /\ \A k \in SlotsOf(c) : h[k] # FREE
        /\ SlotsOf(c) \subseteq SlotSet
    BY <1>2, <1>4, MarkedBytes
  <2>2. SlotsOf(c) \cap SlotsOf(new) = {}
    BY <1>1, <2>1
  <2>3. \A k \in SlotsOf(c) : g[k] = h[k]
    BY <1>1, <2>1, <2>2, Layout
  <2> QED
    BY <1>2, <1>4, <2>2, <2>3, MarksStay
<1>5. ChunksDisjoint'
  <2> SUFFICES ASSUME NEW c \in chunks', NEW d \in chunks', c # d, c.page = d.page
               PROVE  SlotsOf(c) \cap SlotsOf(d) = {}
    BY DEF ChunksDisjoint
  <2>1. CASE c \in chunks /\ d \in chunks
    BY <2>1 DEF CreamInv, ChunksDisjoint
  <2>2. CASE c = new /\ d \in chunks
    BY <1>1, <1>4, <2>2
  <2>3. CASE c \in chunks /\ d = new
    BY <1>1, <1>4, <2>3
  <2> QED
    BY <2>1, <2>2, <2>3
<1>6. ChunksMarked'
  <2> SUFFICES ASSUME NEW c \in chunks' PROVE Marked(mem'[c.page], c)
    BY DEF ChunksMarked
  <2>1. CASE c = new
    BY <1>1, <1>3, <2>1
  <2>2. CASE c \in chunks /\ c.page = p
    BY <1>3, <1>4, <2>2
  <2>3. CASE c \in chunks /\ c.page # p
    BY <1>2, <1>3, <2>3
  <2> QED
    BY <2>1, <2>2, <2>3
<1> QED
  BY <1>1, <1>2, <1>3, <1>5, <1>6

(* The first page with room in the directory serves the request. *)
LEMMA FromDirKeepsInv ==
    ASSUME CreamInv, NEW s \in Sizes, MallocFromDir(s)
    PROVE  CreamInv'
<1>1. PICK n \in Serving(s) :
        LET p == mothermary[n]
        IN  /\ mem' = [mem EXCEPT ![p] = malloc_32(mem[p], s)]
            /\ chunks' = chunks \cup {NewChunk(p, mem[p], s)}
  BY DEF MallocFromDir
<1> PICK p : p = mothermary[n]
  OBVIOUS
<1>2. UNCHANGED <<table, mothermary, streams>>
  BY DEF MallocFromDir
<1>3. n \in Dir /\ mothermary[n] # NULL /\ CanServe(mem[p], s)
  <2>1. n \in Visited /\ n \in Dir /\ CanServe(mem[p], s)
    BY DEF Serving, Visited
  <2>2. n \in 0 .. n
    BY <2>1, Layout DEF Dir
  <2> QED
    BY <2>1, <2>2 DEF Visited
<1>4. p \in Pages /\ p \in Registered /\ mem[p] \in Pages32
  BY <1>3 DEF CreamInv, TypeOK, Registered
<1>5. \A c \in chunks : c.page = p => Marked(mem[p], c)
  BY DEF CreamInv, ChunksMarked
<1>6. /\ mem' \in [Pages -> Pages32] /\ chunks' \subseteq Chunks
      /\ ChunksDisjoint' /\ ChunksMarked'
      /\ \A c \in chunks' : c \in chunks \/ c.page = p
      /\ Guarded(mem[p]) => Guarded(mem'[p])
      /\ \A q \in Pages : q # p => mem'[q] = mem[q]
  BY <1>1, <1>3, <1>4, <1>5, ChunkAdded
<1>7. Registered' = Registered /\ \A q \in Registered : q \in Pages
  BY <1>2 DEF CreamInv, TypeOK, Registered
<1>8. TypeOK'
  BY <1>2, <1>6 DEF CreamInv, TypeOK
<1>9. OneOwner'
  BY <1>2, <1>7 DEF CreamInv, OneOwner
<1>10. ChunksBacked'
  BY <1>2, <1>4, <1>6, <1>7 DEF CreamInv, OneOwner, ChunksBacked
<1>11. PagesGuarded'
  BY <1>4, <1>6, <1>7 DEF CreamInv, PagesGuarded
<1> QED
  BY <1>6, <1>8, <1>9, <1>10, <1>11 DEF CreamInv

(* The index a new page gets held nothing, so no page leaves the directory. *)
LEMMA DirectoryGrows ==
    ASSUME CreamInv, FreePage # -1, Visited # Dir,
           table' = Take(FreePage), streams' = streams,
           mothermary' = [mothermary EXCEPT ![Cardinality(Visited)] = FreePage]
    PROVE  /\ table' \in [Pages -> {FREE, SINGLE}]
           /\ mothermary' \in [Dir -> {NULL} \cup Pages]
           /\ Registered' = Registered \cup {FreePage}
           /\ OneOwner'
<1> PICK f : f = FreePage
  OBVIOUS
<1> PICK m : m = Cardinality(Visited)
  OBVIOUS
<1>1. f \in Pages /\ table[f] = FREE /\ f \notin Registered /\ f \notin streams
  BY FreePageFound
<1>2. m \in Dir /\ mothermary[m] = NULL
  BY VisitedPrefix
<1>3. table \in [Pages -> {FREE, SINGLE}] /\ mothermary \in [Dir -> {NULL} \cup Pages]
      /\ streams \subseteq Pages
  BY DEF CreamInv, TypeOK
<1>4. f # NULL
  BY <1>1, Layout DEF Pages
<1>5. /\ table' \in [Pages -> {FREE, SINGLE}] /\ table'[f] = SINGLE
      /\ \A q \in Pages : q # f => table'[q] = table[q]
  BY <1>1, <1>3 DEF Take
<1>6. /\ mothermary' \in [Dir -> {NULL} \cup Pages]
      /\ \A n \in Dir : mothermary'[n] = IF n = m THEN f ELSE mothermary[n]
  BY <1>1, <1>2, <1>3
<1>7. Registered' = Registered \cup {f}
  BY <1>2, <1>4, <1>6 DEF Registered
<1>8. OneOwner'
  <2>1. ASSUME NEW a \in Dir, NEW b \in Dir, a # b, mothermary'[a] # NULL
        PROVE  mothermary'[a] # mothermary'[b]
    <3>1. \A n \in Dir : mothermary[n] # f
      BY <1>1, <1>4 DEF Registered
    <3> QED
      BY <1>6, <2>1, <3>1 DEF CreamInv, OneOwner
  <2>2. Registered' \cap streams' = {}
    BY <1>1, <1>7 DEF CreamInv, OneOwner
  <2>3. \A q \in Registered \cup streams : q \in Pages /\ table[q] = SINGLE
    BY <1>3 DEF CreamInv, OneOwner, Registered
  <2>4. \A q \in Registered' \cup streams' : table'[q] = SINGLE
    BY <1>5, <1>7, <2>3
  <2> QED
    BY <2>1, <2>2, <2>4 DEF OneOwner
<1> QED
  BY <1>5, <1>6, <1>7, <1>8

(* A page added to the directory is guarded before it is cut. *)
LEMMA NewPageGuarded ==
    ASSUME CreamInv, NEW p \in Pages
    PROVE  table_guard_set(Kzalloced1(p)) \in Pages32 /\ Guarded(table_guard_set(Kzalloced1(p)))
<1> PICK g : g = Kzalloced1(p)
  OBVIOUS
<1>1. mem[p] \in [Header -> Bytes] /\ 0 \in Bytes /\ GUARD \in Bytes
  BY DEF CreamInv, TypeOK, Pages32, Bytes, Entries
<1>2. g \in [Header -> Bytes]
  BY <1>1, Layout DEF Kzalloced1
<1>3. table_guard_set(g) \in [Header -> Bytes]
  BY <1>1, <1>2 DEF table_guard_set
<1>4. Guarded(table_guard_set(g))
  BY DEF table_guard_set, Guarded
<1> QED
  BY <1>3, <1>4 DEF Pages32

(* A request no page of the directory can serve brings a new page, old bytes *)
(* and all.                                                                  *)
LEMMA NewPageKeepsInv ==
    ASSUME CreamInv, NEW s \in Sizes, MallocNewPage(s)
    PROVE  CreamInv'
<1> PICK p : p = FreePage
  OBVIOUS
<1> PICK h : h = table_guard_set(Kzalloced1(p))
  OBVIOUS
<1>1. /\ p # -1 /\ Visited # Dir
      /\ table' = Take(p) /\ streams' = streams
      /\ mothermary' = [mothermary EXCEPT ![Cardinality(Visited)] = p]
      /\ mem' = [mem EXCEPT ![p] = IF CanServe(h, s) THEN malloc_32(h, s) ELSE h]
      /\ chunks' = IF CanServe(h, s) THEN chunks \cup {NewChunk(p, h, s)} ELSE chunks
  BY DEF MallocNewPage
<1>2. /\ p \in Pages /\ p \notin Registered /\ p \notin streams
      /\ \A c \in chunks : c.page # p
  BY <1>1, FreePageFound
<1>3. /\ table' \in [Pages -> {FREE, SINGLE}]
      /\ mothermary' \in [Dir -> {NULL} \cup Pages]
      /\ Registered' = Registered \cup {p}
      /\ OneOwner'
  BY <1>1, DirectoryGrows
<1>4. h \in Pages32 /\ Guarded(h)
  BY <1>2, NewPageGuarded
<1>5. /\ mem' \in [Pages -> Pages32] /\ chunks' \subseteq Chunks
      /\ ChunksDisjoint' /\ ChunksMarked'
      /\ \A c \in chunks' : c \in chunks \/ c.page = p
      /\ Guarded(mem'[p])
      /\ \A q \in Pages : q # p => mem'[q] = mem[q]
  <2>1. CASE CanServe(h, s)
    <3>1. /\ mem' = [mem EXCEPT ![p] = malloc_32(h, s)]
          /\ chunks' = chunks \cup {NewChunk(p, h, s)}
      BY <1>1, <2>1
    <3> QED
      BY <1>2, <1>4, <2>1, <3>1, ChunkAdded
  <2>2. CASE ~ CanServe(h, s)
    <3>1. mem' = [mem EXCEPT ![p] = h] /\ chunks' = chunks
      BY <1>1, <2>2
    <3>2. /\ mem' \in [Pages -> Pages32] /\ mem'[p] = h
          /\ \A q \in Pages : q # p => mem'[q] = mem[q]
      BY <1>2, <1>4, <3>1 DEF CreamInv, TypeOK
    <3>3. ChunksDisjoint' /\ chunks' \subseteq Chunks
      BY <3>1 DEF CreamInv, TypeOK, ChunksDisjoint
    <3>4. ChunksMarked'
      BY <1>2, <3>1, <3>2 DEF CreamInv, TypeOK, Chunks, ChunksMarked
    <3> QED
      BY <1>4, <3>1, <3>2, <3>3, <3>4
  <2> QED
    BY <2>1, <2>2
<1>6. TypeOK'
  BY <1>1, <1>3, <1>5 DEF CreamInv, TypeOK
<1>7. ChunksBacked'
  <2>1. \A q \in Registered' : q \notin streams' /\ table'[q] = SINGLE
    BY <1>3 DEF OneOwner
  <2> QED
    BY <1>3, <1>5, <2>1 DEF CreamInv, ChunksBacked
<1>8. PagesGuarded'
  <2>1. \A q \in Registered : q \in Pages
    BY DEF CreamInv, TypeOK, Registered
  <2> QED
    BY <1>3, <1>5, <2>1 DEF CreamInv, PagesGuarded
<1> QED
  BY <1>3, <1>5, <1>6, <1>7, <1>8 DEF CreamInv

(* What a free does to the chunks callers hold: one stays, byte for byte, or  *)
(* the pointer was its own and success is reported.                           *)
LEMMA ChunkFreed ==
    ASSUME CreamInv, NEW ptr \in Pointers, NEW p \in Registered, ptr[1] = p,
           mem' = [mem EXCEPT ![p] = heap32_free(mem[p], ptr[2]).h],
           chunks' = {c \in chunks : StillHeld(c, mem')}
    PROVE  /\ p \in Pages /\ mem' \in [Pages -> Pages32]
           /\ Guarded(mem'[p])
           /\ \A q \in Pages : q # p => mem'[q] = mem[q]
           /\ \A c \in chunks :
                \/ /\ c \in chunks'
                   /\ \A k \in SlotsOf(c) : mem'[c.page][k] = mem[c.page][k]
                \/ /\ c \notin chunks' /\ ptr = PtrOf(c)
                   /\ heap32_free(mem[p], ptr[2]).ok = TRUE
<1> PICK f : f = heap32_free(mem[p], ptr[2])
  OBVIOUS
<1> PICK off : off = ptr[2]
  OBVIOUS
<1>1. off \in 0 .. (PageBytes - 1) /\ ptr = <<p, off>>
  BY DEF Pointers
<1>2. /\ mem \in [Pages -> Pages32] /\ p \in Pages /\ mem[p] \in Pages32 /\ Guarded(mem[p])
      /\ \A c \in chunks : c \in Chunks /\ c.page \in Pages /\ Marked(mem[c.page], c)
  BY DEF CreamInv, TypeOK, Registered, PagesGuarded, ChunksMarked, Chunks
<1>3. f.h \in Pages32 /\ Guarded(f.h)
  BY <1>1, <1>2, FreePageType
<1>4. /\ mem' \in [Pages -> Pages32] /\ mem'[p] = f.h
      /\ \A q \in Pages : q # p => mem'[q] = mem[q]
  BY <1>2, <1>3
<1>5. ASSUME NEW c \in chunks, \A k \in SlotsOf(c) : mem'[c.page][k] = mem[c.page][k]
      PROVE  c \in chunks'
  <2>1. c.slot \in SlotsOf(c) /\ mem[c.page][c.slot] # FREE
    BY <1>2, MarkedBytes
  <2> QED
    BY <1>5, <2>1 DEF StillHeld
<1>6. ASSUME NEW c \in chunks
      PROVE  \/ /\ c \in chunks'
                /\ \A k \in SlotsOf(c) : mem'[c.page][k] = mem[c.page][k]
             \/ c \notin chunks' /\ f.ok = TRUE /\ ptr = PtrOf(c)
  <2>1. CASE c.page # p
    BY <1>2, <1>4, <1>5, <2>1
  <2>2. CASE c.page = p
    <3>1. \/ /\ f.ok = TRUE /\ f.h[c.slot] = FREE
             /\ off = DATA_OFFSET_BYTES + c.slot * SlotBytes
          \/ \A k \in SlotsOf(c) : f.h[k] = mem[p][k]
      <4>1. /\ c \in Chunks /\ Marked(mem[p], c) /\ mem[p] \in Pages32
            /\ Guarded(mem[p]) /\ f = heap32_free(mem[p], off)
        BY <1>2, <2>2
      <4> DEFINE freed == heap32_free(mem[p], off)
      <4>2. \/ /\ freed.ok = TRUE /\ freed.h[c.slot] = FREE
                  /\ off = DATA_OFFSET_BYTES + c.slot * SlotBytes
               \/ \A k \in SlotsOf(c) : freed.h[k] = mem[p][k]
        BY <1>1, <4>1, FreeWholeChunk
      <4> QED
        BY <4>1, <4>2
    <3>2. CASE \A k \in SlotsOf(c) : f.h[k] = mem[p][k]
      BY <1>4, <1>5, <2>2, <3>2
    <3>3. CASE /\ f.ok = TRUE /\ f.h[c.slot] = FREE
               /\ off = DATA_OFFSET_BYTES + c.slot * SlotBytes
      <4>1. c \notin chunks'
        BY <1>4, <2>2, <3>3 DEF StillHeld
      <4>2. ptr = PtrOf(c)
        BY <1>1, <2>2, <3>3 DEF PtrOf
      <4> QED
        BY <3>3, <4>1, <4>2
    <3> QED
      BY <3>1, <3>2, <3>3
  <2> QED
    BY <2>1, <2>2
<1> QED
  BY <1>2, <1>3, <1>4, <1>6

(* heap_cream_free at a page of the directory: the chunk goes, and with the   *)
(* last one the page.                                                        *)
LEMMA FreeKeepsInv ==
    ASSUME CreamInv, NEW ptr \in Pointers, FreeFound(ptr)
    PROVE  CreamInv'
<1>1. PICK n \in Visited :
        LET p == mothermary[n]
            f == heap32_free(mem[p], ptr[2])
            kill == f.ok /\ Empty(f.h)
        IN  /\ ptr[1] = p
            /\ mem' = [mem EXCEPT ![p] = f.h]
            /\ table' = IF kill THEN Give(table, p) ELSE table
            /\ mothermary' = IF kill THEN [mothermary EXCEPT ![n] = NULL] ELSE mothermary
            /\ chunks' = {c \in chunks : StillHeld(c, mem')}
            /\ UNCHANGED streams
  BY DEF FreeFound
<1> PICK p : p = mothermary[n]
  OBVIOUS
<1> PICK f : f = heap32_free(mem[p], ptr[2])
  OBVIOUS
<1>2. n \in Dir /\ p # NULL
  <2>1. n \in Dir /\ n \in 0 .. n
    BY Layout DEF Visited, Dir
  <2> QED
    BY <2>1 DEF Visited
<1>3. p \in Registered
  BY <1>2 DEF Registered
<1>4. /\ p \in Pages /\ mem' \in [Pages -> Pages32]
      /\ mem'[p] = f.h /\ Guarded(mem'[p])
      /\ \A q \in Pages : q # p => mem'[q] = mem[q]
      /\ \A c \in chunks' : /\ c \in chunks
                            /\ \A k \in SlotsOf(c) : mem'[c.page][k] = mem[c.page][k]
  <2>1. /\ ptr[1] = p /\ mem' = [mem EXCEPT ![p] = heap32_free(mem[p], ptr[2]).h]
        /\ chunks' = {c \in chunks : StillHeld(c, mem')}
    BY <1>1
  <2>2. /\ p \in Pages /\ mem' \in [Pages -> Pages32] /\ Guarded(mem'[p])
        /\ \A q \in Pages : q # p => mem'[q] = mem[q]
        /\ \A c \in chunks :
              c \in chunks' => \A k \in SlotsOf(c) : mem'[c.page][k] = mem[c.page][k]
    BY <1>3, <2>1, ChunkFreed
  <2>3. mem'[p] = f.h
    BY <2>1, <2>2 DEF CreamInv, TypeOK
  <2> QED
    BY <2>1, <2>2, <2>3
<1>5. /\ table \in [Pages -> {FREE, SINGLE}] /\ mothermary \in [Dir -> {NULL} \cup Pages]
      /\ streams \subseteq Pages /\ chunks \subseteq Chunks
      /\ \A c \in chunks : c.page \in Pages
      /\ Registered \subseteq Pages
  BY DEF CreamInv, TypeOK, Chunks, Registered
<1>6. ChunksDisjoint' /\ chunks' \subseteq Chunks
  BY <1>4, <1>5 DEF CreamInv, ChunksDisjoint
<1>7. ChunksMarked'
  BY <1>4, <1>5, MarksStay DEF CreamInv, ChunksMarked
<1>8. streams' = streams
  BY <1>1
<1>9. CASE ~ (f.ok /\ Empty(f.h))
  <2>1. table' = table /\ mothermary' = mothermary
    BY <1>1, <1>9
  <2>2. Registered' = Registered
    BY <2>1 DEF Registered
  <2>3. TypeOK'
    BY <1>4, <1>5, <1>6, <1>8, <2>1 DEF TypeOK
  <2>4. OneOwner' /\ ChunksBacked'
    BY <1>4, <1>8, <2>1, <2>2 DEF CreamInv, OneOwner, ChunksBacked
  <2>5. PagesGuarded'
    BY <1>4, <1>5, <2>2 DEF CreamInv, PagesGuarded
  <2> QED
    BY <1>6, <1>7, <2>3, <2>4, <2>5 DEF CreamInv
<1>10. CASE f.ok /\ Empty(f.h)
  <2>1. table' = Give(table, p) /\ mothermary' = [mothermary EXCEPT ![n] = NULL]
    BY <1>1, <1>10
  <2>2. /\ table' \in [Pages -> {FREE, SINGLE}]
        /\ \A q \in Pages : q # p => table'[q] = table[q]
    BY <1>4, <1>5, <2>1 DEF Give
  <2>3. /\ mothermary' \in [Dir -> {NULL} \cup Pages]
        /\ \A m \in Dir : mothermary'[m] = IF m = n THEN NULL ELSE mothermary[m]
    BY <1>2, <1>5, <2>1
  <2>4. Registered' = Registered \ {p}
    <3>1. \A m \in Dir : m # n => mothermary[m] # p
      BY <1>2 DEF CreamInv, OneOwner
    <3> QED
      BY <1>2, <2>3, <3>1 DEF Registered
  <2>5. \A c \in chunks' : c.page # p
    <3> SUFFICES ASSUME NEW c \in chunks', c.page = p PROVE FALSE
      OBVIOUS
    <3>1. c.slot \in SlotSet
      BY <1>6 DEF Chunks
    <3>2. mem'[c.page][c.slot] = FREE
      BY <1>4, <1>10, <3>1 DEF Empty
    <3> QED
      BY <1>1, <3>2 DEF StillHeld
  <2>6. TypeOK'
    BY <1>4, <1>5, <1>6, <1>8, <2>2, <2>3 DEF TypeOK
  <2>7. OneOwner'
    <3>1. p \notin streams
      BY <1>3 DEF CreamInv, OneOwner
    <3>2. \A q \in Registered' \cup streams' : table'[q] = SINGLE
      BY <1>5, <1>8, <2>2, <2>4, <3>1 DEF CreamInv, OneOwner
    <3>3. Registered' \cap streams' = {}
      BY <1>8, <2>4 DEF CreamInv, OneOwner
    <3>4. \A a, b \in Dir : a # b /\ mothermary'[a] # NULL => mothermary'[a] # mothermary'[b]
      BY <2>3 DEF CreamInv, OneOwner
    <3> QED
      BY <3>2, <3>3, <3>4 DEF OneOwner
  <2>8. ChunksBacked'
    BY <1>4, <1>5, <1>8, <2>2, <2>4, <2>5 DEF CreamInv, ChunksBacked
  <2>9. PagesGuarded'
    BY <1>4, <1>5, <2>4 DEF CreamInv, PagesGuarded
  <2> QED
    BY <1>6, <1>7, <2>6, <2>7, <2>8, <2>9 DEF CreamInv
<1> QED
  BY <1>9, <1>10

(* The other users of the page heap write only to pages outside the          *)
(* directory.                                                                *)
LEMMA OutsideKeepsInv ==
    ASSUME CreamInv, UNCHANGED <<mothermary, chunks>>,
           table' \in [Pages -> {FREE, SINGLE}], streams' \subseteq Pages,
           mem' \in [Pages -> Pages32],
           \A q \in Registered : /\ mem'[q] = mem[q] /\ table'[q] = table[q]
                                 /\ q \notin streams',
           \A q \in streams' : table'[q] = SINGLE
    PROVE  CreamInv'
<1>1. Registered' = Registered
  BY DEF Registered
<1>2. TypeOK' /\ ChunksDisjoint'
  BY DEF CreamInv, TypeOK, ChunksDisjoint
<1>3. OneOwner' /\ ChunksBacked'
  BY <1>1 DEF CreamInv, OneOwner, ChunksBacked
<1>4. ChunksMarked' /\ PagesGuarded'
  BY <1>1 DEF CreamInv, ChunksBacked, ChunksMarked, PagesGuarded
<1> QED
  BY <1>2, <1>3, <1>4 DEF CreamInv

(* init_disk_stream, free_disk_stream and get_bytes_from_disk. *)
LEMMA StreamsKeepInv ==
    CreamInv /\ (init_disk_stream \/ free_disk_stream \/ get_bytes_from_disk) => CreamInv'
<1> SUFFICES ASSUME CreamInv, init_disk_stream \/ free_disk_stream \/ get_bytes_from_disk
             PROVE  CreamInv'
  OBVIOUS
<1>1. /\ table \in [Pages -> {FREE, SINGLE}] /\ streams \subseteq Pages
      /\ mem \in [Pages -> Pages32] /\ Registered \subseteq Pages
      /\ \A q \in streams : table[q] = SINGLE
      /\ \A q \in Registered : q \notin streams
  BY DEF CreamInv, TypeOK, Registered, OneOwner
<1>2. CASE init_disk_stream
  <2> PICK p : p = FreePage
    OBVIOUS
  <2>1. /\ p # -1 /\ table' = Take(p) /\ streams' = streams \cup {p}
        /\ mem' = [mem EXCEPT ![p] = [@ EXCEPT ![0] = 0, ![1] = JUNK]]
        /\ UNCHANGED <<mothermary, chunks>>
    BY <1>2 DEF init_disk_stream
  <2>2. p \in Pages /\ p \notin Registered
    BY <2>1, FreePageFound
  <2>3. /\ table' \in [Pages -> {FREE, SINGLE}] /\ table'[p] = SINGLE
        /\ \A q \in Pages : q # p => table'[q] = table[q]
    BY <1>1, <2>1, <2>2 DEF Take
  <2>4. /\ mem' \in [Pages -> Pages32]
        /\ \A q \in Pages : q # p => mem'[q] = mem[q]
    <3> DEFINE g == [mem[p] EXCEPT ![0] = 0, ![1] = JUNK]
    <3>1. g \in Pages32
      BY <1>1, <2>2, Layout DEF Pages32, Bytes, Entries
    <3>2. mem' = [mem EXCEPT ![p] = g]
      BY <2>1
    <3> HIDE DEF g
    <3> QED
      BY <1>1, <2>2, <3>1, <3>2
  <2> QED
    BY <1>1, <2>1, <2>2, <2>3, <2>4, OutsideKeepsInv
<1>3. CASE free_disk_stream
  <2>1. PICK p \in streams : /\ table' = Give(table, p) /\ streams' = streams \ {p}
                             /\ UNCHANGED <<mem, mothermary, chunks>>
    BY <1>3 DEF free_disk_stream
  <2>2. /\ table' \in [Pages -> {FREE, SINGLE}]
        /\ \A q \in Pages : q # p => table'[q] = table[q]
    BY <1>1, <2>1 DEF Give
  <2> QED
    BY <1>1, <2>1, <2>2, OutsideKeepsInv
<1>4. CASE get_bytes_from_disk
  <2> PICK p : p = FreePage
    OBVIOUS
  <2>1. p # -1 /\ UNCHANGED <<table, mothermary, streams, chunks>>
    BY <1>4 DEF get_bytes_from_disk
  <2>2. PICK d \in SectorData \cup {Zeroed} : mem' = [mem EXCEPT ![p] = d]
    BY <1>4 DEF get_bytes_from_disk
  <2>3. Zeroed \in Pages32
    BY DEF Zeroed, Pages32, Bytes, Entries
  <2>4. d \in Pages32
    BY <2>3, SectorDataAssumption
  <2>5. p \in Pages /\ p \notin Registered
    BY <2>1, FreePageFound
  <2>6. mem' \in [Pages -> Pages32] /\ \A q \in Pages : q # p => mem'[q] = mem[q]
    BY <1>1, <2>2, <2>4, <2>5
  <2> QED
    BY <1>1, <2>1, <2>5, <2>6, OutsideKeepsInv
<1> QED
  BY <1>2, <1>3, <1>4

(* Calls that fail change nothing but the report. *)
LEMMA UnchangedKeepsInv ==
    CreamInv /\ UNCHANGED <<table, mem, mothermary, streams, chunks>> => CreamInv'
  BY DEF CreamInv, TypeOK, ChunksDisjoint, ChunksBacked, OneOwner, ChunksMarked,
         PagesGuarded, Registered

-----------------------------------------------------------------------------
(* The invariant holds in every behaviour of the allocator and its           *)
(* neighbours on the page heap.                                              *)
THEOREM CreamInvariant == Spec => []CreamInv
<1>1. Init => CreamInv
  <2> SUFFICES ASSUME Init PROVE CreamInv
    OBVIOUS
  <2>1. Zeroed \in Pages32
    BY DEF Zeroed, Pages32, Bytes, Entries
  <2>2. TypeOK
    BY <2>1 DEF Init, TypeOK
  <2>3. Registered = {} /\ streams = {} /\ chunks = {}
    BY DEF Init, Registered
  <2>4. \A n \in Dir : mothermary[n] = NULL
    BY DEF Init
  <2> QED
    BY <2>2, <2>3, <2>4 DEF CreamInv, ChunksDisjoint, ChunksBacked, OneOwner, ChunksMarked,
                            PagesGuarded
<1>2. CreamInv /\ [Next]_vars => CreamInv'
  <2> SUFFICES ASSUME CreamInv, [Next]_vars PROVE CreamInv'
    OBVIOUS
  <2>1. CASE UNCHANGED vars
    BY <2>1, UnchangedKeepsInv DEF vars
  <2>2. CASE \E s \in Sizes : heap_cream_malloc(s)
    <3> PICK s \in Sizes : heap_cream_malloc(s)
      BY <2>2
    <3>1. CASE MallocTooBig(s) \/ MallocDirFull(s) \/ MallocNoPage(s)
      BY <3>1, UnchangedKeepsInv DEF MallocTooBig, MallocDirFull, MallocNoPage
    <3> QED
      BY <3>1, FromDirKeepsInv, NewPageKeepsInv DEF heap_cream_malloc
  <2>3. CASE \E ptr \in Pointers : heap_cream_free(ptr)
    <3> PICK ptr \in Pointers : heap_cream_free(ptr)
      BY <2>3
    <3>1. CASE FreeNotFound(ptr)
      BY <3>1, UnchangedKeepsInv DEF FreeNotFound
    <3> QED
      BY <3>1, FreeKeepsInv DEF heap_cream_free
  <2> QED
    BY <2>1, <2>2, <2>3, StreamsKeepInv DEF Next
<1> QED
  BY <1>1, <1>2, PTL DEF Spec

(* The page heap's table, the slab headers and the directory keep their      *)
(* types under any sequence of calls.                                        *)
THEOREM CreamTyping == Spec => []TypeOK
<1>1. CreamInv => TypeOK
  BY DEF CreamInv
<1> QED
  BY <1>1, CreamInvariant, PTL

(* heap_cream_malloc never hands out a slot twice, whatever bytes a page came *)
(* back with and whatever pointers callers pass to heap_cream_free.           *)
THEOREM ChunksAreDisjoint == Spec => []ChunksDisjoint
<1>1. CreamInv => ChunksDisjoint
  BY DEF CreamInv
<1> QED
  BY <1>1, CreamInvariant, PTL

(* heap_cream_kill never gives back a page with a chunk on it, and no stream  *)
(* writes to one.                                                             *)
THEOREM ChunksAreBacked == Spec => []ChunksBacked
<1>1. CreamInv => ChunksBacked
  BY DEF CreamInv
<1> QED
  BY <1>1, CreamInvariant, PTL

(* A page of the heap is in one directory entry or in one stream. *)
THEOREM PagesHaveOneOwner == Spec => []OneOwner
<1>1. CreamInv => OneOwner
  BY DEF CreamInv
<1> QED
  BY <1>1, CreamInvariant, PTL

(* A caller loses a chunk only by freeing it: the free reports success, was   *)
(* given that chunk's pointer, and no other chunk goes with it.               *)
THEOREM FreesAreExact == Spec => FreeExact
<1> DEFINE Exact == \A c \in chunks : c \notin chunks' => /\ last'.op = "free"
                                                          /\ last'.ok
                                                          /\ last'.arg = PtrOf(c)
                                                          /\ chunks' = chunks \ {c}
<1>1. CreamInv /\ [Next]_vars => [Exact]_vars
  <2> SUFFICES ASSUME CreamInv, Next, NEW c \in chunks, c \notin chunks'
               PROVE  /\ last'.op = "free" /\ last'.ok
                      /\ last'.arg = PtrOf(c) /\ chunks' = chunks \ {c}
    OBVIOUS
  <2>1. PICK ptr \in Pointers : FreeFound(ptr)
    BY DEF Next, heap_cream_malloc, heap_cream_free, MallocTooBig, MallocFromDir, MallocDirFull,
           MallocNoPage, MallocNewPage, FreeNotFound, init_disk_stream, free_disk_stream,
           get_bytes_from_disk
  <2>2. PICK n \in Visited :
          LET p == mothermary[n]
              f == heap32_free(mem[p], ptr[2])
          IN  /\ ptr[1] = p
              /\ mem' = [mem EXCEPT ![p] = f.h]
              /\ chunks' = {d \in chunks : StillHeld(d, mem')}
              /\ last' = [op |-> "free", arg |-> ptr, ok |-> f.ok]
    BY <2>1 DEF FreeFound, Call
  <2> PICK p : p = mothermary[n]
    OBVIOUS
  <2> PICK f : f = heap32_free(mem[p], ptr[2])
    OBVIOUS
  <2>3. p \in Registered
    <3>1. n \in Dir /\ n \in 0 .. n
      BY Layout DEF Visited, Dir
    <3> QED
      BY <3>1 DEF Visited, Registered
  <2>4. \A d \in chunks : d \in chunks' \/ (f.ok = TRUE /\ ptr = PtrOf(d))
    <3>1. /\ ptr[1] = p /\ mem' = [mem EXCEPT ![p] = heap32_free(mem[p], ptr[2]).h]
          /\ chunks' = {d \in chunks : StillHeld(d, mem')}
      BY <2>2
    <3> QED
      BY <2>3, <3>1, ChunkFreed
  <2>5. f.ok = TRUE /\ ptr = PtrOf(c)
    BY <2>4
  <2>6. ASSUME NEW d \in chunks, d # c PROVE d \in chunks'
    <3> SUFFICES ASSUME ptr = PtrOf(d) PROVE FALSE
      BY <2>4
    <3>1. c \in Chunks /\ d \in Chunks /\ Marked(mem[c.page], c) /\ Marked(mem[d.page], d)
      BY DEF CreamInv, TypeOK, ChunksMarked
    <3>2. /\ c.slot \in Nat /\ d.slot \in Nat
          /\ c.slot \in SlotsOf(c) /\ d.slot \in SlotsOf(d)
      BY <3>1, MarkedBytes
    <3>3. /\ c.page = d.page
          /\ DATA_OFFSET_BYTES + c.slot * SlotBytes = DATA_OFFSET_BYTES + d.slot * SlotBytes
      BY <2>5 DEF PtrOf
    <3>4. c.slot * SlotBytes = d.slot * SlotBytes
      BY <3>2, <3>3, Layout
    <3>5. c.slot = d.slot
      <4>1. c.slot < d.slot => c.slot * SlotBytes < d.slot * SlotBytes
        BY <3>2, Layout
      <4>2. d.slot < c.slot => d.slot * SlotBytes < c.slot * SlotBytes
        BY <3>2, Layout
      <4>3. c.slot * SlotBytes \in Nat
        BY <3>2, Layout
      <4> QED
        BY <3>2, <3>4, <4>1, <4>2, <4>3
    <3> QED
      BY <2>6, <3>2, <3>3, <3>5 DEF CreamInv, ChunksDisjoint
  <2>7. chunks' = chunks \ {c}
    BY <2>2, <2>6
  <2>8. last'.op = "free" /\ last'.arg = ptr /\ last'.ok = f.ok
    BY <2>2
  <2> QED
    BY <2>5, <2>7, <2>8
<1>2. Spec => [][Exact]_vars
  BY <1>1, CreamInvariant, PTL DEF Spec
<1> QED
  BY <1>2 DEF FreeExact
=============================================================================

----------------------------- MODULE BlockTable ------------------------------
(***************************************************************************)
(* The block table both allocators keep: a function from block numbers to  *)
(* one-byte entries.  heap.c keeps one for the page heap, heap32.c one in  *)
(* the first 124 bytes of every slab page, with the same entry values.     *)
(***************************************************************************)
EXTENDS Integers

(* heap.h: HEAP_TABLE_BLOCK_*; heap32.h: BLOCK_* *)
FREE   == 0     \* 0x00
SINGLE == 65    \* 0x41
START  == 193   \* 0xc1
MID    == 129   \* 0x81
END    == 1     \* 0x01

Entries == {FREE, SINGLE, START, MID, END}

(* Mutant: the inner loop counts entries without looking at them. *)
RunsUnchecked(t, n) ==
    {i \in DOMAIN t : t[i] = FREE /\ i + n - 1 \in DOMAIN t}

(* The blocks at which n consecutive free entries begin. *)
Runs(t, n) ==
    {i \in DOMAIN t : \A k \in i .. (i + n - 1) : k \in DOMAIN t /\ t[k] = FREE}

(* The first fit, -1 when there is none.  A request for zero blocks is never *)
(* satisfied: both search loops count an entry before they compare.          *)
FirstFit(t, n) ==
    IF n = 0 \/ Runs(t, n) = {}
    THEN -1
    ELSE CHOOSE i \in Runs(t, n) : \A j \in Runs(t, n) : i <= j

(* Mutant: HEAP_BLOCK_HAS_NEXT (0x80) written for a middle block. *)
MarkRunWrongMid(t, i, n) ==
    [k \in DOMAIN t |->
        CASE k < i \/ k >= i + n        -> t[k]
          [] k = i                      -> IF n = 1 THEN SINGLE ELSE START
          [] k > i /\ k < i + n - 1     -> 128
          [] k > i /\ k = i + n - 1     -> END]

(* Mutant: the middle loop runs over the last block too, after its END. *)
MarkRunNoEnd(t, i, n) ==
    [k \in DOMAIN t |->
        CASE k < i \/ k >= i + n        -> t[k]
          [] k = i                      -> IF n = 1 THEN SINGLE ELSE START
          [] k > i /\ k < i + n         -> MID]

(* A run marked as taken: SINGLE, or START MID* END. *)
MarkRun(t, i, n) ==
    [k \in DOMAIN t |->
        CASE k < i \/ k >= i + n        -> t[k]
          [] k = i /\ n = 1             -> SINGLE
          [] k = i /\ n > 1             -> START
          [] k > i /\ k < i + n - 1     -> MID
          [] k > i /\ k = i + n - 1     -> END]

(* Mutant: the loop stops at END and leaves it. *)
ClearBeforeEnd(t, i) ==
    [k \in DOMAIN t |-> IF k >= i /\ \A j \in i .. k : t[j] # END
                        THEN FREE ELSE t[k]]

(* The entries from i up to and including the first END, cleared: entry k is *)
(* cleared when no END lies before it.                                       *)
ClearThroughEnd(t, i) ==
    [k \in DOMAIN t |-> IF k >= i /\ \A j \in i .. (k - 1) : t[j] # END
                        THEN FREE ELSE t[k]]
=============================================================================

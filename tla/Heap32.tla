------------------------------- MODULE Heap32 --------------------------------
(***************************************************************************)
(* heap32.c: a page cut into SlotBytes-byte slots, described by a table in *)
(* its first bytes.  One byte per slot, then guard bytes, then the slots.  *)
(* A page is represented by those header bytes alone.  Operators only: the *)
(* pages live in HeapCream.                                                *)
(***************************************************************************)
EXTENDS BlockTable

CONSTANTS Slots,        \* 124 slots of a page
          GuardBytes,   \* 4 guard bytes after the table
          SlotBytes     \* SIZE_OF_BLOCK_BYTE, 32

ASSUME SlotsAssumption == Slots \in Nat \ {0}
ASSUME GuardBytesAssumption == GuardBytes \in Nat \ {0}
ASSUME SlotBytesAssumption == SlotBytes \in Nat \ {0}

GUARD == 171            \* 0xab
JUNK  == 255            \* any byte that is no table value

Bytes == Entries \cup {GUARD, JUNK}

DATA_OFFSET_BYTES == Slots + GuardBytes
TOTAL_BYTES_AVAIL == Slots * SlotBytes
PageBytes         == DATA_OFFSET_BYTES + TOTAL_BYTES_AVAIL

SlotSet == 0 .. (Slots - 1)
Header  == 0 .. (DATA_OFFSET_BYTES - 1)

Pages32 == [Header -> Bytes]

table_guard_set(h) == [k \in Header |-> IF k >= Slots THEN GUARD ELSE h[k]]

(* Mutant: only the first slot of a run is looked at. *)
GetIndexUnchecked(h, no_blocks) ==
    LET heads == {k \in SlotSet : h[k] = FREE /\ k + no_blocks <= Slots}
    IN  IF heads = {} \/ no_blocks = 0
        THEN -1 ELSE CHOOSE k \in heads : \A j \in heads : k <= j

(* get_index: FirstFitScan shows that its loop computes this. *)
get_index(h, no_blocks) == FirstFit([k \in SlotSet |-> h[k]], no_blocks)

set_table_val(h, index, no_blocks) == MarkRun(h, index, no_blocks)

NoBlocks(size) == (size + SlotBytes - 1) \div SlotBytes

(* Can malloc_32 serve size bytes from this page, and what does it leave. *)
CanServe(h, size) == get_index(h, NoBlocks(size)) # -1

malloc_32(h, size) == set_table_val(h, get_index(h, NoBlocks(size)), NoBlocks(size))

-----------------------------------------------------------------------------
(* heap32_free.  The offsets it turns away before it reads the table. *)
BadOffset(off) ==
    \/ off < DATA_OFFSET_BYTES
    \/ (off - DATA_OFFSET_BYTES) % SlotBytes # 0

(* Mutant: the header is not subtracted. *)
SlotOfWithHeader(off) == (off \div SlotBytes) % Slots

SlotOf(off) == (off - DATA_OFFSET_BYTES) \div SlotBytes

(* From a START slot: the first byte after it that is not MID; the guard     *)
(* bytes stop the walk.                                                      *)
TailOf(h, i) ==
    CHOOSE k \in Header : /\ k > i /\ h[k] # MID
                          /\ \A j \in (i + 1) .. (k - 1) : h[j] = MID

Cleared(h, S) == [k \in Header |-> IF k \in S THEN FREE ELSE h[k]]

(* The walk clears as it goes: when it meets anything but MID before the END *)
(* it gives up with the head and the middle already cleared.                 *)
heap32_free(h, off) ==
    LET i == SlotOf(off)
        Fail == [ok |-> FALSE, h |-> h]
    IN  CASE BadOffset(off) -> Fail
          [] ~ BadOffset(off) /\ h[i] = SINGLE ->
                [ok |-> TRUE, h |-> Cleared(h, {i})]
          [] ~ BadOffset(off) /\ h[i] = START ->
                LET e == TailOf(h, i)
                IN  IF h[e] = END
                    THEN [ok |-> TRUE,  h |-> Cleared(h, i .. e)]
                    ELSE [ok |-> FALSE, h |-> Cleared(h, i .. (e - 1))]
          [] ~ BadOffset(off) /\ h[i] \notin {SINGLE, START} -> Fail
=============================================================================

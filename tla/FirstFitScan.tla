----------------------------- MODULE FirstFitScan ----------------------------
(***************************************************************************)
(* heap_get_start_block (heap.c) and get_index (heap32.c) loop by loop: an *)
(* outer loop over entries and an inner one that extends a run, sharing an *)
(* index that both advance.  KHeap and Heap32 take the result as one step; *)
(* this module shows that it is the first fit of the table.                *)
(*                                                                         *)
(* heap.c counts up to block_count; heap32.c counts a signed target down   *)
(* to 0, which is block_count - count here.  The two differ in the test of *)
(* the inner loop, and so for a request of no blocks.                      *)
(***************************************************************************)
EXTENDS BlockTable

CONSTANTS TableSize,    \* heap_table.total, or 124 for a slab page
          MaxRequest    \* the largest block_count tried

ASSUME TableSizeAssumption == TableSize \in Nat
ASSUME MaxRequestAssumption == MaxRequest \in Nat

VARIABLES fn,                       \* the function called
          entries, block_count,     \* its arguments
          i, rtn_val, count, pc     \* its locals

scanVars == <<fn, entries, block_count, i, rtn_val, count, pc>>

Slots == 0 .. (TableSize - 1)

Functions == {"heap_get_start_block", "get_index"}

ScanInit ==
    /\ fn \in Functions
    /\ entries \in [Slots -> Entries]
    /\ block_count \in 0 .. MaxRequest
    /\ i = 0
    /\ rtn_val = -1                 \* NULL
    /\ count = 0
    /\ pc = "for"

(* The for over entries: a taken entry is passed over, a free one begins a run. *)
ForTaken ==
    /\ pc = "for" /\ i < TableSize /\ entries[i] # FREE
    /\ i' = i + 1
    /\ UNCHANGED <<fn, entries, block_count, rtn_val, count, pc>>

ForFree ==
    /\ pc = "for" /\ i < TableSize /\ entries[i] = FREE
    /\ rtn_val' = i
    /\ count' = count + 1
    /\ i' = i + 1
    /\ pc' = "while"
    /\ UNCHANGED <<fn, entries, block_count>>

(* The inner loops go on while more is wanted and the next entry is free. *)
WantsMore == IF fn = "get_index" THEN count # block_count ELSE count < block_count

Extends == WantsMore /\ i < TableSize /\ entries[i] = FREE

While ==
    /\ pc = "while" /\ Extends
    /\ count' = count + 1
    /\ i' = i + 1
    /\ UNCHANGED <<fn, entries, block_count, rtn_val, pc>>

(* The run is long enough. *)
Found ==
    /\ pc = "while" /\ ~ Extends /\ count = block_count
    /\ pc' = "done"
    /\ UNCHANGED <<fn, entries, block_count, i, rtn_val, count>>

(* Mutant: count is not reset. *)
RestartKeepCount ==
    /\ pc = "while" /\ ~ Extends /\ count # block_count
    /\ rtn_val' = -1
    /\ i' = i + 1
    /\ pc' = "for"
    /\ UNCHANGED <<fn, entries, block_count, count>>

(* Mutant: the search goes back to where the run began. *)
RestartAtRun ==
    /\ pc = "while" /\ ~ Extends /\ count # block_count
    /\ i' = rtn_val
    /\ rtn_val' = -1
    /\ count' = 0
    /\ pc' = "for"
    /\ UNCHANGED <<fn, entries, block_count>>

(* rtn_val = NULL; count = 0; then the for's own i++, past the entry that    *)
(* stopped the while.                                                        *)
Restart ==
    /\ pc = "while" /\ ~ Extends /\ count # block_count
    /\ rtn_val' = -1
    /\ count' = 0
    /\ i' = i + 1
    /\ pc' = "for"
    /\ UNCHANGED <<fn, entries, block_count>>

ForExit ==
    /\ pc = "for" /\ i >= TableSize
    /\ pc' = "done"
    /\ UNCHANGED <<fn, entries, block_count, i, rtn_val, count>>

ScanNext == ForTaken \/ ForFree \/ While \/ Found \/ Restart \/ ForExit

ScanSpec == ScanInit /\ [][ScanNext]_scanVars /\ WF_scanVars(ScanNext)

-----------------------------------------------------------------------------
(* PROPERTIES *)

(* The locals stay in range: i may pass max by the one entry Restart skips.  *)
ScanTypes ==
    /\ fn \in Functions
    /\ entries \in [Slots -> Entries]
    /\ block_count \in 0 .. MaxRequest
    /\ i \in 0 .. (TableSize + 1)
    /\ rtn_val \in {-1} \cup Slots
    /\ count \in 0 .. TableSize
    /\ pc \in {"for", "while", "done"}

(* Both functions return the first run of block_count free entries, and NULL *)
(* (-1) exactly when there is none or none is asked for, although the loops  *)
(* share an index and skip an entry at each restart.                         *)
FindsFirstFit == pc = "done" => rtn_val = FirstFit(entries, block_count)

(* The search ends for every table and every request, zero included. *)
Terminates == <>(pc = "done")
=============================================================================

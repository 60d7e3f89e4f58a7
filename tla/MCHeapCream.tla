----------------------------- MODULE MCHeapCream -----------------------------
(* Three pages of three two-byte slots behind a four-byte header. *)
EXTENDS HeapCream

NoSectors == {}

(* What old sectors look like to heap32.c: nothing it knows, a run of middle *)
(* bytes behind a START, and a free-looking byte between taken ones.         *)
OldSectors ==
    { [k \in Header |-> JUNK],
      [k \in Header |-> IF k = 1 THEN START ELSE MID],
      [k \in Header |-> IF k = 1 THEN FREE ELSE END] }
=============================================================================

---------------------------- MODULE MCPartitions -----------------------------
(* Partitions with tables of two entries over an 8-valued word. *)
EXTENDS Partitions

E(t, b, s, n) == [type |-> t, boot |-> b, start |-> s, num |-> n]

MCTableEntries ==
    { E(0, FALSE, 0, 0),        \* empty
      E(6, TRUE, 0, 2),         \* fills a disk of two sectors
      E(0, FALSE, 1, 1),        \* a count without a type
      E(5, FALSE, 1, 2),        \* ends one sector after a disk of two
      E(12, FALSE, 7, 1) }      \* its sum wraps

(* Bytes that are no boot sector, and a boot sector of an earlier boot. *)
MCOldSectors ==
    { [sig |-> FALSE, table |-> [k \in 1 .. EntryCount |-> E(0, FALSE, 0, 0)], vbr |-> 14],
      [sig |-> TRUE, table |-> [k \in 1 .. EntryCount |-> E(6, TRUE, 0, 2)], vbr |-> 14] }
=============================================================================

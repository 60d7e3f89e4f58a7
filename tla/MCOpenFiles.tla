----------------------------- MODULE MCOpenFiles -----------------------------
(* The chunks are interchangeable: no definition of OpenFiles tells one from *)
(* another, and its CHOOSE picks the only entry that has no next one.        *)
EXTENDS OpenFiles, TLC

Interchangeable == Permutations(Addrs)
==============================================================================

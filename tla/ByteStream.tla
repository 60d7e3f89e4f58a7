----------------------------- MODULE ByteStream ------------------------------
(***************************************************************************)
(* What a disk stream promises its caller, with no sectors, no buffer and  *)
(* no driver: the bytes from the position on, in order, each as it is on   *)
(* the disk, none twice and none left out, and all that were asked for     *)
(* unless the device reports a fault.  Three things end the promise.       *)
(* After a fault the caller keeps the bytes it got, and is not told.  So   *)
(* it may be with a request for more than Limit bytes.  A device that owes *)
(* the answer to an earlier request may give that one instead.             *)
(* DiskStream (disk_stream.c over disk.c) implements it.                   *)
(***************************************************************************)
EXTENDS Integers, Sequences

CONSTANTS Starts, Amounts,  \* positions and byte counts of requests
          Limit             \* a request for more bytes may stop short

VARIABLES content,      \* the bytes of the disk, by position
          phase,        \* "idle", "open" or "spoilt"
          from, amount, \* the request
          got,          \* the bytes delivered to it
          fault, owed   \* the device: it reports a fault; it owes an answer

bvars == <<content, phase, from, amount, got, fault, owed>>

(* Between requests the caller may move the position and forget the bytes.   *)
Between == phase = "idle" /\ UNCHANGED phase

(* The device's own affairs; the disk does not change under a reader that    *)
(* has some of its bytes.                                                    *)
Device ==
    /\ content' = content \/ got = <<>> \/ phase # "open"
    /\ UNCHANGED <<phase, from, amount, got>>

Ask ==
    /\ phase = "idle" /\ phase' = "open"
    /\ from' \in Starts /\ amount' \in Amounts
    /\ got' = <<>>
    /\ UNCHANGED content

(* The next m bytes. *)
Deliver ==
    /\ phase = "open"
    /\ \E m \in 1 .. (amount - Len(got)) :
          /\ from + Len(got) + m - 1 \in DOMAIN content
          /\ got' = got \o [j \in 1 .. m |-> content[from + Len(got) + j - 1]]
    /\ UNCHANGED <<content, phase, from, amount>>

Complete ==
    /\ phase = "open" /\ Len(got) = amount
    /\ phase' = "idle"
    /\ UNCHANGED <<content, from, amount, got>>

GiveUp ==
    /\ phase = "open" /\ (fault \/ amount > Limit)
    /\ phase' = "idle"
    /\ UNCHANGED <<content, from, amount, got>>

Spoil ==
    /\ phase = "open" /\ owed
    /\ phase' = "spoilt" /\ got' = <<>>
    /\ UNCHANGED <<content, from, amount>>

Forget ==
    /\ phase = "spoilt" /\ phase' = "idle"
    /\ UNCHANGED <<content, from, amount, got>>

Init == phase = "idle" /\ got = <<>>

Next == Between \/ Device \/ Ask \/ Deliver \/ Complete \/ GiveUp \/ Spoil \/ Forget

Spec == Init /\ [][Next]_bvars
=============================================================================

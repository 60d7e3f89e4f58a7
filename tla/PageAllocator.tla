---------------------------- MODULE PageAllocator ----------------------------
(***************************************************************************)
(* What a page allocator promises its callers, with no table and no search *)
(* order: a request is answered with a region of whole blocks that is large *)
(* enough and shares no block with a region still held, or with NULL when  *)
(* there is no such region; freeing a pointer into the first block of a    *)
(* region gives back that region and no other, and freeing any other       *)
(* pointer changes nothing.  KHeap (kernel/heap/heap.c) implements it.     *)
(***************************************************************************)
EXTENDS Integers

CONSTANTS Total,        \* number of blocks
          BlockSize,    \* bytes of a block
          WordSize,     \* 2^w for a machine word of w bits
          HeapStart,    \* address of block 0
          Sizes         \* the request sizes considered

VARIABLES live,         \* the regions held by callers
          req,          \* the request last answered, -1 after a free
          ret           \* the last answer to a request: an address or NULL

NULL == 0

Blocks == 0 .. (Total - 1)

AddrOf(i) == HeapStart + i * BlockSize

Pointers == HeapStart .. (HeapStart + Total * BlockSize - 1)

(* A region: its first block, its length in blocks and the bytes asked for. *)
Regions == [first : Blocks, len : 1 .. Total, size : Sizes]

Cells(a) == a.first .. (a.first + a.len - 1)

Disjoint(a, b) == Cells(a) \cap Cells(b) = {}

(* The regions that could answer a request of s bytes: inside the heap,     *)
(* long enough, not longer than needed, and clear of what is held.          *)
Candidates(s) ==
    {a \in Regions : /\ a.size = s
                     /\ a.first + a.len <= Total
                     /\ a.len * BlockSize >= s
                     /\ (a.len - 1) * BlockSize < s
                     /\ \A b \in live : Disjoint(a, b)}

Init == live = {} /\ req = -1 /\ ret = NULL

(* A request that cannot be rounded up to a block in one word is refused,   *)
(* as is one of zero bytes.                                                 *)
Representable(s) == s > 0 /\ s + BlockSize - 1 < WordSize

Malloc(s) ==
    /\ req' = s
    /\ \/ \E a \in Candidates(s) : /\ Representable(s)
                                   /\ live' = live \cup {a}
                                   /\ ret' = AddrOf(a.first)
       \/ /\ Representable(s) => Candidates(s) = {}
          /\ ret' = NULL
          /\ UNCHANGED live

Holds(a, p) == AddrOf(a.first) <= p /\ p < AddrOf(a.first) + BlockSize

Free(p) ==
    /\ live' = {a \in live : ~ Holds(a, p)}
    /\ req' = -1
    /\ UNCHANGED ret

Next ==
    \/ \E s \in Sizes : Malloc(s)
    \/ \E p \in Pointers : Free(p)

Spec == Init /\ [][Next]_<<live, req, ret>>
=============================================================================

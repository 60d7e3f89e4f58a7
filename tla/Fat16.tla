-------------------------------- MODULE Fat16 --------------------------------
(***************************************************************************)
(* Reading and writing files of a mounted FAT16 partition (fat16.c):       *)
(* read_fat16, write_fat16 and get_free_cluster, one disk access per step, *)
(* with a power failure possible between any two.  Callers bring their own *)
(* struct file, so every call starts at an offset of the caller's choice.  *)
(*                                                                         *)
(* Every call of get_free_cluster in the source passes a cur_cluster that  *)
(* is no cluster (lines 413, 446 and 947), so its branches that link the   *)
(* new cluster to another are never taken and are not here.  Disk accesses *)
(* succeed (Disk shows when that is so), and a sector is 512 bytes for the *)
(* disk too.  The table has entries beyond the last cluster, as it fills   *)
(* its sectors; the sectors they would stand for lie behind the partition. *)
(***************************************************************************)
EXTENDS Integers, Sequences, FiniteSetsExt

CONSTANTS Files,            \* the vfs_nodes of the mount
          FatEntries,       \* entries of one copy of the table
          LastCluster,      \* the last cluster that is in the partition
          FatCount,         \* bpb->fat_count
          SectPerClust,     \* bpb->sect_per_clust
          SectBytes,        \* bpb->bytes_per_sect
          Offsets,          \* file offsets callers use
          Lens,             \* sizes callers ask for
          Seeds,            \* distinguish the contents of callers' buffers
          MaxCalls          \* bound: calls in a behaviour

ASSUME FatAssumption == FatEntries \in Nat /\ FatCount \in Nat \ {0}
ASSUME LastClusterAssumption == LastCluster \in 2 .. (FatEntries - 1)
ASSUME ClusterAssumption == SectPerClust \in Nat \ {0} /\ SectBytes \in Nat \ {0}
ASSUME CallAssumption ==
    /\ Offsets \subseteq Nat /\ Offsets # {} /\ IsFiniteSet(Offsets)
    /\ Lens \subseteq Nat \ {0} /\ Lens # {} /\ IsFiniteSet(Lens)
    /\ Seeds \subseteq Nat
ASSUME FilesAssumption == Files # {} /\ IsFiniteSet(Files)

EOC  == 65535               \* 0xffff
NONE == 0 - 1               \* a byte the file never had

Entries      == 0 .. (FatEntries - 1)
Clusters     == 2 .. (FatEntries - 1)
Volume       == 2 .. LastCluster
Copies       == 0 .. (FatCount - 1)
ClusterBytes == SectPerClust * SectBytes
Bytes        == 0 .. 3      \* 0: the bytes there were before
Positions    == 0 .. (Max(Offsets) + Max(Lens) - 1)

(* cur_cluster >= 0xfff8 || cur_cluster < 2: no cluster. *)
NoCluster(c) == c >= 65528 \/ c < 2

VARIABLES fat,              \* the copies of the table, on disk
          data,             \* the clusters, on disk
          dirent,           \* first clusters in the directory, on disk
          first,            \* vfs_node.fs_specific
          size,             \* vfs_node.size
          call, pc,         \* the call under way and where it is
          calls,            \* how many calls were made
          content,          \* history: what each file should hold
          crashed           \* history: the power has failed (bound: once)

vars == <<fat, data, dirent, first, size, call, pc, calls, content, crashed>>
disk == <<fat, data, dirent>>

NoCall == [op |-> "none", f |-> CHOOSE f \in Files : TRUE, pos |-> 0, n |-> 0,
           seed |-> 0, done |-> 0, hops |-> 0, offin |-> 0, cur |-> 0,
           head |-> FALSE, q |-> 0, got |-> <<>>]

(* Byte i of the caller's buffer. *)
BufferByte(i) == 1 + ((call.seed + i) % 3)

(* The k-th cluster of the chain that begins at start in table t. *)
Walk(t, start, k) ==
    LET walk[i \in Nat] ==
            IF i = 0 THEN start
            ELSE IF NoCluster(walk[i - 1]) THEN EOC ELSE t[walk[i - 1]]
    IN  walk[k]

At(start, k) == Walk(fat[0], start, k)

OnChain(start, pos) == ~ NoCluster(At(start, pos \div ClusterBytes))

-----------------------------------------------------------------------------
(* Both calls: how far to hop along the table, and where in the cluster. *)
Begin(op, f, o, n, s) ==
    /\ pc = "idle" /\ calls < MaxCalls
    /\ call' = [NoCall EXCEPT !.op = op, !.f = f, !.pos = o, !.n = n, !.seed = s,
                              !.hops = o \div ClusterBytes,
                              !.offin = o % ClusterBytes, !.cur = first[f],
                              !.head = NoCluster(first[f])]
    /\ calls' = calls + 1
    /\ UNCHANGED <<disk, first, size, content, crashed>>

write_fat16(f, o, n, s) ==
    /\ Begin("write", f, o, n, s)
    /\ pc' = IF NoCluster(first[f]) THEN "alloc" ELSE "hop"

read_fat16(f, o, n) ==
    /\ Begin("read", f, o, n, 0)
    /\ pc' = IF NoCluster(first[f]) THEN "return" ELSE "hop"

(* Mutant: one hop too few is taken. *)
HopEarly ==
    /\ pc = "hop" /\ call.hops > 0
    /\ LET next == fat[0][call.cur]
           kept == IF call.hops > 1 THEN next ELSE call.cur
       IN  /\ call' = [call EXCEPT !.hops = @ - 1, !.cur = kept]
           /\ pc' = IF ~ NoCluster(kept) THEN "hop"
                    ELSE IF call.op = "read" THEN "return" ELSE "alloc"
    /\ UNCHANGED <<disk, first, size, calls, content, crashed>>

(* One hop: the entry of the current cluster.  At the end of the chain a      *)
(* read is over and a write asks for a cluster.                               *)
Hop ==
    /\ pc = "hop" /\ call.hops > 0
    /\ LET next == fat[0][call.cur]
       IN  /\ call' = [call EXCEPT !.hops = @ - 1, !.cur = next]
           /\ pc' = IF ~ NoCluster(next) THEN "hop"
                    ELSE IF call.op = "read" THEN "return" ELSE "alloc"
    /\ UNCHANGED <<disk, first, size, calls, content, crashed>>

-----------------------------------------------------------------------------
(* Mutant: an end mark is taken for a free entry. *)
FreeOrEnd == {e \in Clusters : fat[0][e] \in {0, EOC}}

(* Mutant: the search begins with the second sector of the table. *)
FreeEntriesLater == {e \in Entries : e >= 4 /\ fat[0][e] = 0}

(* The entries get_free_cluster's two loops stop at. *)
FreeEntries == {e \in Entries : fat[0][e] = 0}

(* get_free_cluster: the first free entry of the first copy is marked, ... *)
Claim ==
    /\ pc = "alloc" /\ FreeEntries # {}
    /\ fat' = [fat EXCEPT ![0][Min(FreeEntries)] = EOC]
    /\ call' = [call EXCEPT !.cur = Min(FreeEntries), !.q = 1]
    /\ pc' = "copy"
    /\ UNCHANGED <<data, dirent, first, size, calls, content, crashed>>

(* With no free entry it goes on with a sector number and an offset it never *)
(* set, and what happens next is outside this model.                         *)
ClaimNothing ==
    /\ pc = "alloc" /\ FreeEntries = {}
    /\ pc' = "full"
    /\ UNCHANGED <<disk, first, size, call, calls, content, crashed>>

(* ... then in each other copy, ...                                          *)
CopyFat ==
    /\ pc = "copy" /\ call.q < FatCount
    /\ fat' = [fat EXCEPT ![call.q][call.cur] = EOC]
    /\ call' = [call EXCEPT !.q = @ + 1]
    /\ UNCHANGED <<data, dirent, first, size, pc, calls, content, crashed>>

(* Mutant: the last copy is left out. *)
ClaimedEarly ==
    /\ pc = "copy" /\ call.q >= FatCount - 1
    /\ first' = IF call.head THEN [first EXCEPT ![call.f] = call.cur] ELSE first
    /\ call' = [call EXCEPT !.q = 0, !.head = FALSE]
    /\ pc' = "hop"
    /\ UNCHANGED <<disk, size, calls, content, crashed>>

(* ... and write_fat16 goes on with it, as the file's first if it had none.  *)
Claimed ==
    /\ pc = "copy" /\ call.q = FatCount
    /\ first' = IF call.head THEN [first EXCEPT ![call.f] = call.cur] ELSE first
    /\ call' = [call EXCEPT !.q = 0, !.head = FALSE]
    /\ pc' = "hop"
    /\ UNCHANGED <<disk, size, calls, content, crashed>>

-----------------------------------------------------------------------------
(* target_size: what is left to do, but no more than the cluster has. *)
Target == Min({call.n - call.done, ClusterBytes - call.offin})

(* Mutant: the next cluster is entered at the same offset as this one. *)
NextClusterSameOffset(got) ==
    LET done == call.done + Target
    IN  /\ call' = [call EXCEPT !.done = done, !.got = got, !.q = 0,
                                !.hops = 1]
        /\ pc' = IF done >= call.n THEN "return" ELSE "hop"

(* After a cluster the call is over or takes one hop to the next. *)
NextCluster(got) ==
    LET done == call.done + Target
    IN  /\ call' = [call EXCEPT !.done = done, !.got = got, !.q = 0,
                                !.hops = 1, !.offin = 0]
        /\ pc' = IF done >= call.n THEN "return" ELSE "hop"

ReadCluster ==
    /\ pc = "hop" /\ call.hops = 0 /\ call.op = "read"
    /\ NextCluster(call.got \o [i \in 1 .. Target |-> data[call.cur][call.offin + i - 1]])
    /\ UNCHANGED <<disk, first, size, calls, content, crashed>>

(* The bytes of the cluster's sector q that the caller's bytes replace. *)
Touched(q) == {b \in (q * SectBytes) .. ((q + 1) * SectBytes - 1) :
                 call.offin <= b /\ b < call.offin + Target}

(* The cluster is read, changed in memory and written sector by sector. *)
WriteSector ==
    /\ pc = "hop" /\ call.hops = 0 /\ call.op = "write" /\ call.q < SectPerClust
    /\ LET byte(b) == BufferByte(call.done + b - call.offin)
       IN  /\ data' = [data EXCEPT ![call.cur] =
                         [b \in DOMAIN @ |-> IF b \in Touched(call.q) THEN byte(b) ELSE @[b]]]
           /\ content' = [content EXCEPT ![call.f] =
                [p \in Positions |-> LET b == p - call.pos - call.done + call.offin
                                     IN  IF b \in Touched(call.q) THEN byte(b) ELSE @[p]]]
    /\ call' = [call EXCEPT !.q = @ + 1]
    /\ UNCHANGED <<fat, dirent, first, size, pc, calls, crashed>>

WriteCluster ==
    /\ pc = "hop" /\ call.hops = 0 /\ call.op = "write" /\ call.q = SectPerClust
    /\ NextCluster(<<>>)
    /\ size' = [size EXCEPT ![call.f] = Max({@, call.done + Target})]
    /\ UNCHANGED <<disk, first, calls, content, crashed>>

Return ==
    /\ pc = "return"
    /\ pc' = "idle" /\ call' = NoCall
    /\ UNCHANGED <<disk, first, size, calls, content, crashed>>

(* The power fails; after the next mount the nodes are as the directory on    *)
(* disk has them.                                                             *)
Crash ==
    /\ pc # "full" /\ ~ crashed
    /\ first' = dirent
    /\ size' = [f \in Files |-> 0]
    /\ pc' = "idle" /\ call' = NoCall
    /\ content' = [f \in Files |->
                     [p \in Positions |-> IF OnChain(dirent[f], p) THEN content[f][p] ELSE NONE]]
    /\ crashed' = TRUE
    /\ UNCHANGED <<disk, calls>>

-----------------------------------------------------------------------------
(* A cluster that is not free is one place of one chain, a free one of none. *)
WellFormed(t, starts) ==
    \A c \in Volume :
        Cardinality({x \in Files \X (0 .. FatEntries) : Walk(t, starts[x[1]], x[2]) = c})
            = IF t[c] = 0 THEN 0 ELSE 1

(* The entries of the clusters; those beyond the partition are free. *)
Found(v) == [c \in Clusters |-> IF c \in Volume THEN v[c] ELSE 0]

(* Entries 0 and 1 hold the media descriptor and an end mark. *)
FoundCopy(t) == [e \in Entries |-> IF e = 0 THEN 65528 ELSE IF e = 1 THEN EOC ELSE t[e]]

(* Any partition as another system would leave it: every cluster that is not *)
(* free lies on the chain of one file, and the copies agree.                 *)
Init ==
    /\ dirent \in [Files -> {0} \cup Volume]
    /\ \E v \in [Volume -> {0, EOC} \cup Volume] :
          /\ WellFormed(Found(v), dirent)
          /\ fat = [k \in Copies |-> FoundCopy(Found(v))]
    /\ first = dirent
    /\ data = [c \in Clusters |-> [b \in 0 .. (ClusterBytes - 1) |-> 0]]
    /\ size = [f \in Files |-> 0]
    /\ call = NoCall /\ pc = "idle" /\ calls = 0
    /\ content = [f \in Files |->
                    [p \in Positions |-> IF OnChain(dirent[f], p) THEN 0 ELSE NONE]]
    /\ crashed = FALSE

Next ==
    \/ \E f \in Files, o \in Offsets, n \in Lens :
          \/ read_fat16(f, o, n)
          \/ \E s \in Seeds : write_fat16(f, o, n, s)
    \/ Hop
    \/ Claim \/ ClaimNothing \/ CopyFat \/ Claimed
    \/ ReadCluster \/ WriteSector \/ WriteCluster
    \/ Return
    \/ Crash

Spec == Init /\ [][Next]_vars

-----------------------------------------------------------------------------
(* PROPERTIES *)

(* The types of the variables; a call goes on only with a cluster there is.  *)
TypeOK ==
    /\ fat \in [Copies -> [Entries -> {0, 65528, EOC} \cup Clusters]]
    /\ data \in [Clusters -> [0 .. (ClusterBytes - 1) -> Bytes]]
    /\ dirent \in [Files -> {0} \cup Clusters]
    /\ first \in [Files -> {0} \cup Clusters]
    /\ size \in [Files -> 0 .. Max(Lens)]
    /\ pc \in {"idle", "hop", "alloc", "copy", "full", "return"}
    /\ call.done \in 0 .. call.n /\ call.offin \in 0 .. (ClusterBytes - 1)
    /\ pc = "hop" => call.cur \in Clusters
    /\ content \in [Files -> [Positions -> Bytes \cup {NONE}]]

(* Writes of all files draw clusters from one table, in steps the power may  *)
(* fail between; still no cluster is on two chains or twice on one, and no   *)
(* chain runs into a cluster the table calls free.                           *)
ChainsApart ==
    \A f, g \in Files, i, j \in 0 .. FatEntries :
        LET c == At(first[f], i) IN
        ~ NoCluster(c) => /\ c = At(first[g], j) => f = g /\ i = j
                          /\ fat[0][c] # 0

(* A byte inside a file's chain is the one last written there, whatever was  *)
(* written to other files or past the end since, also when the power failed  *)
(* in the middle of a cluster.                                               *)
StoredKept ==
    \A f \in Files, p \in Positions :
        content[f][p] # NONE /\ OnChain(first[f], p) =>
            data[At(first[f], p \div ClusterBytes)][p % ClusterBytes] = content[f][p]

(* read_fat16 delivers the bytes at its offset, and is short exactly when    *)
(* the chain is.                                                             *)
ReadExact ==
    pc = "return" /\ call.op = "read" =>
        LET there == {i \in 0 .. (call.n - 1) : OnChain(first[call.f], call.pos + i)}
        IN  /\ call.done = Cardinality(there) /\ Len(call.got) = call.done
            /\ \A i \in there : content[call.f][call.pos + i] \in {NONE, call.got[i + 1]}

(* The other copies of the table follow the first: an entry that differs is  *)
(* one they still call free, and between calls none differs unless the power *)
(* failed.                                                                   *)
CopiesFollow ==
    \A k \in Copies, e \in Entries :
        /\ fat[k][e] \in {fat[0][e], 0}
        /\ pc = "idle" /\ ~ crashed => fat[k][e] = fat[0][e]

(* get_free_cluster does not know where the partition ends (fat16.c:321),    *)
(* and takes an entry beyond it for a free cluster.  Still the sectors       *)
(* behind the partition are written only once no cluster of it is free.      *)
NeighbourKept ==
    (\E c \in Clusters \ Volume : \E b \in DOMAIN data[c] : data[c][b] # 0) =>
        \A c \in Volume : fat[0][c] # 0

(* fat16.c:396: "if next cluster not present,modify the fat section, find a  *)
(* free cluster modify current cluster end value": what a call has written   *)
(* lies on the file's chain when it returns.                                 *)
WriteLinked ==
    pc = "return" /\ call.op = "write" =>
        \A i \in 0 .. (call.n - 1) : OnChain(first[call.f], call.pos + i)
=============================================================================

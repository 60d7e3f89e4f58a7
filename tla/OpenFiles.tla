------------------------------ MODULE OpenFiles ------------------------------
(***************************************************************************)
(* The open-file cache and the mount table of the VFS, as fat16.c uses     *)
(* them: mount_fat16, umount_fat16, and the walk of create_file_fat16,     *)
(* which opens each directory of a path in turn and closes the one before. *)
(* A chunk keeps its old fields when it is freed, as the small-object      *)
(* allocator clears nothing; malloc returns any free chunk, or NULL.       *)
(*                                                                         *)
(* Both hash functions are stubs that return 0 (hash.c), so every entry of *)
(* the cache matches every path.  What names a directory holds, and how    *)
(* set_fname takes a name from the path, is left open: at every directory  *)
(* the next name is found or not.  The page at address 0 is mapped, so a   *)
(* store through NULL goes unnoticed.  A step that would read a chunk as   *)
(* something it is not, or follow NULL or a ring of entries, ends the      *)
(* behaviour ("wild").                                                     *)
(***************************************************************************)
EXTENDS Integers, FiniteSets

CONSTANTS Addrs,            \* chunks of the small-object allocator
          NULL,
          MaxOpenFiles,     \* MAX_OPEN_FILE_COUNT
          WordSize,         \* values of CACHE_TABLE_COUNT
          MaxOps,           \* bound: calls in a behaviour
          MaxDepth          \* bound: directories a walk opens

ASSUME OpenFilesAssumption ==
    /\ NULL \notin Addrs /\ IsFiniteSet(Addrs)
    /\ MaxOpenFiles \in 1 .. (WordSize - 1) /\ WordSize \in Nat

VARIABLES mem,              \* what the chunks hold, freed ones too
          live,             \* the chunks in use
          cache_table_start, cache_table_last,
          mount_table_start, mount_table_last,
          CACHE_TABLE_COUNT,
          cur, is_first,    \* cur_file and is_first of a walk
          depth,            \* directories the walk has opened
          stage, ops,
          did               \* history: the events that explain damage

mounts   == <<mount_table_start, mount_table_last, CACHE_TABLE_COUNT>>
walk     == <<cur, is_first, depth>>
openVars == <<mem, live, cache_table_start, cache_table_last, mounts, walk, stage, ops, did>>

Ptr == Addrs \cup {NULL}

(* struct cache_table_entry (content: mount entry or node), mount_table_entry *)
(* (content: fs_root_node), vfs_node and fat16_bpb in one.                    *)
Blank == [kind |-> "none", type |-> "none", refcount |-> 0, content |-> NULL,
          bpb |-> NULL, next |-> NULL, prev |-> NULL]

Entry(type, content) ==
    [Blank EXCEPT !.kind = "entry", !.type = type, !.refcount = 1, !.content = content]

SetNext(m, a, v) == IF a = NULL THEN m ELSE [m EXCEPT ![a].next = v]
SetPrev(m, a, v) == IF a = NULL THEN m ELSE [m EXCEPT ![a].prev = v]

-----------------------------------------------------------------------------
(* The entry the loops over the cache are at after n rounds. *)
Round(n) ==
    LET at[k \in Nat] ==
            IF k = 0 THEN cache_table_start
            ELSE IF at[k - 1] = NULL THEN NULL ELSE mem[at[k - 1]].next
    IN  at[n]

Rounds == 0 .. Cardinality(Addrs)
Seen   == {Round(n) : n \in Rounds} \ {NULL}

(* The loops come to an end, and on the way read only cache entries. *)
ListEnds == Round(Cardinality(Addrs)) = NULL /\ \A a \in Seen : mem[a].kind = "entry"

(* is_present_in_cache_table, and the loop of umount_fat16: the last match. *)
is_present_in_cache_table ==
    IF Seen = {} THEN NULL ELSE CHOOSE a \in Seen : mem[a].next = NULL

(* get_last_open, for a path with a / in it: the first prefix it tries is     *)
(* there, as every path is.                                                  *)
get_last_open == is_present_in_cache_table

(* get_origing_mnt_tbl_ent: a file has no mount entry of origin. *)
HasOrigin(c) == mem[c].type # "file"

Wild ==
    /\ stage' = "wild"
    /\ UNCHANGED <<mem, live, cache_table_start, cache_table_last, mounts, walk, did>>

Call == stage = "idle" /\ ops < MaxOps /\ ops' = ops + 1

-----------------------------------------------------------------------------
(* mount_fat16: the table is full. *)
MountTableFull ==
    /\ Call /\ CACHE_TABLE_COUNT >= MaxOpenFiles
    /\ UNCHANGED <<mem, live, cache_table_start, cache_table_last, mounts, walk, stage, did>>

(* goto fail from above the declarations of mnt_tbl_e and bpb: whatever the  *)
(* stack holds is freed, which may be a chunk in use.  The caller's r_node,  *)
(* a chunk of its own, is freed too.                                         *)
FreeUnset(garbage) ==
    /\ live' = live \ garbage
    /\ stage' = IF live' = live THEN stage ELSE "wild"
    /\ UNCHANGED <<mem, cache_table_start, cache_table_last, mounts, walk, did>>

MountExistingPath ==
    /\ Call /\ CACHE_TABLE_COUNT < MaxOpenFiles /\ cache_table_start # NULL
    /\ \/ /\ mem[cache_table_start].kind = "entry"
          /\ \E m, b \in Ptr : FreeUnset({m, b})
       \/ mem[cache_table_start].kind # "entry" /\ Wild

(* No chunk for the mount entry: bpb is not set yet. *)
MountNoMemory ==
    /\ Call /\ CACHE_TABLE_COUNT < MaxOpenFiles /\ cache_table_start = NULL
    /\ \E b \in Ptr : FreeUnset({b})

(* The new mount entry m, with fields f, at the end of the mount table.      *)
LinkedMount(f, m) ==
    LET new == [mem EXCEPT ![m] = [f EXCEPT !.kind = "mount", !.prev = mount_table_last]]
    IN  [SetNext(new, mount_table_last, m) EXCEPT ![m].next = NULL]

MountTable(m) ==
    /\ mount_table_start' = IF mount_table_start = NULL THEN m ELSE mount_table_start
    /\ mount_table_last' = m

(* parse_partition_fill_bpb_fat16 returns NULL (a negative read result, a bad *)
(* field, no chunk for it), or r_node is NULL: the mount entry is freed and   *)
(* stays in the mount table.                                                  *)
MountFails(m) ==
    /\ Call /\ CACHE_TABLE_COUNT < MaxOpenFiles /\ cache_table_start = NULL
    /\ m \notin live
    /\ mem' = LinkedMount(Blank, m) /\ MountTable(m)
    /\ did' = did \cup {"mount failed"}
    /\ UNCHANGED <<live, cache_table_start, cache_table_last, CACHE_TABLE_COUNT, walk, stage>>

(* Success, with i = NULL too: the result of the last malloc is not looked at. *)
mount_fat16(m, b, r, i) ==
    /\ Call /\ CACHE_TABLE_COUNT < MaxOpenFiles /\ cache_table_start = NULL
    /\ {m, b, r, i} \cap live = {} /\ Cardinality({m, b, r, i}) = 4
    /\ LET linked == LinkedMount([Blank EXCEPT !.content = r, !.bpb = b], m)
           filled == [linked EXCEPT ![b] = [Blank EXCEPT !.kind = "bpb"],
                                    ![r] = [Blank EXCEPT !.kind = "node"]]
       IN  mem' = IF i = NULL THEN filled ELSE [filled EXCEPT ![i] = Entry("mount", m)]
    /\ live' = (live \cup {m, b, r, i}) \ {NULL}
    /\ MountTable(m)
    /\ cache_table_start' = i /\ cache_table_last' = i
    /\ CACHE_TABLE_COUNT' = CACHE_TABLE_COUNT + 1
    /\ did' = IF i = NULL THEN did \cup {"no entry"} ELSE did
    /\ UNCHANGED <<walk, stage>>

-----------------------------------------------------------------------------
(* umount_fat16 of a path: the last entry of the cache, whatever it is.      *)
UmountNotFound ==
    /\ Call /\ cache_table_start = NULL
    /\ UNCHANGED <<mem, live, cache_table_start, cache_table_last, mounts, walk, stage, did>>

(* The entry is no mount point, or its chunks were put to another use. *)
IsMount(c) ==
    /\ mem[c].type = "mount" /\ mem[c].content # NULL /\ mem[c].refcount >= 1
    /\ mem[mem[c].content].kind = "mount"

UmountWild ==
    /\ Call /\ cache_table_start # NULL
    /\ ListEnds => ~ IsMount(is_present_in_cache_table)
    /\ Wild

(* Mutant: the root node is not freed. *)
FreedByUmountKeepingRoot(c, m) == {c, mem[m].bpb, m}

FreedByUmount(c, m) == {c, mem[m].bpb, mem[m].content, m}

(* The table pointers are left as they are. *)
umount_fat16 ==
    /\ Call /\ cache_table_start # NULL /\ ListEnds
    /\ LET c == is_present_in_cache_table
           m == mem[c].content
           unlinked == SetPrev(SetNext(mem, mem[c].prev, mem[c].next), mem[c].next, mem[c].prev)
       IN  /\ IsMount(c)
           /\ mem' = SetPrev(SetNext(unlinked, mem[m].prev, mem[m].next),
                             mem[m].next, mem[m].prev)
           /\ live' = live \ FreedByUmount(c, m)
    /\ CACHE_TABLE_COUNT' = (CACHE_TABLE_COUNT + WordSize - 1) % WordSize
    /\ did' = did \cup {"umount"}
    /\ UNCHANGED <<cache_table_start, cache_table_last, mount_table_start,
                   mount_table_last, walk, stage>>

-----------------------------------------------------------------------------
(* Mutant: the entry before is not told. *)
ClosedUnlinkedOnce(h, c) ==
    IF h.mem[c].refcount > 1 \/ h.mem[c].type = "mount" THEN h
    ELSE [mem  |-> SetPrev(h.mem, h.mem[c].next, h.mem[c].prev),
          live |-> h.live \ {c, h.mem[c].content}]

(* fat16_sub_close_file of entry c in heap h. *)
fat16_sub_close_file(h, c) ==
    IF h.mem[c].refcount > 1 \/ h.mem[c].type = "mount" THEN h
    ELSE [mem  |-> SetPrev(SetNext(h.mem, h.mem[c].prev, h.mem[c].next),
                           h.mem[c].next, h.mem[c].prev),
          live |-> h.live \ {c, h.mem[c].content}]

(* Mutant: the entry before is not told of the new one. *)
OpenedHalfLinked(h, c, n, type) ==
    [mem  |-> [h.mem EXCEPT ![c] = [Entry(type, n) EXCEPT !.prev = cache_table_last],
                            ![n] = [Blank EXCEPT !.kind = "node"]],
     live |-> h.live \cup {c, n}]

(* fat16_sub_open_file: entry c and node n at the end of the cache.  The     *)
(* entry is not counted.                                                     *)
fat16_sub_open_file(h, c, n, type) ==
    LET new == [h.mem EXCEPT ![c] = Entry(type, n), ![n] = [Blank EXCEPT !.kind = "node"]]
    IN  [mem  |-> [SetNext(new, cache_table_last, c) EXCEPT ![c].prev = cache_table_last],
         live |-> h.live \cup {c, n}]

Heap == [mem |-> mem, live |-> live]

SetHeap(h) == mem' = h.mem /\ live' = h.live

(* The last entry of the cache is among those closed: its address stays in   *)
(* cache_table_last.                                                         *)
Note(h, more) ==
    did' = did \cup more \cup (IF cache_table_last \in live \ h.live THEN {"closed last"} ELSE {})

-----------------------------------------------------------------------------
(* create_file_fat16: get_last_open takes the last entry for the directory   *)
(* the path begins at; if that is a file, or there is none, it is over.      *)
create_file_fat16 ==
    /\ Call
    /\ \/ /\ cache_table_start # NULL /\ ListEnds
          /\ LET c == get_last_open
             IN  IF mem[c].type = "file" THEN UNCHANGED <<stage, walk>>
                 ELSE stage' = "search" /\ cur' = c /\ is_first' = TRUE /\ depth' = 0
          /\ UNCHANGED <<mem, live, cache_table_start, cache_table_last, mounts, did>>
       \/ ~ (cache_table_start # NULL /\ ListEnds) /\ Wild

Walking == stage \in {"search", "create"}
AtEntry == mem[cur].kind = "entry"

(* The next directory is opened in heap h, which is what closing left. *)
Enter(h, type, first, then) ==
    /\ depth < MaxDepth /\ depth' = depth + 1
    /\ \E c, n \in Addrs \ h.live :
          /\ c # n
          /\ SetHeap(fat16_sub_open_file(h, c, n, type))
          /\ cache_table_last' = c /\ cur' = c
    /\ is_first' = first /\ stage' = then /\ Note(h, {})
    /\ UNCHANGED <<cache_table_start, mounts, ops>>

(* The name is there and is a directory: the one before is closed, unless it *)
(* is the one the walk began at.                                             *)
EnterExisting ==
    /\ Walking /\ AtEntry /\ stage = "search"
    /\ Enter(IF is_first THEN Heap ELSE fat16_sub_close_file(Heap, cur), "dir", FALSE, "search")

(* The name is not there and not the last: it is made, the parent is closed  *)
(* in any case, and the new entry is opened.  Its attribute byte decides     *)
(* what the entry is taken for; a file has no mount entry of origin, and     *)
(* making a name in it fails.                                                *)
EnterCreated ==
    /\ Walking /\ AtEntry /\ HasOrigin(cur)
    /\ \E type \in {"dir", "file"} :
          Enter(fat16_sub_close_file(Heap, cur), type, is_first, "create")

(* No chunk for the entry or its node: the next round reads through NULL.    *)
(* Nor is there a next round when the entry the walk is at was unmounted and *)
(* its chunk used for something else.                                        *)
WalkWild ==
    /\ Walking /\ Wild /\ UNCHANGED ops

(* exit: what the walk has opened is closed. *)
Exit(h, more) ==
    /\ LET after == IF is_first THEN h ELSE fat16_sub_close_file(h, cur)
       IN  SetHeap(after) /\ Note(after, more)
    /\ stage' = "idle" /\ cur' = NULL /\ is_first' = TRUE /\ depth' = 0
    /\ UNCHANGED <<cache_table_start, cache_table_last, mounts, ops>>

(* The last name is made: the parent is closed, and at exit closed again. *)
CreateLast ==
    /\ Walking /\ AtEntry /\ HasOrigin(cur)
    /\ Exit(fat16_sub_close_file(Heap, cur), {})

(* The last name is there, or one of the others is a file; no cluster, no    *)
(* origin, a write that fails.  An entry opened while creating is left open  *)
(* when no directory was found on the way.                                   *)
GiveUp ==
    /\ Walking /\ AtEntry
    /\ Exit(Heap, IF stage = "create" /\ is_first THEN {"entry left"} ELSE {})

-----------------------------------------------------------------------------
(* Other code, or a buffer of the calls above, takes a free chunk, fills it  *)
(* and gives it back.                                                        *)
OtherUse(a) ==
    /\ stage # "wild" /\ a \notin live /\ mem[a] # Blank
    /\ mem' = [mem EXCEPT ![a] = Blank]
    /\ UNCHANGED <<live, cache_table_start, cache_table_last, mounts, walk, stage, ops, did>>

OpenInit ==
    /\ mem = [a \in Addrs |-> Blank] /\ live = {}
    /\ cache_table_start = NULL /\ cache_table_last = NULL
    /\ mount_table_start = NULL /\ mount_table_last = NULL
    /\ CACHE_TABLE_COUNT = 0
    /\ cur = NULL /\ is_first = TRUE /\ depth = 0
    /\ stage = "idle" /\ ops = 0 /\ did = {}

OpenNext ==
    \/ MountTableFull \/ MountExistingPath \/ MountNoMemory
    \/ \E m \in Addrs : MountFails(m)
    \/ \E m, b, r \in Addrs, i \in Ptr : mount_fat16(m, b, r, i)
    \/ UmountNotFound \/ UmountWild \/ umount_fat16
    \/ create_file_fat16
    \/ EnterExisting \/ EnterCreated \/ WalkWild \/ CreateLast \/ GiveUp
    \/ \E a \in Addrs : OtherUse(a)

OpenSpec == OpenInit /\ [][OpenNext]_openVars

-----------------------------------------------------------------------------
InUse(kind) == {a \in live : mem[a].kind = kind}

(* What a lookup walks over (fat16.c:258) is a list that ends, of entries in *)
(* use, and cache_table_last is the way to its end: closing and opening in   *)
(* any order keeps it so, and an entry closed twice (fat16.c:976, :1000)     *)
(* harms nothing.  Only umount breaks it, which leaves cache_table_start     *)
(* where it was.                                                             *)
LookupAlive ==
    stage # "wild" /\ "umount" \notin did => ListEnds /\ Seen \subseteq live

(* An entry in use can be found (fat16.c:258), until the entry at the end of *)
(* the table has been closed: cache_table_last still points at it (fat16.c:  *)
(* 817), and whatever is opened later is linked to the freed chunk.          *)
EntriesLinked ==
    stage # "wild" /\ did \cap {"umount", "closed last"} = {} => InUse("entry") \subseteq Seen

(* Between calls the chunks in use are those of the mounts, each mount with  *)
(* its four (three if the last malloc of mount_fat16 failed, fat16.c:151):   *)
(* walks, unmounts and failed mounts give back all they took.  Only a walk   *)
(* that gives up among names it made itself leaves an entry and its node.    *)
NothingLost ==
    stage = "idle" /\ "entry left" \notin did =>
        /\ live = InUse("entry") \cup InUse("mount")
                  \cup UNION {{mem[m].content, mem[m].bpb} : m \in InUse("mount")}
        /\ \A c \in InUse("entry") : mem[c].type = "mount" /\ mem[c].content \in InUse("mount")
        /\ "no entry" \in did \/ Cardinality(InUse("entry")) = Cardinality(InUse("mount"))
==============================================================================

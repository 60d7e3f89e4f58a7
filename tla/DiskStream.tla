----------------------------- MODULE DiskStream ------------------------------
(***************************************************************************)
(* Disk streams (disk_stream.c) over the ATA driver: a position on a disk, *)
(* and get_bytes_from_disk, which reads the sectors that hold the bytes    *)
(* one by one into a buffer of its own and copies what it needs.  It       *)
(* returns nothing: when a sector cannot be read the caller keeps what was *)
(* copied before.  Other code calls the driver between two requests.       *)
(*                                                                         *)
(* A byte is its sector's value and its place in the sector.  The pages of *)
(* stream and buffer are HeapCream's subject; they are had here.           *)
(***************************************************************************)
EXTENDS Disk, Sequences

CONSTANTS SectorBytes,  \* SECTOR_SIZE, 512
          Positions,    \* arguments of disk_stream_seek
          Counts        \* arguments of get_bytes_from_disk

ASSUME SectorBytesAssumption == SectorBytes \in Nat \ {0, 1}
ASSUME StreamArgsAssumption ==
    Positions \cup Counts \subseteq 0 .. (WordSize - 1)

VARIABLES pos,                  \* ds->pos
          spc,                  \* where get_bytes_from_disk is
          no_bytes, sect, index, count, \* its arguments and locals
          ram_location,         \* the bytes copied, i of the code its length
          spoilt                \* history: a sector came from a drive that
                                \* owed an earlier answer

stream == <<pos, spc, no_bytes, sect, index, count, ram_location, spoilt>>
svars  == <<vars, stream>>

Byte(d, x) == <<d, x>>

-----------------------------------------------------------------------------
disk_stream_seek(p) ==
    /\ spc = "idle" /\ pc = "done"
    /\ pos' = p
    /\ UNCHANGED <<vars, spc, no_bytes, sect, index, count, ram_location, spoilt>>

(* Mutant: the sectors are counted without the bytes before the position. *)
SectorCountFromZero(n, x) == (n + SectorBytes - 1) \div SectorBytes

(* How many sectors hold n bytes from byte x of the first on.  The sum is a  *)
(* 32-bit one.                                                               *)
SectorCount(n, x) ==
    LET sum == (n + x) % WordSize
    IN  sum \div SectorBytes + (IF sum % SectorBytes # 0 THEN 1 ELSE 0)

get_bytes_from_disk(n) ==
    /\ spc = "idle" /\ pc = "done" /\ n # 0
    /\ no_bytes' = n
    /\ sect' = pos \div SectorBytes
    /\ index' = pos % SectorBytes
    /\ count' = SectorCount(n, pos % SectorBytes)
    /\ ram_location' = <<>>
    /\ spoilt' = FALSE
    /\ spc' = "loop"
    /\ UNCHANGED <<vars, pos>>

(* for(;count>0;count--,lba++) *)
ReadBlock ==
    /\ spc = "loop" /\ count > 0
    /\ read_disk_block(sect, 1)
    /\ spc' = "read"
    /\ UNCHANGED <<pos, no_bytes, sect, index, count, ram_location, spoilt>>

(* Mutant: index is not reset after the first sector. *)
CopyBytesSameIndex ==
    LET room == SectorBytes - index
        rest == no_bytes - Len(ram_location)
        m    == IF rest < room THEN rest ELSE room
    IN  /\ spc = "read" /\ pc = "done" /\ ret = 0
        /\ ram_location' = ram_location \o [j \in 1 .. m |-> Byte(buf[0], index + j - 1)]
        /\ sect' = sect + 1 /\ count' = count - 1
        /\ spoilt' = (spoilt \/ ~ clean)
        /\ spc' = "loop"
        /\ UNCHANGED <<vars, pos, no_bytes, index>>

(* The bytes of the sector that are wanted, to the end of either. *)
CopyBytes ==
    LET room == SectorBytes - index
        rest == no_bytes - Len(ram_location)
        m    == IF rest < room THEN rest ELSE room
    IN  /\ spc = "read" /\ pc = "done" /\ ret = 0
        /\ ram_location' = ram_location \o [j \in 1 .. m |-> Byte(buf[0], index + j - 1)]
        /\ index' = 0 /\ sect' = sect + 1 /\ count' = count - 1
        /\ spoilt' = (spoilt \/ ~ clean)
        /\ spc' = "loop"
        /\ UNCHANGED <<vars, pos, no_bytes>>

(* Any result but 0 ends the call, DISK_READ_ERR too. *)
ReadFailed ==
    /\ spc = "read" /\ pc = "done" /\ ret # 0
    /\ spc' = "idle"
    /\ UNCHANGED <<vars, pos, no_bytes, sect, index, count, ram_location, spoilt>>

BytesDone ==
    /\ spc = "loop" /\ count = 0
    /\ spc' = "idle"
    /\ UNCHANGED <<vars, pos, no_bytes, sect, index, count, ram_location, spoilt>>

Stream == ReadBlock \/ CopyBytes \/ ReadFailed \/ BytesDone

-----------------------------------------------------------------------------
(* init_disk_stream *)
StreamInit ==
    /\ Init
    /\ pos = 0 /\ spc = "idle"
    /\ no_bytes = 0 /\ sect = 0 /\ index = 0 /\ count = 0
    /\ ram_location = <<>> /\ spoilt = FALSE

(* Calls of the driver by others; what a request got is theirs no more. *)
OtherCall ==
    /\ spc = "idle"
    /\ \E l \in Lbas, t \in Totals : read_disk_block(l, t) \/ write_disk_block(l, t)
    /\ no_bytes' = 0 /\ sect' = 0 /\ index' = 0 /\ count' = 0
    /\ ram_location' = <<>> /\ spoilt' = FALSE
    /\ UNCHANGED <<pos, spc>>

StreamNext ==
    \/ \E p \in Positions : disk_stream_seek(p)
    \/ \E n \in Counts : get_bytes_from_disk(n)
    \/ Stream
    \/ OtherCall
    \/ (Driver \/ Device) /\ UNCHANGED stream

StreamSpec ==
    /\ StreamInit /\ [][StreamNext]_svars
    /\ WF_svars(Driver /\ UNCHANGED stream) /\ WF_svars(Stream)

-----------------------------------------------------------------------------
(* PROPERTIES *)

Bytes == 0 .. (Sectors * SectorBytes - 1)

Promise == INSTANCE ByteStream WITH
    Starts  <- {0} \cup Positions,
    Amounts <- Counts,
    Limit   <- WordSize - SectorBytes,
    content <- [b \in Bytes |-> Byte(media[b \div SectorBytes], b % SectorBytes)],
    phase   <- IF spc = "idle" THEN "idle" ELSE IF spoilt THEN "spoilt" ELSE "open",
    from    <- pos,
    amount  <- no_bytes,
    got     <- IF spoilt THEN <<>> ELSE ram_location,
    fault   <- pc = "done" /\ ret # 0,
    owed    <- ~ clean

(* get_bytes_from_disk implements the promise of a stream: it crosses        *)
(* sectors without a gap or a double, stops short only on a failed read or   *)
(* when the request is so large that the sum of SectorCount may wrap, and    *)
(* gives other bytes only when the drive owed an earlier answer.             *)
StreamPromise == Promise!Spec
=============================================================================

--------------------------------- MODULE Disk --------------------------------
(***************************************************************************)
(* read_disk_block and write_disk_block (disk.c) against one ATA drive in  *)
(* PIO mode.  The driver polls the status register; every wait gives up    *)
(* after ATA_WAIT polls, and nothing resets the drive, so that a drive     *)
(* that answers late still owes data when the next command is sent.        *)
(*                                                                         *)
(* A sector is one value.  A poll loop is one step: it ends when its       *)
(* condition holds, or gives up while it does not.  The drive is external. *)
(* What it does with a command sent while it owes data is undefined in the *)
(* interface: it may drop the command, as the emulator the kernel runs on  *)
(* does, or drop the old transfer and obey.                                *)
(***************************************************************************)
EXTENDS Integers

CONSTANTS Sectors,      \* disk->sect_count, the drive's size
          WordSize,     \* 2^32
          LbaMod,       \* 2^28: the bits of lba the registers carry
          CountMod,     \* 256: the count register
          Lbas, Totals, \* arguments of the calls
          Data          \* contents of a sector

ASSUME SectorsAssumption == Sectors \in Nat \ {0}
ASSUME ModAssumption ==
    /\ WordSize \in Nat \ {0} /\ LbaMod \in Nat \ {0} /\ CountMod \in Nat \ {0}
    /\ Sectors <= LbaMod /\ LbaMod + 1 < WordSize
ASSUME CallArgsAssumption == Lbas \cup Totals \subseteq 0 .. (WordSize - 1)

VARIABLES media,        \* the sectors of the drive
          dev,          \* the drive's status and the transfer it is in
          pc, op, lba, total, i,    \* the call in progress
          buf,          \* the caller's buffer, by sector
          ret,          \* result of the last call
          clean,        \* history: the drive owed nothing when the command came
          sent          \* history: the sectors that command was for

drv  == <<op, lba, total>>
hist == <<clean, sent>>
vars == <<media, dev, pc, op, lba, total, i, buf, ret, clean, sent>>

(* error.h; the poll and argument errors are returned negated. *)
GEN32_INVARG == 2
TIMEOUT == 5
DISK_WRITE_ERR == 6
DISK_READ_ERR == 9

(* The sectors of the call in hand. *)
Range == lba .. (lba + total - 1)

SectorSet == 0 .. (Sectors - 1)
JUNK == "junk"          \* what the data port gives when no read is in progress
ASSUME DataAssumption == JUNK \notin Data

(* An idle drive.  cmd is the transfer in progress, left its sectors to go,  *)
(* at its current sector and reg what the data port holds.                   *)
Idle(err) == [bsy |-> FALSE, drq |-> FALSE, err |-> err,
              cmd |-> "none", at |-> 0, left |-> 0, reg |-> JUNK]

-----------------------------------------------------------------------------
(* The drive. *)

(* The next sector of a read is at the data port; a write is ready for its   *)
(* next sector, the one it was given having been stored.                     *)
DevReady ==
    /\ dev.bsy
    /\ \/ /\ dev.cmd = "read" /\ dev.at \in SectorSet
          /\ dev' = [dev EXCEPT !.bsy = FALSE, !.drq = TRUE, !.reg = media[dev.at]]
          /\ UNCHANGED media
       \/ /\ dev.cmd = "write" /\ dev.reg = JUNK
          /\ dev' = [dev EXCEPT !.bsy = FALSE, !.drq = TRUE]
          /\ UNCHANGED media
       \/ /\ dev.cmd = "write" /\ dev.reg # JUNK /\ dev.at \in SectorSet
          /\ media' = [media EXCEPT ![dev.at] = dev.reg]
          /\ dev' = IF dev.left = 1
                    THEN Idle(FALSE)
                    ELSE [dev EXCEPT !.bsy = FALSE, !.drq = TRUE, !.reg = JUNK,
                                     !.at = @ + 1, !.left = @ - 1]
    /\ UNCHANGED <<pc, drv, i, buf, ret, hist>>

(* The drive fails the transfer, with or without DRQ. *)
DevError ==
    /\ dev.bsy
    /\ \E drq \in BOOLEAN : dev' = [Idle(TRUE) EXCEPT !.drq = drq]
    /\ UNCHANGED <<media, pc, drv, i, buf, ret, hist>>

(* A command arrives. *)
Started(c, at, count) ==
    [bsy |-> TRUE, drq |-> FALSE, err |-> FALSE, cmd |-> c, at |-> at,
     left |-> IF count = 0 THEN CountMod ELSE count, reg |-> JUNK]

Commanded(c, at, count) ==
    IF dev.drq THEN {dev, Started(c, at, count)} ELSE {Started(c, at, count)}

(* A sector is read from or written to the data port. *)
Drained ==
    IF dev.cmd # "read" THEN dev
    ELSE IF dev.left = 1 THEN Idle(FALSE)
    ELSE [dev EXCEPT !.bsy = TRUE, !.drq = FALSE, !.reg = JUNK,
                     !.at = @ + 1, !.left = @ - 1]

Filled(d) ==
    IF dev.cmd # "write" THEN dev
    ELSE [dev EXCEPT !.bsy = TRUE, !.drq = FALSE, !.reg = d]

-----------------------------------------------------------------------------
(* The driver. *)

Return(r) == pc' = "done" /\ ret' = r

(* The sum of the bounds check is a 32-bit one. *)
InBounds(l, t) == (l + t) % WordSize <= Sectors

(* The caller's buffer: what it had, or the data to write. *)
Call(o, l, t, b) ==
    /\ pc = "done"
    /\ op' = o /\ lba' = l /\ total' = t /\ buf' = b /\ i' = 0
    /\ \/ InBounds(l, t) /\ pc' = "select" /\ UNCHANGED ret
       \/ ~ InBounds(l, t) /\ Return(- GEN32_INVARG)
    /\ UNCHANGED <<media, dev, hist>>

read_disk_block(l, t) == Call("read", l, t, [k \in 0 .. (t - 1) |-> JUNK])

write_disk_block(l, t) == \E d \in [0 .. (t - 1) -> Data] : Call("write", l, t, d)

(* The first wait; then count and address go to the registers. *)
Select ==
    /\ pc = "select" /\ ~ dev.bsy
    /\ pc' = "send"
    /\ UNCHANGED <<media, dev, drv, i, buf, ret, hist>>

(* Mutant: sectors numbered from 1. *)
SendFromOne ==
    /\ pc = "send" /\ ~ dev.bsy
    /\ dev' \in Commanded(op, (lba + 1) % LbaMod, total % CountMod)
    /\ clean' = ~ dev.drq
    /\ sent' = Range
    /\ pc' = IF op = "read" THEN "settle" ELSE "next"
    /\ UNCHANGED <<media, drv, i, buf, ret>>

(* The second wait; then the command. *)
Send ==
    /\ pc = "send" /\ ~ dev.bsy
    /\ dev' \in Commanded(op, lba % LbaMod, total % CountMod)
    /\ clean' = ~ dev.drq
    /\ sent' = Range
    /\ pc' = IF op = "read" THEN "settle" ELSE "next"
    /\ UNCHANGED <<media, drv, i, buf, ret>>

(* A read waits for BSY to clear once more. *)
Settle ==
    /\ pc = "settle" /\ ~ dev.bsy
    /\ pc' = "next"
    /\ UNCHANGED <<media, dev, drv, i, buf, ret, hist>>

DataReady == ~ dev.bsy /\ dev.drq

(* Mutant: cur_start is not moved on. *)
ReadSectorSameSpot ==
    /\ pc = "next" /\ op = "read" /\ i < total /\ DataReady /\ ~ dev.err
    /\ buf' = [buf EXCEPT ![0] = dev.reg]
    /\ dev' = Drained
    /\ i' = i + 1
    /\ UNCHANGED <<media, pc, drv, ret, hist>>

(* One round of the loop over sectors. *)
ReadSector ==
    /\ pc = "next" /\ op = "read" /\ i < total /\ DataReady /\ ~ dev.err
    /\ buf' = [buf EXCEPT ![i] = dev.reg]
    /\ dev' = Drained
    /\ i' = i + 1
    /\ UNCHANGED <<media, pc, drv, ret, hist>>

WriteSector ==
    /\ pc = "next" /\ op = "write" /\ i < total /\ DataReady /\ ~ dev.err
    /\ dev' = Filled(buf[i])
    /\ i' = i + 1
    /\ UNCHANGED <<media, pc, drv, buf, ret, hist>>

(* ERR or DF found with DRQ: the error codes are positive here. *)
SectorError ==
    /\ pc = "next" /\ i < total /\ DataReady /\ dev.err
    /\ Return(IF op = "read" THEN DISK_READ_ERR ELSE DISK_WRITE_ERR)
    /\ UNCHANGED <<media, dev, drv, i, buf, hist>>

ReadDone ==
    /\ pc = "next" /\ op = "read" /\ i >= total
    /\ Return(0)
    /\ UNCHANGED <<media, dev, drv, i, buf, hist>>

(* A write waits for its last sector to be stored, then looks for errors.    *)
WriteLoopDone ==
    /\ pc = "next" /\ op = "write" /\ i >= total
    /\ pc' = "flush"
    /\ UNCHANGED <<media, dev, drv, i, buf, ret, hist>>

(* Mutant: the last sector is not waited for. *)
WriteDoneUnflushed ==
    /\ pc = "flush"
    /\ Return(IF dev.err THEN DISK_WRITE_ERR ELSE 0)
    /\ UNCHANGED <<media, dev, drv, i, buf, hist>>

WriteDone ==
    /\ pc = "flush" /\ ~ dev.bsy
    /\ Return(IF dev.err THEN DISK_WRITE_ERR ELSE 0)
    /\ UNCHANGED <<media, dev, drv, i, buf, hist>>

(* Mutant: the wait for DRQ counts no polls. *)
GivesUpNotOnDrq == pc \in {"select", "send", "settle", "flush"} /\ dev.bsy

(* A wait that has used up its polls. *)
GivesUp ==
    \/ pc \in {"select", "send", "settle", "flush"} /\ dev.bsy
    \/ pc = "next" /\ i < total /\ ~ DataReady

TimeOut ==
    /\ GivesUp
    /\ Return(- TIMEOUT)
    /\ UNCHANGED <<media, dev, drv, i, buf, hist>>

-----------------------------------------------------------------------------
Init ==
    /\ media \in [SectorSet -> Data]
    /\ dev = Idle(FALSE)
    /\ pc = "done" /\ op = "read" /\ lba = 0 /\ total = 0 /\ i = 0
    /\ buf = [k \in 0 .. -1 |-> JUNK]
    /\ ret = 0
    /\ clean = TRUE
    /\ sent = {}

Device == DevReady \/ DevError

Driver ==
    \/ Select \/ Send \/ Settle
    \/ ReadSector \/ WriteSector \/ SectorError
    \/ ReadDone \/ WriteLoopDone \/ WriteDone
    \/ TimeOut

Next ==
    \/ \E l \in Lbas, t \in Totals : read_disk_block(l, t) \/ write_disk_block(l, t)
    \/ Driver
    \/ Device

(* The processor goes on polling; the drive need never answer. *)
Spec == Init /\ [][Next]_vars /\ WF_vars(Driver)

-----------------------------------------------------------------------------
(* PROPERTIES *)

(* Statuses the drive can show and results the driver can return. *)
TypeOK ==
    /\ media \in [SectorSet -> Data]
    /\ dev.bsy \in BOOLEAN /\ dev.drq \in BOOLEAN /\ ~ (dev.bsy /\ dev.drq)
    /\ dev.cmd \in {"none", "read", "write"} /\ dev.left \in 0 .. CountMod
    /\ pc \in {"select", "send", "settle", "next", "flush", "done"}
    /\ i \in 0 .. total
    /\ buf \in [0 .. (total - 1) -> Data \cup {JUNK}]
    /\ ret \in {0, - GEN32_INVARG, - TIMEOUT, DISK_READ_ERR, DISK_WRITE_ERR}

NoWrap == lba + total < WordSize

(* A read that reports success, sent to a drive that owed nothing, filled    *)
(* the whole buffer with the sectors asked for, also at a count of 256,      *)
(* which the register holds as 0.                                            *)
ReadExact ==
    pc = "done" /\ op = "read" /\ ret = 0 /\ clean /\ NoWrap =>
        \A k \in 0 .. (total - 1) : buf[k] = media[lba + k]

(* A write that reports success, sent to such a drive, is on the medium.     *)
WriteStored ==
    pc = "done" /\ op = "write" /\ ret = 0 /\ clean /\ NoWrap =>
        \A k \in 0 .. (total - 1) : media[lba + k] = buf[k]

(* A command sent to such a drive, for sectors it has, writes no sector but  *)
(* those it was for, also when the drive stores them after the call has      *)
(* given up.  (Where lba + total wraps the bounds check passes for sectors   *)
(* the drive has not, and the registers carry the lba modulo LbaMod.)        *)
WriteConfined ==
    [][\A s \in SectorSet :
          media'[s] # media[s] /\ clean /\ sent \subseteq SectorSet => s \in sent]_vars

(* Every call returns, also when the drive hangs, fails without DRQ, or      *)
(* serves fewer sectors than the loop counts (a total above 256).            *)
Returns == (pc # "done") ~> (pc = "done")
=============================================================================

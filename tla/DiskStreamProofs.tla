--------------------------- MODULE DiskStreamProofs ---------------------------
(***************************************************************************)
(* The ATA driver and the stream on top of it, for drives, words and       *)
(* requests of any size: what a successful read or write means, that late  *)
(* writes stay where they belong, and that the stream implements           *)
(* ByteStream.                                                             *)
(*                                                                         *)
(* The invariant follows one command.  Progress says how far drive and     *)
(* driver are with it; the drive may be one sector behind a write.         *)
(* Settled and LateWrite say what is left of it once the call is over,     *)
(* when lba and total may belong to the next call.  Place says which byte  *)
(* of the disk the stream is at.                                           *)
(***************************************************************************)
EXTENDS DiskStream, TLAPS

(* A sector is with the drive and not yet on the medium. *)
Pending == dev.cmd = "write" /\ dev.reg # JUNK

DriverTypes ==
    /\ media \in [SectorSet -> Data]
    /\ dev \in [bsy : BOOLEAN, drq : BOOLEAN, err : BOOLEAN,
                cmd : {"none", "read", "write"}, at : Nat, left : 0 .. CountMod,
                reg : Data \cup {JUNK}]
    /\ pc \in {"select", "send", "settle", "next", "flush", "done"}
    /\ op \in {"read", "write"}
    /\ lba \in Nat /\ total \in Nat /\ i \in 0 .. total
    /\ buf \in [0 .. (total - 1) -> Data \cup {JUNK}]
    /\ op = "write" => buf \in [0 .. (total - 1) -> Data]
    /\ ret \in {0, - GEN32_INVARG, - TIMEOUT, DISK_READ_ERR, DISK_WRITE_ERR}
    /\ clean \in BOOLEAN

(* The drive shows DRQ, or works, or is idle; it takes a sector only while   *)
(* it works on it, and shows the sector it is at.                            *)
DriveStates ==
    /\ ~ (dev.bsy /\ dev.drq)
    /\ dev.cmd = "none" => ~ dev.bsy /\ (dev.drq => dev.err)
    /\ dev.cmd # "none" => ~ dev.err /\ (dev.bsy \/ dev.drq) /\ dev.left > 0
    /\ Pending => dev.bsy
    /\ dev.cmd = "read" /\ dev.drq => dev.at \in SectorSet /\ dev.reg = media[dev.at]

Commands == {"settle", "next", "flush"}

Checked == pc # "done" \/ ret = 0 => InBounds(lba, total)

StartOfCall == pc \in {"select", "send", "settle"} => i = 0

ReadOnly == pc = "settle" => op = "read"
WriteOnly == pc = "flush" => op = "write" /\ i = total

(* The sectors of a write that the medium should have by now. *)
StoredSoFar == IF Pending THEN i - 1 ELSE i

(* A command sent to a drive that owed nothing. *)
Progress ==
    pc \in Commands /\ clean =>
        /\ sent = Range
        /\ dev.cmd \in {"none", op}
        /\ NoWrap =>
            /\ dev.cmd = "read" /\ i < total => dev.at = lba + i
            /\ op = "read" => \A k \in 0 .. (i - 1) : buf[k] = media[lba + k]
            /\ dev.cmd = "write" /\ i < total => dev.at = lba + StoredSoFar
            /\ Pending => i > 0 /\ dev.at = lba + i - 1 /\ dev.reg = buf[i - 1]
            /\ op = "write" /\ ~ dev.err =>
                  \A k \in 0 .. (StoredSoFar - 1) : media[lba + k] = buf[k]

(* After a call that succeeded nothing is under way to the medium. *)
Settled == pc = "done" /\ ret = 0 /\ clean /\ NoWrap => ~ Pending

(* What is under way is for a sector of the last command, whoever calls now. *)
LateWrite == Pending /\ clean /\ sent \subseteq SectorSet => dev.at \in sent

DiskInv ==
    /\ DriverTypes /\ DriveStates /\ Checked
    /\ StartOfCall /\ ReadOnly /\ WriteOnly
    /\ Progress /\ Settled /\ LateWrite
    /\ ReadExact /\ WriteStored

-----------------------------------------------------------------------------
StreamTypes ==
    /\ pos \in {0} \cup Positions
    /\ spc \in {"idle", "loop", "read"}
    /\ no_bytes \in {0} \cup Counts
    /\ sect \in Nat /\ index \in 0 .. (SectorBytes - 1) /\ count \in Nat
    /\ ram_location \in Seq((Data \cup {JUNK}) \X Nat)
    /\ spoilt \in BOOLEAN

(* Whose call it is. *)
Calling ==
    /\ spc = "loop" => pc = "done"
    /\ spc = "read" => op = "read" /\ lba = sect /\ total = 1 /\ count > 0

Rest == no_bytes - Len(ram_location)

(* The byte the stream is at, and how many sectors hold the rest. *)
Place ==
    spc # "idle" =>
        /\ sect + 1 < WordSize
        /\ Rest >= 0
        /\ Rest > 0 => pos + Len(ram_location) = sect * SectorBytes + index
        /\ count > 0 => Rest > 0 /\ Rest + index > (count - 1) * SectorBytes
        /\ no_bytes <= WordSize - SectorBytes /\ Rest > 0 =>
              Rest + index <= count * SectorBytes

(* The disk does not change under a reader that has some of its bytes. *)
Undisturbed == spc # "idle" /\ ~ spoilt /\ ram_location # <<>> => ~ Pending

StreamInv == DiskInv /\ StreamTypes /\ Calling /\ Place /\ Undisturbed

-----------------------------------------------------------------------------
USE SectorsAssumption, ModAssumption, DataAssumption DEF SectorSet

(* DriverTypes as SMT sees it best. *)
LEMMA DevFields ==
    ASSUME DriverTypes
    PROVE  /\ dev.bsy \in BOOLEAN /\ dev.drq \in BOOLEAN /\ dev.err \in BOOLEAN
           /\ dev.cmd \in {"none", "read", "write"}
           /\ dev.at \in Nat /\ dev.left \in 0 .. CountMod /\ dev.reg \in Data \cup {JUNK}
BY DEF DriverTypes

(* A call whose sum does not wrap and that passed the bounds check is for    *)
(* sectors of the drive, whose numbers the registers carry whole.            *)
LEMMA OnTheDrive ==
    ASSUME lba \in Nat, total \in Nat, InBounds(lba, total), NoWrap
    PROVE  /\ lba + total <= Sectors
           /\ total > 0 => lba % LbaMod = lba
<1>1. (lba + total) % WordSize = lba + total
  BY DEF NoWrap
<1>2. lba + total <= Sectors
  BY <1>1 DEF InBounds
<1> QED BY <1>2

(* Range, the other way round: a call for sectors of the drive only does not *)
(* wrap.                                                                     *)
LEMMA SectorsNoWrap ==
    ASSUME lba \in Nat, total \in Nat, total > 0, Range \subseteq SectorSet
    PROVE  NoWrap
<1>1. lba + total - 1 \in Range
  BY DEF Range
<1> QED BY <1>1 DEF NoWrap

(* The first state. *)
LEMMA DiskInit == Init => DiskInv
BY DEF Init, DiskInv, DriverTypes, DriveStates, Checked, StartOfCall, ReadOnly,
       WriteOnly, Progress, Settled, LateWrite, ReadExact, WriteStored, Idle,
       Pending, Commands, Range, StoredSoFar

(* Steps of others leave the driver and the drive alone. *)
LEMMA DiskStutter == DiskInv /\ UNCHANGED vars => DiskInv'
BY DEF DiskInv, DriverTypes, DriveStates, Checked, StartOfCall, ReadOnly, WriteOnly,
       Progress, Settled, LateWrite, ReadExact, WriteStored, Pending, Commands, Range,
       StoredSoFar, NoWrap, InBounds, vars

(* A call starts: the command before it may still be under way. *)
LEMMA CallKeeps ==
    ASSUME NEW o \in {"read", "write"}, NEW l \in Nat, NEW t \in Nat,
           NEW b \in [0 .. (t - 1) -> Data \cup {JUNK}],
           o = "write" => b \in [0 .. (t - 1) -> Data],
           DiskInv, Call(o, l, t, b)
    PROVE  DiskInv'
<1> USE DEF DiskInv, Call, Return, GEN32_INVARG
<1>1. DriverTypes'
  <2>1. pc' \in {"select", "done"} /\ ret' \in {ret, - GEN32_INVARG}
    BY DEF DriverTypes
  <2>2. op' = o /\ lba' = l /\ total' = t /\ buf' = b /\ i' = 0 /\ i' \in 0 .. t
    OBVIOUS
  <2>3. media' = media /\ dev' = dev /\ clean' = clean
    BY DEF hist
  <2> QED BY <2>1, <2>2, <2>3 DEF DriverTypes
<1>2. DriveStates'
  BY DEF DriveStates, Pending
<1>3. Checked' /\ StartOfCall' /\ ReadOnly' /\ WriteOnly'
  BY DEF Checked, InBounds, StartOfCall, ReadOnly, WriteOnly
<1>4. Progress' /\ Settled' /\ ReadExact' /\ WriteStored'
  BY DEF Progress, Settled, ReadExact, WriteStored, Commands
<1>5. LateWrite'
  BY DEF LateWrite, Pending, hist
<1> QED BY <1>1, <1>2, <1>3, <1>4, <1>5

(* The waits before the command. *)
LEMMA SelectKeeps == DiskInv /\ Select => DiskInv'
BY DEF Select, DiskInv, DriverTypes, DriveStates, Checked, StartOfCall, ReadOnly,
       WriteOnly, Progress, Settled, LateWrite, ReadExact, WriteStored, Pending,
       Commands, InBounds, hist, drv

(* The wait of a read after its command. *)
LEMMA SettleKeeps == DiskInv /\ Settle => DiskInv'
BY DEF Settle, DiskInv, DriverTypes, DriveStates, Checked, StartOfCall, ReadOnly,
       WriteOnly, Progress, Settled, LateWrite, ReadExact, WriteStored, Pending,
       Commands, InBounds, hist, drv, StoredSoFar, Range, NoWrap

(* The command reaches the drive; if that owed nothing, it obeys. *)
LEMMA SendKeeps ==
    ASSUME DiskInv, Send
    PROVE  DiskInv'
<1> USE DEF DiskInv, Send, drv
<1> DEFINE S == Started(op, lba % LbaMod, total % CountMod)
<1>0. DriverTypes /\ DriveStates /\ i = 0 /\ InBounds(lba, total)
  BY DEF StartOfCall, Checked
<1>1. /\ S \in [bsy : BOOLEAN, drq : BOOLEAN, err : BOOLEAN,
                cmd : {"none", "read", "write"}, at : Nat, left : 0 .. CountMod,
                reg : Data \cup {JUNK}]
      /\ S.bsy /\ ~ S.drq /\ ~ S.err /\ S.cmd = op /\ S.at = lba % LbaMod
      /\ S.reg = JUNK /\ S.left > 0
  <2>1. lba % LbaMod \in Nat /\ total % CountMod \in 0 .. CountMod
    BY DEF DriverTypes
  <2> QED BY <2>1 DEF Started, DriverTypes
<1>2. dev' = S \/ (dev' = dev /\ dev.drq)
  <2>1. dev' \in Commanded(op, lba % LbaMod, total % CountMod)
    OBVIOUS
  <2> HIDE DEF Send, DiskInv
  <2>2. CASE dev.drq
    BY <2>1, <2>2 DEF Commanded
  <2>3. CASE ~ dev.drq
    BY <2>1, <2>3 DEF Commanded
  <2> QED BY <2>2, <2>3
<1>3. clean' = ~ dev.drq /\ sent' = Range /\ pc' \in {"settle", "next"}
      /\ (pc' = "settle" => op = "read")
  OBVIOUS
<1> HIDE DEF S
<1>4. ~ Pending'
  BY <1>0, <1>1, <1>2 DEF Pending, DriveStates
<1>5. DriverTypes'
  BY <1>0, <1>1, <1>2, <1>3, DevFields DEF DriverTypes
<1>6. DriveStates'
  BY <1>0, <1>1, <1>2, <1>4 DEF DriveStates, DriverTypes, Pending
<1>7. Checked' /\ StartOfCall' /\ ReadOnly' /\ WriteOnly'
  BY <1>0, <1>3 DEF Checked, InBounds, StartOfCall, ReadOnly, WriteOnly
<1>8. Settled' /\ LateWrite' /\ ReadExact' /\ WriteStored'
  BY <1>3, <1>4 DEF Settled, LateWrite, ReadExact, WriteStored
<1>9. Progress'
  <2>1. SUFFICES ASSUME clean' PROVE Progress'
    BY DEF Progress
  <2>2. dev' = S
    BY <1>2, <1>3, <2>1
  <2>3. ASSUME NoWrap' PROVE i' < total' => dev'.at = lba' + i'
    BY <1>0, <1>1, <2>2, <2>3, OnTheDrive DEF NoWrap, DriverTypes
  <2>4. StoredSoFar' = 0
    BY <1>0, <1>4 DEF StoredSoFar
  <2>5. sent' = Range' /\ dev'.cmd \in {"none", op'}
    BY <1>1, <1>3, <2>2 DEF Range
  <2> QED BY <1>0, <1>4, <2>3, <2>4, <2>5 DEF Progress
<1> QED BY <1>5, <1>6, <1>7, <1>8, <1>9

(* A sector is taken from the data port: of a clean transfer, the one the    *)
(* loop is at.                                                               *)
LEMMA ReadSectorKeeps ==
    ASSUME DiskInv, ReadSector
    PROVE  DiskInv'
<1> USE DEF DiskInv, ReadSector, DataReady, drv, hist
<1>0. /\ DriverTypes /\ DriveStates /\ pc = "next" /\ op = "read" /\ i < total
      /\ ~ dev.bsy /\ dev.drq /\ ~ dev.err /\ i \in Nat /\ i + 1 \in 0 .. total
      /\ i' = i + 1 /\ buf' = [buf EXCEPT ![i] = dev.reg] /\ dev' = Drained
  BY DEF DriverTypes
<1>1. dev.cmd # "none"
  BY <1>0 DEF DriveStates
<1>2. /\ dev' \in [bsy : BOOLEAN, drq : BOOLEAN, err : BOOLEAN,
                   cmd : {"none", "read", "write"}, at : Nat, left : 0 .. CountMod,
                   reg : Data \cup {JUNK}]
      /\ ~ Pending'
      /\ DriveStates'
  <2>1. CASE dev.cmd = "write"
    BY <1>0, <2>1 DEF Drained, Pending, DriveStates, DriverTypes
  <2>2. CASE dev.cmd = "read" /\ dev.left = 1
    BY <1>0, <2>2 DEF Drained, Pending, DriveStates, DriverTypes, Idle
  <2>3. CASE dev.cmd = "read" /\ dev.left # 1
    <3>1. dev' = [dev EXCEPT !.bsy = TRUE, !.drq = FALSE, !.reg = JUNK,
                             !.at = @ + 1, !.left = @ - 1]
      BY <1>0, <2>3 DEF Drained
    <3>2. dev.at + 1 \in Nat /\ dev.left - 1 \in 1 .. CountMod
      <4>1. dev.left \in 1 .. CountMod
        BY <1>0, <1>1, DevFields DEF DriveStates
      <4> QED BY <1>0, <2>3, <4>1, DevFields
    <3> HIDE DEF DiskInv, ReadSector
    <3>3. /\ dev' \in [bsy : BOOLEAN, drq : BOOLEAN, err : BOOLEAN,
                       cmd : {"none", "read", "write"}, at : Nat, left : 0 .. CountMod,
                       reg : Data \cup {JUNK}]
          /\ dev'.bsy /\ ~ dev'.drq /\ dev'.err = dev.err /\ dev'.cmd = "read"
          /\ dev'.reg = JUNK /\ dev'.left > 0
      <4>1. dev.left - 1 \in 0 .. CountMod /\ dev.left - 1 > 0
        BY <3>2, DevFields, <1>0
      <4> QED BY <1>0, <2>3, <3>1, <3>2, <4>1 DEF DriverTypes
    <3> QED BY <1>0, <3>3 DEF Pending, DriveStates
  <2> QED BY <1>0, <1>1, <2>1, <2>2, <2>3, DevFields
<1>3. DriverTypes'
  <2>1. buf' \in [0 .. (total - 1) -> Data \cup {JUNK}]
    BY <1>0, DevFields DEF DriverTypes
  <2> QED BY <1>0, <1>2, <2>1 DEF DriverTypes
<1>4. Checked' /\ StartOfCall' /\ ReadOnly' /\ WriteOnly'
  BY <1>0 DEF Checked, InBounds, StartOfCall, ReadOnly, WriteOnly
<1>5. Settled' /\ LateWrite' /\ ReadExact' /\ WriteStored'
  BY <1>0, <1>2 DEF Settled, LateWrite, ReadExact, WriteStored
<1>6. Progress'
  <2>1. SUFFICES ASSUME clean PROVE Progress'
    BY DEF Progress
  <2>2. dev.cmd = "read" /\ sent = Range
    BY <1>0, <1>1, <2>1 DEF Progress, Commands
  <2>3. dev'.cmd \in {"none", "read"} /\ (dev'.cmd = "read" => dev'.at = dev.at + 1)
    BY <1>0, <2>2, DevFields DEF Drained, Idle, DriverTypes
  <2>4. sent' = Range' /\ op' = "read" /\ dev'.cmd # "write"
    BY <1>0, <2>2, <2>3 DEF Range
  <2>5. ASSUME NoWrap
        PROVE  /\ dev'.cmd = "read" => dev'.at = lba + i'
               /\ \A k \in 0 .. (i' - 1) : buf'[k] = media[lba + k]
    <3>1. dev.at = lba + i /\ \A k \in 0 .. (i - 1) : buf[k] = media[lba + k]
      BY <1>0, <2>1, <2>2, <2>5 DEF Progress, Commands
    <3>2. dev.reg = media[lba + i]
      BY <1>0, <2>2, <3>1 DEF DriveStates
    <3>3. ASSUME NEW k \in 0 .. (i' - 1) PROVE buf'[k] = media[lba + k]
      BY <1>0, <3>1, <3>2, <3>3 DEF DriverTypes
    <3> QED BY <1>0, <2>3, <3>1, <3>3 DEF DriverTypes
  <2> QED BY <1>0, <1>2, <2>3, <2>4, <2>5 DEF Progress, NoWrap, Range
<1> QED BY <1>2, <1>3, <1>4, <1>5, <1>6

(* A sector is given to the drive, which will store it where the loop is. *)
LEMMA WriteSectorKeeps ==
    ASSUME DiskInv, WriteSector
    PROVE  DiskInv'
<1> USE DEF DiskInv, WriteSector, DataReady, drv, hist
<1>0. /\ DriverTypes /\ DriveStates /\ pc = "next" /\ op = "write" /\ i < total
      /\ ~ dev.bsy /\ dev.drq /\ ~ dev.err /\ i \in Nat /\ i + 1 \in 0 .. total
      /\ i' = i + 1 /\ dev' = Filled(buf[i]) /\ buf[i] \in Data
  BY DEF DriverTypes
<1>1. dev.cmd # "none" /\ ~ Pending
  BY <1>0 DEF DriveStates
<1>2. /\ dev' \in [bsy : BOOLEAN, drq : BOOLEAN, err : BOOLEAN,
                   cmd : {"none", "read", "write"}, at : Nat, left : 0 .. CountMod,
                   reg : Data \cup {JUNK}]
      /\ DriveStates'
      /\ Pending' => dev.cmd = "write"
  <2>1. CASE dev.cmd = "write"
    BY <1>0, <2>1, DevFields DEF Filled, Pending, DriveStates, DriverTypes
  <2>2. CASE dev.cmd # "write"
    BY <1>0, <2>2 DEF Filled, Pending, DriveStates, DriverTypes
  <2> QED BY <2>1, <2>2
<1>3. DriverTypes'
  BY <1>0, <1>2 DEF DriverTypes
<1>4. Checked' /\ StartOfCall' /\ ReadOnly' /\ WriteOnly'
  BY <1>0 DEF Checked, InBounds, StartOfCall, ReadOnly, WriteOnly
<1>5. Settled' /\ ReadExact' /\ WriteStored'
  BY <1>0 DEF Settled, ReadExact, WriteStored
<1>6. ASSUME clean
      PROVE  /\ dev.cmd = "write" /\ sent = Range
             /\ dev'.cmd = "write" /\ dev'.reg = buf[i] /\ dev'.at = dev.at
             /\ Pending' /\ StoredSoFar' = i /\ StoredSoFar = i
             /\ NoWrap => dev.at = lba + i
  <2>1. dev.cmd = "write" /\ sent = Range /\ (NoWrap => dev.at = lba + StoredSoFar)
    BY <1>0, <1>1, <1>6 DEF Progress, Commands
  <2>2. dev' = [dev EXCEPT !.bsy = TRUE, !.drq = FALSE, !.reg = buf[i]]
    BY <1>0, <2>1 DEF Filled
  <2>3. dev'.cmd = "write" /\ dev'.reg = buf[i] /\ dev'.at = dev.at
    BY <2>1, <2>2 DEF DriverTypes
  <2>4. Pending'
    BY <1>0, <2>3 DEF Pending
  <2> QED BY <1>0, <1>1, <2>1, <2>3, <2>4 DEF StoredSoFar
<1>7. LateWrite'
  <2>1. SUFFICES ASSUME clean, Range \subseteq SectorSet PROVE dev.at \in Range
    BY <1>6 DEF LateWrite
  <2>2. NoWrap
    BY <1>0, <2>1, SectorsNoWrap DEF DriverTypes
  <2> QED BY <1>0, <1>6, <2>1, <2>2 DEF Range, DriverTypes
<1>8. Progress'
  <2>1. SUFFICES ASSUME clean PROVE Progress'
    BY DEF Progress
  <2>2. sent' = Range' /\ op' = "write" /\ dev'.cmd = "write"
    BY <1>0, <1>6, <2>1 DEF Range
  <2>3. ASSUME NoWrap
        PROVE  /\ dev'.at = lba + i' - 1 /\ dev'.at = lba + StoredSoFar'
               /\ \A k \in 0 .. (StoredSoFar' - 1) : media[lba + k] = buf[k]
    BY <1>0, <1>6, <2>1, <2>3 DEF Progress, Commands, DriverTypes
  <2> QED BY <1>0, <1>6, <2>1, <2>2, <2>3 DEF Progress, NoWrap, Range
<1> QED BY <1>2, <1>3, <1>4, <1>5, <1>7, <1>8

(* The ways out that report a failure. *)
LEMMA FailureKeeps ==
    ASSUME DiskInv, SectorError \/ TimeOut
    PROVE  DiskInv'
<1>1. /\ pc' = "done" /\ ret' \in {- TIMEOUT, DISK_READ_ERR, DISK_WRITE_ERR} /\ ret' # 0
      /\ UNCHANGED <<media, dev, op, lba, total, i, buf, clean, sent>>
  BY DEF SectorError, TimeOut, Return, TIMEOUT, DISK_READ_ERR, DISK_WRITE_ERR, drv, hist
<1> QED
  BY <1>1 DEF DiskInv, DriverTypes, DriveStates, Checked, StartOfCall, ReadOnly,
         WriteOnly, Progress, Settled, LateWrite, ReadExact, WriteStored, Pending, Commands

(* All sectors of a read have been taken. *)
LEMMA ReadDoneKeeps ==
    ASSUME DiskInv, ReadDone
    PROVE  DiskInv'
<1> USE DEF DiskInv, ReadDone, Return, drv, hist
<1>0. DriverTypes /\ DriveStates /\ pc = "next" /\ op = "read" /\ i = total
  BY DEF DriverTypes
<1>1. DriverTypes'
  BY DEF DriverTypes
<1>2. DriveStates' /\ Checked' /\ StartOfCall' /\ ReadOnly' /\ WriteOnly' /\ LateWrite'
  BY DEF DriveStates, Checked, StartOfCall, ReadOnly, WriteOnly, LateWrite, Pending
<1>3. Progress' /\ WriteStored'
  BY <1>0 DEF Progress, WriteStored, Commands
<1>4. Settled'
  BY <1>0 DEF Settled, Progress, Commands, Pending
<1>5. ReadExact'
  BY <1>0 DEF ReadExact, Progress, Commands, NoWrap
<1> QED BY <1>1, <1>2, <1>3, <1>4, <1>5

(* All sectors of a write have been given to the drive. *)
LEMMA WriteLoopDoneKeeps ==
    ASSUME DiskInv, WriteLoopDone
    PROVE  DiskInv'
<1> USE DEF DiskInv, WriteLoopDone, drv, hist
<1>0. DriverTypes /\ pc = "next" /\ op = "write" /\ i = total
  BY DEF DriverTypes
<1>1. DriverTypes'
  BY DEF DriverTypes
<1>2. DriveStates' /\ Checked' /\ StartOfCall' /\ ReadOnly' /\ WriteOnly' /\ LateWrite'
  BY <1>0 DEF DriveStates, Checked, InBounds, StartOfCall, ReadOnly, WriteOnly, LateWrite,
              Pending
<1>3. Settled' /\ ReadExact' /\ WriteStored'
  BY DEF Settled, ReadExact, WriteStored
<1>4. Progress'
  BY <1>0 DEF Progress, Commands, NoWrap, Range, StoredSoFar, Pending
<1> QED BY <1>1, <1>2, <1>3, <1>4

(* The last sector of a write has been stored, or the drive shows an error. *)
LEMMA WriteDoneKeeps ==
    ASSUME DiskInv, WriteDone
    PROVE  DiskInv'
<1> USE DEF DiskInv, WriteDone, Return, drv, hist, DISK_WRITE_ERR
<1>0. /\ DriverTypes /\ pc = "flush" /\ op = "write" /\ i = total
      /\ ~ Pending /\ StoredSoFar = i
  BY DEF WriteOnly, DriveStates, StoredSoFar
<1>1. DriverTypes'
  BY DEF DriverTypes
<1>2. DriveStates' /\ Checked' /\ StartOfCall' /\ ReadOnly' /\ WriteOnly' /\ LateWrite'
  BY DEF DriveStates, Checked, StartOfCall, ReadOnly, WriteOnly, LateWrite, Pending
<1>3. Progress' /\ ReadExact'
  BY <1>0 DEF Progress, ReadExact, Commands
<1>4. Settled'
  BY <1>0 DEF Settled, Pending
<1>5. WriteStored'
  BY <1>0 DEF WriteStored, Progress, Commands, NoWrap
<1> QED BY <1>1, <1>2, <1>3, <1>4, <1>5

(* The drive gives up: what it had not stored is lost, and ERR says so. *)
LEMMA DevErrorKeeps ==
    ASSUME DiskInv, DevError
    PROVE  DiskInv'
<1> USE DEF DiskInv, DevError, drv, hist
<1>1. PICK drq \in BOOLEAN : dev' = [Idle(TRUE) EXCEPT !.drq = drq]
  OBVIOUS
<1>2. /\ dev' \in [bsy : BOOLEAN, drq : BOOLEAN, err : BOOLEAN,
                   cmd : {"none", "read", "write"}, at : Nat, left : 0 .. CountMod,
                   reg : Data \cup {JUNK}]
      /\ ~ dev'.bsy /\ dev'.err /\ dev'.cmd = "none" /\ dev'.reg = JUNK
  <2>1. dev' = [bsy |-> FALSE, drq |-> drq, err |-> TRUE, cmd |-> "none",
                at |-> 0, left |-> 0, reg |-> JUNK]
    BY <1>1 DEF Idle
  <2> HIDE DEF DiskInv, DevError
  <2> QED BY <2>1
<1>3. ~ Pending'
  BY <1>2 DEF Pending
<1>4. DriverTypes' /\ DriveStates'
  BY <1>2, <1>3 DEF DriverTypes, DriveStates
<1>5. Checked' /\ StartOfCall' /\ ReadOnly' /\ WriteOnly'
  BY DEF Checked, InBounds, StartOfCall, ReadOnly, WriteOnly
<1>6. Settled' /\ LateWrite' /\ ReadExact' /\ WriteStored'
  BY <1>3 DEF Settled, LateWrite, ReadExact, WriteStored, NoWrap
<1>7. Progress'
  BY <1>2, <1>3 DEF Progress, Commands, Range, NoWrap
<1> QED BY <1>4, <1>5, <1>6, <1>7

(* The drive shows DRQ; in a write it has stored what it was given. *)
LEMMA DevReadyKeeps ==
    ASSUME DiskInv, DevReady
    PROVE  DiskInv'
<1> USE DEF DiskInv, drv, hist
<1>0. /\ DriverTypes /\ DriveStates /\ dev.bsy
      /\ UNCHANGED <<pc, op, lba, total, i, buf, ret, clean, sent>>
  BY DEF DevReady
<1>5. Checked' /\ StartOfCall' /\ ReadOnly' /\ WriteOnly'
  BY <1>0 DEF Checked, InBounds, StartOfCall, ReadOnly, WriteOnly
<1>1. ASSUME UNCHANGED media, ~ Pending, DriverTypes', DriveStates', ~ Pending',
             dev'.cmd = dev.cmd, dev'.at = dev.at, dev'.err = dev.err
      PROVE  DiskInv'
  <2>1. Settled' /\ LateWrite' /\ ReadExact' /\ WriteStored'
    BY <1>0, <1>1 DEF Settled, LateWrite, ReadExact, WriteStored, NoWrap
  <2>2. Progress'
    BY <1>0, <1>1 DEF Progress, Commands, Range, NoWrap, StoredSoFar
  <2> QED BY <1>1, <1>5, <2>1, <2>2
<1>2. CASE /\ dev.cmd = "read" /\ dev.at \in SectorSet
           /\ dev' = [dev EXCEPT !.bsy = FALSE, !.drq = TRUE, !.reg = media[dev.at]]
           /\ UNCHANGED media
  <2>1. media[dev.at] \in Data
    BY <1>0, <1>2 DEF DriverTypes
  <2>2. DriverTypes'
    BY <1>0, <1>2, <2>1 DEF DriverTypes
  <2>3. /\ ~ dev'.bsy /\ dev'.drq /\ dev'.cmd = "read" /\ dev'.at = dev.at
        /\ dev'.err = dev.err /\ dev'.reg = media[dev.at]
    BY <1>0, <1>2 DEF DriverTypes
  <2>4. DriveStates' /\ ~ Pending' /\ ~ Pending
    BY <1>0, <1>2, <2>3 DEF DriveStates, Pending
  <2> QED BY <1>1, <1>2, <2>2, <2>3, <2>4
<1>3. CASE /\ dev.cmd = "write" /\ dev.reg = JUNK
           /\ dev' = [dev EXCEPT !.bsy = FALSE, !.drq = TRUE]
           /\ UNCHANGED media
  <2>2. DriverTypes'
    BY <1>0, <1>3 DEF DriverTypes
  <2>3. /\ ~ dev'.bsy /\ dev'.drq /\ dev'.cmd = "write" /\ dev'.at = dev.at
        /\ dev'.err = dev.err /\ dev'.reg = JUNK
    BY <1>0, <1>3 DEF DriverTypes
  <2>4. DriveStates' /\ ~ Pending' /\ ~ Pending
    BY <1>0, <1>3, <2>3 DEF DriveStates, Pending
  <2> QED BY <1>1, <1>3, <2>2, <2>3, <2>4
<1>4. CASE /\ dev.cmd = "write" /\ dev.reg # JUNK /\ dev.at \in SectorSet
           /\ media' = [media EXCEPT ![dev.at] = dev.reg]
           /\ dev' = IF dev.left = 1
                     THEN Idle(FALSE)
                     ELSE [dev EXCEPT !.bsy = FALSE, !.drq = TRUE, !.reg = JUNK,
                                      !.at = @ + 1, !.left = @ - 1]
  <2>1. /\ dev' \in [bsy : BOOLEAN, drq : BOOLEAN, err : BOOLEAN,
                     cmd : {"none", "read", "write"}, at : Nat, left : 0 .. CountMod,
                     reg : Data \cup {JUNK}]
        /\ ~ dev'.bsy /\ ~ dev'.err /\ dev'.reg = JUNK
        /\ \/ dev'.cmd = "none" /\ ~ dev'.drq
           \/ dev'.cmd = "write" /\ dev'.drq /\ dev'.at = dev.at + 1 /\ dev'.left > 0
    <3>1. CASE dev.left = 1
      BY <1>4, <3>1 DEF Idle
    <3>2. CASE dev.left # 1
      <4>1. dev' = [dev EXCEPT !.bsy = FALSE, !.drq = TRUE, !.reg = JUNK,
                               !.at = @ + 1, !.left = @ - 1]
        BY <1>4, <3>2
      <4>2. /\ dev.at + 1 \in Nat /\ ~ dev.err
            /\ dev.left - 1 \in 0 .. CountMod /\ dev.left - 1 > 0
        <5>1. dev.left \in 1 .. CountMod /\ ~ dev.err
          BY <1>0, <1>4, DevFields DEF DriveStates
        <5> QED BY <1>0, <3>2, <5>1, DevFields
      <4> HIDE DEF DiskInv
      <4> QED BY <1>0, <1>4, <4>1, <4>2 DEF DriverTypes
    <3> QED BY <3>1, <3>2
  <2>2. ~ Pending' /\ DriveStates' /\ Pending
    BY <1>4, <2>1 DEF Pending, DriveStates
  <2>3. dev.reg \in Data
    BY <1>0, <1>4, DevFields
  <2>4. DriverTypes'
    BY <1>0, <1>4, <2>1, <2>3 DEF DriverTypes
  <2>5. Settled' /\ LateWrite' /\ ReadExact' /\ WriteStored'
    <3>1. pc = "done" /\ ret = 0 /\ clean /\ NoWrap => FALSE
      BY <2>2 DEF Settled
    <3> QED BY <1>0, <2>2, <3>1 DEF Settled, LateWrite, ReadExact, WriteStored, NoWrap
  <2>6. Progress'
    <3>1. SUFFICES ASSUME pc \in Commands, clean PROVE Progress'
      BY <1>0 DEF Progress, Commands
    <3>2. sent = Range /\ op = "write"
      BY <1>4, <3>1 DEF Progress
    <3>3. StoredSoFar = i - 1 /\ StoredSoFar' = i
      BY <1>0, <2>2 DEF StoredSoFar
    <3>4. ASSUME NoWrap
          PROVE  /\ dev'.cmd = "write" => dev'.at = lba + i
                 /\ \A k \in 0 .. (i - 1) : media'[lba + k] = buf[k]
      <4>1. /\ dev.at = lba + i - 1 /\ i > 0 /\ dev.reg = buf[i - 1]
            /\ \A k \in 0 .. (i - 2) : media[lba + k] = buf[k]
        BY <1>0, <1>4, <2>2, <3>1, <3>2, <3>3, <3>4, DevFields
           DEF Progress, DriveStates, DriverTypes
      <4>2. ASSUME NEW k \in 0 .. (i - 1) PROVE media'[lba + k] = buf[k]
        <5>1. lba \in Nat /\ i \in Nat /\ media \in [SectorSet -> Data]
          BY <1>0 DEF DriverTypes
        <5>2. lba + k \in SectorSet
          BY <1>4, <4>1, <4>2, <5>1
        <5> HIDE DEF DiskInv
        <5>3. CASE k = i - 1
          BY <1>4, <4>1, <5>1, <5>2, <5>3
        <5>4. CASE k # i - 1
          <6>1. k \in 0 .. (i - 2) /\ lba + k # dev.at
            BY <4>1, <4>2, <5>1, <5>4
          <6> QED BY <1>4, <4>1, <5>1, <5>2, <6>1
        <5> QED BY <5>3, <5>4
      <4>3. lba + i - 1 + 1 = lba + i
        BY <1>0 DEF DriverTypes
      <4> QED BY <2>1, <4>1, <4>2, <4>3
    <3> QED BY <1>0, <2>1, <2>2, <3>2, <3>3, <3>4 DEF Progress, NoWrap, Range
  <2> QED BY <1>5, <2>2, <2>4, <2>5, <2>6
<1> QED BY <1>2, <1>3, <1>4 DEF DevReady

(* Every step of driver and drive. *)
LEMMA DriverKeeps ==
    ASSUME DiskInv, Driver \/ Device
    PROVE  DiskInv'
BY SelectKeeps, SendKeeps, SettleKeeps, ReadSectorKeeps, WriteSectorKeeps, FailureKeeps,
   ReadDoneKeeps, WriteLoopDoneKeeps, WriteDoneKeeps, DevReadyKeeps, DevErrorKeeps
   DEF Driver, Device

(* Only the loop of a write gives the drive something to store, and the      *)
(* medium changes only when the drive stores it.                             *)
LEMMA NothingToStore ==
    ASSUME DiskInv, Driver \/ Device, ~ Pending, op = "read" \/ pc = "done"
    PROVE  ~ Pending' /\ media' = media
<1> USE DEF DiskInv
<1>1. DriverTypes /\ DriveStates
  OBVIOUS
<1>2. CASE Select \/ Settle \/ SectorError \/ ReadDone \/ WriteLoopDone \/ WriteDone \/ TimeOut
  BY <1>2 DEF Select, Settle, SectorError, ReadDone, WriteLoopDone, WriteDone, TimeOut, Pending
<1>3. CASE Send
  <2>1. dev' \in Commanded(op, lba % LbaMod, total % CountMod) /\ media' = media
    BY <1>3 DEF Send
  <2>2. dev' = dev \/ dev' = Started(op, lba % LbaMod, total % CountMod)
    BY <2>1 DEF Commanded
  <2> QED BY <2>1, <2>2 DEF Started, Pending
<1>4. CASE ReadSector
  <2>1. dev' = Drained /\ media' = media
    BY <1>4 DEF ReadSector
  <2>2. dev' = dev \/ dev'.reg = JUNK
    BY <1>1, <2>1 DEF Drained, Idle, DriverTypes
  <2> QED BY <2>1, <2>2 DEF Pending
<1>5. CASE WriteSector
  BY <1>5 DEF WriteSector
<1>6. CASE DevReady
  <2>1. dev.cmd = "read" \/ dev.reg = JUNK
    BY <1>6 DEF DevReady, Pending
  <2>2. /\ media' = media
        /\ \/ dev' = [dev EXCEPT !.bsy = FALSE, !.drq = TRUE, !.reg = media[dev.at]]
              /\ dev.cmd = "read"
           \/ dev' = [dev EXCEPT !.bsy = FALSE, !.drq = TRUE] /\ dev.reg = JUNK
    BY <1>6, <2>1 DEF DevReady
  <2>3. dev'.cmd = "read" \/ dev'.reg = JUNK
    BY <1>1, <2>2 DEF DriverTypes
  <2> QED BY <2>2, <2>3 DEF Pending
<1>7. CASE DevError
  <2>1. dev'.reg = JUNK /\ media' = media
    BY <1>7 DEF DevError, Idle
  <2> QED BY <2>1 DEF Pending
<1> QED BY <1>2, <1>3, <1>4, <1>5, <1>6, <1>7 DEF Driver, Device

-----------------------------------------------------------------------------
(* Places on the disk. *)
USE SectorBytesAssumption, StreamArgsAssumption

(* A byte's sector and its place in it, and back. *)
LEMMA SectorOf ==
    ASSUME NEW b \in Nat
    PROVE  /\ b \div SectorBytes \in Nat
           /\ b % SectorBytes \in 0 .. (SectorBytes - 1)
           /\ b = (b \div SectorBytes) * SectorBytes + (b % SectorBytes)
OBVIOUS

(* A place in a sector names its byte. *)
LEMMA ByteAt ==
    ASSUME NEW q \in Nat, NEW r \in 0 .. (SectorBytes - 1)
    PROVE  /\ (q * SectorBytes + r) \div SectorBytes = q
           /\ (q * SectorBytes + r) % SectorBytes = r
<1> DEFINE b == q * SectorBytes + r
<1>1. PICK p : p = q * SectorBytes
  OBVIOUS
<1>2. b \in Nat
  OBVIOUS
<1>3. PICK d \in Nat, x \in 0 .. (SectorBytes - 1) :
          d = b \div SectorBytes /\ x = b % SectorBytes /\ b = d * SectorBytes + x
  BY <1>2, SectorOf
<1>4. (d - q) * SectorBytes = r - x
  BY <1>3
<1>5. d = q
  BY <1>3, <1>4
<1> QED BY <1>3, <1>5

(* Lengths of what is copied. *)
LEMMA PieceLength ==
    ASSUME NEW S, NEW m \in Nat, NEW f \in [1 .. m -> S]
    PROVE  f \in Seq(S) /\ Len(f) = m
OBVIOUS

(* The bytes had and the bytes copied, together. *)
LEMMA JoinedLength ==
    ASSUME NEW S, NEW s \in Seq(S), NEW u \in Seq(S)
    PROVE  s \o u \in Seq(S) /\ Len(s \o u) = Len(s) + Len(u) /\ Len(s) \in Nat
OBVIOUS

(* At first there are none. *)
LEMMA NoBytes == <<>> \in Seq((Data \cup {JUNK}) \X Nat) /\ Len(<<>>) = 0
<1>1. \A S : <<>> \in Seq(S)
  OBVIOUS
<1> QED BY <1>1

(* SectorCount: enough sectors and not one too many, unless the sum wraps;   *)
(* then too few.                                                             *)
LEMMA SectorsNeeded ==
    ASSUME NEW n \in Nat, n > 0, NEW x \in 0 .. (SectorBytes - 1)
    PROVE  /\ SectorCount(n, x) \in Nat
           /\ SectorCount(n, x) > 0 => n + x > (SectorCount(n, x) - 1) * SectorBytes
           /\ n <= WordSize - SectorBytes => n + x <= SectorCount(n, x) * SectorBytes
<1> DEFINE sum == (n + x) % WordSize
           q   == sum \div SectorBytes
           r   == sum % SectorBytes
<1>1. sum \in Nat /\ sum <= n + x
  <2>1. n + x \in Nat /\ WordSize \in Nat \ {0}
    OBVIOUS
  <2> QED BY <2>1
<1>2. n <= WordSize - SectorBytes => sum = n + x
  OBVIOUS
<1> HIDE DEF sum
<1>3. q \in Nat /\ r \in 0 .. (SectorBytes - 1) /\ sum = q * SectorBytes + r
  BY <1>1, SectorOf
<1>4. SectorCount(n, x) = q + (IF r # 0 THEN 1 ELSE 0)
  BY DEF SectorCount, sum
<1> HIDE DEF q, r
<1>5. CASE r = 0
  <2>1. SectorCount(n, x) = q
    BY <1>3, <1>4, <1>5
  <2>2. (q - 1) * SectorBytes = q * SectorBytes - SectorBytes
    BY <1>3
  <2>3. (q - 1) * SectorBytes < sum
    BY <1>1, <1>3, <1>5, <2>2
  <2> QED BY <1>1, <1>2, <1>3, <1>5, <2>1, <2>3
<1>6. CASE r # 0
  <2>1. SectorCount(n, x) = q + 1
    BY <1>3, <1>4, <1>6
  <2>2. (q + 1) * SectorBytes = q * SectorBytes + SectorBytes /\ q + 1 - 1 = q
    BY <1>3
  <2>3. q * SectorBytes < sum /\ sum <= (q + 1) * SectorBytes
    BY <1>1, <1>3, <1>6, <2>2
  <2> QED BY <1>1, <1>2, <1>3, <2>1, <2>2, <2>3
<1> QED BY <1>5, <1>6

-----------------------------------------------------------------------------
(* The stream's steps. *)

(* init_disk_stream. *)
LEMMA StreamStart == StreamInit => StreamInv
<1> SUFFICES ASSUME StreamInit PROVE StreamInv
  OBVIOUS
<1>1. DiskInv
  BY DiskInit DEF StreamInit
<1>2. StreamTypes
  <2>1. /\ pos = 0 /\ spc = "idle" /\ no_bytes = 0 /\ sect = 0 /\ index = 0 /\ count = 0
        /\ spoilt = FALSE /\ 0 \in 0 .. (SectorBytes - 1)
    BY DEF StreamInit
  <2>2. ram_location \in Seq((Data \cup {JUNK}) \X Nat)
    BY NoBytes DEF StreamInit
  <2> QED BY <2>1, <2>2 DEF StreamTypes
<1> QED BY <1>1, <1>2 DEF StreamInv, StreamInit, Calling, Place, Undisturbed

(* Nothing happens. *)
LEMMA StreamStutter == StreamInv /\ UNCHANGED svars => StreamInv'
BY DiskStutter DEF StreamInv, StreamTypes, Calling, Place, Undisturbed, svars, stream, vars,
                   Rest, Pending

(* The driver and the drive at work. *)
LEMMA DriverStep ==
    ASSUME StreamInv, Driver \/ Device, UNCHANGED stream
    PROVE  StreamInv'
<1> USE DEF StreamInv, stream
<1>1. DiskInv'
  BY DriverKeeps
<1>2. StreamTypes' /\ Place'
  BY DEF StreamTypes, Place, Rest
<1>3. /\ op' = op /\ lba' = lba /\ total' = total
      /\ pc = "done" => pc' = "done"
  BY DEF Driver, Device, Select, Send, Settle, ReadSector, WriteSector, SectorError, ReadDone,
         WriteLoopDone, WriteDone, TimeOut, GivesUp, DevReady, DevError, drv
<1>4. Calling'
  BY <1>3 DEF Calling
<1>5. Undisturbed'
  <2>1. SUFFICES ASSUME spc # "idle", ~ spoilt, ram_location # <<>> PROVE ~ Pending'
    BY DEF Undisturbed
  <2>2. ~ Pending /\ (op = "read" \/ pc = "done")
    BY <2>1 DEF Undisturbed, Calling, StreamTypes
  <2> QED BY <2>2, NothingToStore
<1> QED BY <1>1, <1>2, <1>4, <1>5

(* Between requests. *)
LEMMA SeekStep ==
    ASSUME StreamInv, NEW p \in Positions, disk_stream_seek(p)
    PROVE  StreamInv'
<1> USE DEF StreamInv, disk_stream_seek
<1>1. DiskInv'
  BY DiskStutter
<1> QED BY <1>1 DEF StreamTypes, Calling, Place, Undisturbed

(* A call of read_disk_block and what it is for. *)
LEMMA ReadArgs ==
    ASSUME DiskInv, NEW l \in Nat, NEW t \in Nat, read_disk_block(l, t)
    PROVE  DiskInv' /\ op' = "read" /\ lba' = l /\ total' = t /\ UNCHANGED <<media, dev>>
<1>1. [k \in 0 .. (t - 1) |-> JUNK] \in [0 .. (t - 1) -> Data \cup {JUNK}]
  OBVIOUS
<1>2. Call("read", l, t, [k \in 0 .. (t - 1) |-> JUNK])
  BY DEF read_disk_block
<1>3. DiskInv'
  BY <1>1, <1>2, CallKeeps
<1> QED BY <1>2, <1>3 DEF Call

(* A call of the driver by someone else. *)
LEMMA OtherStep ==
    ASSUME StreamInv, OtherCall
    PROVE  StreamInv'
<1> USE DEF StreamInv, OtherCall
<1>1. PICK l \in Lbas, t \in Totals : read_disk_block(l, t) \/ write_disk_block(l, t)
  OBVIOUS
<1>2. l \in Nat /\ t \in Nat
  BY CallArgsAssumption
<1>5. StreamTypes'
  <2>1. /\ no_bytes' = 0 /\ sect' = 0 /\ index' = 0 /\ count' = 0 /\ spoilt' = FALSE
        /\ pos' = pos /\ spc' = spc /\ 0 \in 0 .. (SectorBytes - 1)
    OBVIOUS
  <2>2. ram_location' \in Seq((Data \cup {JUNK}) \X Nat)
    BY NoBytes
  <2>3. pos \in {0} \cup Positions /\ spc \in {"idle", "loop", "read"}
    BY DEF StreamTypes
  <2> HIDE DEF StreamInv, OtherCall
  <2> QED BY <2>1, <2>2, <2>3 DEF StreamTypes
<1>6. Calling' /\ Place' /\ Undisturbed'
  BY DEF Calling, Place, Undisturbed
<1>3. CASE read_disk_block(l, t)
  <2>1. DiskInv'
    BY <1>2, <1>3, ReadArgs
  <2> QED BY <1>5, <1>6, <2>1
<1>4. CASE write_disk_block(l, t)
  <2>1. PICK d \in [0 .. (t - 1) -> Data] : Call("write", l, t, d)
    BY <1>4 DEF write_disk_block
  <2>2. d \in [0 .. (t - 1) -> Data \cup {JUNK}]
    OBVIOUS
  <2>3. DiskInv'
    BY <1>2, <2>1, <2>2, CallKeeps
  <2> QED BY <1>5, <1>6, <2>3
<1> QED BY <1>1, <1>3, <1>4

(* A request: its first byte is in a sector whose number is no wrap away. *)
LEMMA RequestStep ==
    ASSUME StreamInv, NEW n \in Counts, get_bytes_from_disk(n)
    PROVE  StreamInv'
<1> USE DEF StreamInv, get_bytes_from_disk
<1>1. DiskInv'
  BY DiskStutter
<1>2. pos \in Nat /\ pos < WordSize /\ n \in Nat /\ n > 0
  BY DEF StreamTypes
<1>3. /\ sect' \in Nat /\ index' \in 0 .. (SectorBytes - 1)
      /\ pos = sect' * SectorBytes + index'
  BY <1>2, SectorOf
<1>4. /\ count' \in Nat
      /\ count' > 0 => n + index' > (count' - 1) * SectorBytes
      /\ n <= WordSize - SectorBytes => n + index' <= count' * SectorBytes
  BY <1>2, <1>3, SectorsNeeded
<1>5. sect' + 1 < WordSize
  <2> PICK q, x : q = sect' /\ x = index'
    OBVIOUS
  <2>0. q \in Nat /\ x \in Nat /\ pos = q * SectorBytes + x
    BY <1>3
  <2>1. q * SectorBytes >= q * 2
    <3>1. SectorBytes >= 2
      OBVIOUS
    <3> QED BY <2>0, <3>1
  <2> QED BY <1>2, <2>0, <2>1
<1>6. ram_location' = <<>> /\ Len(ram_location') = 0 /\ no_bytes' = n /\ Rest' = n
  BY <1>2 DEF Rest
<1>7. StreamTypes'
  BY <1>3, <1>4, NoBytes DEF StreamTypes
<1>8. Place'
  BY <1>2, <1>3, <1>4, <1>5, <1>6 DEF Place
<1>9. Calling' /\ Undisturbed'
  BY DEF Calling, Undisturbed, vars
<1> QED BY <1>1, <1>7, <1>8, <1>9

(* The stream asks for its next sector. *)
LEMMA ReadBlockStep ==
    ASSUME StreamInv, ReadBlock
    PROVE  StreamInv'
<1> USE DEF StreamInv, ReadBlock
<1>1. DiskInv' /\ op' = "read" /\ lba' = sect /\ total' = 1 /\ UNCHANGED <<media, dev>>
  BY ReadArgs DEF StreamTypes
<1>2. StreamTypes' /\ Calling' /\ Place'
  BY <1>1 DEF StreamTypes, Calling, Place, Rest
<1>3. Undisturbed'
  BY <1>1 DEF Undisturbed, Pending
<1> QED BY <1>1, <1>2, <1>3

(* The request ends. *)
LEMMA LeaveStep ==
    ASSUME StreamInv, ReadFailed \/ BytesDone
    PROVE  StreamInv'
<1>1. UNCHANGED <<vars, pos, no_bytes, sect, index, count, ram_location, spoilt>>
      /\ spc' = "idle"
  BY DEF ReadFailed, BytesDone
<1>2. DiskInv'
  BY <1>1, DiskStutter DEF StreamInv
<1> QED BY <1>1, <1>2 DEF StreamInv, StreamTypes, Calling, Place, Undisturbed

(* What the driver has read for the stream is the sector it is at. *)
LEMMA SectorGot ==
    ASSUME StreamInv, spc = "read", pc = "done", ret = 0
    PROVE  /\ lba = sect /\ total = 1 /\ count > 0
           /\ sect < Sectors /\ buf[0] \in Data \cup {JUNK}
           /\ clean => buf[0] = media[sect] /\ ~ Pending
<1> USE DEF StreamInv, DiskInv
<1>1. op = "read" /\ lba = sect /\ total = 1 /\ count > 0
  BY DEF Calling
<1>2. NoWrap
  BY <1>1 DEF NoWrap, Place
<1>3. lba \in Nat /\ lba + total <= Sectors
  BY <1>1, <1>2, OnTheDrive DEF Checked, DriverTypes
<1>4. buf[0] \in Data \cup {JUNK}
  BY <1>1 DEF DriverTypes
<1>5. ASSUME clean PROVE buf[0] = media[sect] /\ ~ Pending
  <2>1. 0 \in 0 .. (total - 1) /\ lba + 0 = sect
    BY <1>1, <1>3
  <2> QED BY <1>1, <1>2, <1>5, <2>1 DEF ReadExact, Settled
<1> QED BY <1>1, <1>3, <1>4, <1>5

(* How many bytes of the sector are copied. *)
Piece == IF Rest < SectorBytes - index THEN Rest ELSE SectorBytes - index

CopyStepFacts ==
    /\ Piece \in 1 .. Rest /\ index + Piece <= SectorBytes
    /\ ram_location' = ram_location \o [j \in 1 .. Piece |-> Byte(buf[0], index + j - 1)]
    /\ Len(ram_location') = Len(ram_location) + Piece
    /\ Rest' = Rest - Piece
    /\ ram_location' \in Seq((Data \cup {JUNK}) \X Nat)

(* What CopyBytes adds: at least a byte, at most the rest of the sector. *)
LEMMA CopyFacts ==
    ASSUME StreamInv, CopyBytes
    PROVE  CopyStepFacts
<1> USE DEF StreamInv, CopyBytes
<1> DEFINE S == (Data \cup {JUNK}) \X Nat
           new == [j \in 1 .. Piece |-> Byte(buf[0], index + j - 1)]
<1>1. count > 0 /\ buf[0] \in Data \cup {JUNK}
  BY SectorGot
<1>2. Rest \in Nat /\ Rest > 0 /\ index \in 0 .. (SectorBytes - 1)
      /\ ram_location \in Seq(S) /\ no_bytes \in Nat
  BY <1>1 DEF Place, StreamTypes, Rest
<1>3. Piece \in 1 .. Rest /\ index + Piece <= SectorBytes
  BY <1>2 DEF Piece
<1>4. ram_location' = ram_location \o new
  BY DEF Piece, Rest
<1>5. new \in [1 .. Piece -> S]
  BY <1>1, <1>2, <1>3 DEF Byte
<1> HIDE DEF new, S, StreamInv, CopyBytes
<1>6. new \in Seq(S) /\ Len(new) = Piece
  BY <1>2, <1>3, <1>5, PieceLength
<1>7. /\ Len(ram_location') = Len(ram_location) + Piece
      /\ ram_location' \in Seq(S) /\ Len(ram_location) \in Nat
  <2>1. /\ ram_location \o new \in Seq(S) /\ Len(ram_location) \in Nat
        /\ Len(ram_location \o new) = Len(ram_location) + Len(new)
    BY <1>2, <1>6, JoinedLength
  <2> QED BY <1>4, <1>6, <2>1
<1>8. Rest' = Rest - Piece
  <2>1. no_bytes' = no_bytes
    BY DEF CopyBytes
  <2> QED BY <1>2, <1>3, <1>7, <2>1 DEF Rest
<1> QED BY <1>3, <1>4, <1>7, <1>8 DEF CopyStepFacts, new, S

(* The bytes wanted of the sector are copied; the stream is at the next one. *)
LEMMA CopyStep ==
    ASSUME StreamInv, CopyBytes
    PROVE  StreamInv'
<1> USE DEF StreamInv, CopyBytes
<1>1. DiskInv'
  BY DiskStutter
<1>2. CopyStepFacts
  BY CopyFacts
<1>3. /\ count > 0 /\ sect < Sectors
      /\ clean => ~ Pending
  BY SectorGot
<1>4. StreamTypes'
  <2>1. sect' \in Nat /\ index' \in 0 .. (SectorBytes - 1) /\ count' \in Nat
        /\ spoilt' \in BOOLEAN /\ spc' = "loop" /\ pos' = pos /\ no_bytes' = no_bytes
    BY <1>3 DEF StreamTypes, DiskInv, DriverTypes
  <2> QED BY <1>2, <2>1 DEF StreamTypes, CopyStepFacts
<1>5. Calling' /\ Undisturbed'
  <2>1. pc' = "done" /\ spc' = "loop" /\ (~ spoilt' => clean) /\ dev' = dev
    BY DEF vars
  <2>2. Calling'
    BY <2>1 DEF Calling
  <2>3. ~ spoilt' => ~ Pending'
    BY <1>3, <2>1 DEF Pending
  <2> QED BY <2>2, <2>3 DEF Undisturbed
<1>6. Place'
  <2> DEFINE SB == SectorBytes
             L == Len(ram_location)
  <2>1. /\ sect \in Nat /\ index \in 0 .. (SB - 1) /\ count \in Nat /\ count > 0
        /\ pos \in Nat /\ no_bytes \in Nat /\ L \in Nat /\ Rest \in Nat /\ Rest > 0
        /\ pos + L = sect * SB + index
        /\ Rest + index > (count - 1) * SB
        /\ no_bytes <= WordSize - SB => Rest + index <= count * SB
    BY <1>2, <1>3 DEF StreamTypes, Place, CopyStepFacts, Rest
  <2>2. /\ sect' = sect + 1 /\ index' = 0 /\ count' = count - 1 /\ pos' = pos
        /\ no_bytes' = no_bytes /\ Len(ram_location') = L + Piece /\ Rest' = Rest - Piece
    BY <1>2 DEF CopyStepFacts
  <2>3. sect' + 1 < WordSize
    BY <1>3, <2>1, <2>2
  <2> PICK a, b, c : a = sect * SB /\ b = count * SB /\ c = (count - 1) * SB
    OBVIOUS
  <2> HIDE DEF StreamInv, CopyBytes
  <2>4. /\ a \in Nat /\ b \in Nat /\ c \in Nat /\ c = b - SB
        /\ (sect + 1) * SB = a + SB
        /\ (count - 1 - 1) * SB = c - SB
    BY <2>1
  <2>5. CASE Piece = Rest
    <3>1. Rest + index <= SB
      BY <1>2, <2>1, <2>5 DEF CopyStepFacts
    <3>2. c < SB
      BY <2>1, <2>4, <3>1
    <3>3. count = 1
      <4>1. count >= 2 => (count - 1) * SB >= 1 * SB
        BY <2>1
      <4> QED BY <2>1, <2>4, <3>2, <4>1
    <3> QED BY <2>1, <2>2, <2>3, <2>5, <3>3 DEF Place
  <2>6. CASE Piece = SB - index /\ Piece < Rest
    <3>1. Rest' > 0 /\ Rest' = Rest + index - SB
      BY <2>1, <2>2, <2>6
    <3>2. pos' + Len(ram_location') = sect' * SB + index'
      BY <2>1, <2>2, <2>4, <2>6
    <3>3. Rest' + index' > (count' - 1) * SB
      BY <2>1, <2>2, <2>4, <3>1
    <3>4. no_bytes' <= WordSize - SB => Rest' + index' <= count' * SB
      BY <2>1, <2>2, <2>4, <3>1
    <3> QED BY <2>3, <3>1, <3>2, <3>3, <3>4 DEF Place
  <2> QED BY <1>2, <2>1, <2>5, <2>6 DEF CopyStepFacts, Piece
<1> QED BY <1>1, <1>4, <1>5, <1>6

-----------------------------------------------------------------------------
(* Every step of stream, driver, drive and other callers keeps the           *)
(* invariant.                                                                *)
LEMMA StreamStep == StreamInv /\ [StreamNext]_svars => StreamInv'
BY StreamStutter, DriverStep, SeekStep, OtherStep, RequestStep, ReadBlockStep, CopyStep, LeaveStep
   DEF StreamNext, Stream

(* The invariant holds throughout. *)
THEOREM StreamInvariant == StreamSpec => []StreamInv
BY StreamStart, StreamStep, PTL DEF StreamSpec

(* The drive shows only statuses of the interface, the loop stays within the *)
(* buffer, and the driver returns only the codes its callers test for.       *)
THEOREM DriverTyping == StreamSpec => []TypeOK
<1>1. StreamInv => TypeOK
  BY DevFields DEF StreamInv, DiskInv, DriverTypes, DriveStates, TypeOK
<1> QED BY <1>1, StreamInvariant, PTL

(* A read that reports success, sent to a drive that owed nothing, has the   *)
(* sectors asked for in the caller's buffer (read_disk_block), for drives of *)
(* any size and any count of sectors.                                        *)
THEOREM ReadsAreExact == StreamSpec => []ReadExact
<1>1. StreamInv => ReadExact
  BY DEF StreamInv, DiskInv
<1> QED BY <1>1, StreamInvariant, PTL

(* A write that reports success, sent to such a drive, is on the medium      *)
(* (write_disk_block: the wait after the last sector).                       *)
THEOREM WritesAreStored == StreamSpec => []WriteStored
<1>1. StreamInv => WriteStored
  BY DEF StreamInv, DiskInv
<1> QED BY <1>1, StreamInvariant, PTL

(* Writes stay within the sectors of the last command, also those the drive  *)
(* stores after write_disk_block has given up, whoever calls the driver by   *)
(* then.                                                                     *)
THEOREM WritesAreConfined == StreamSpec => WriteConfined
<1> DEFINE Confined ==
        \A s \in SectorSet :
            media'[s] # media[s] /\ clean /\ sent \subseteq SectorSet => s \in sent
<1>1. StreamInv /\ [StreamNext]_svars => [Confined]_vars
  <2> SUFFICES ASSUME StreamInv, [StreamNext]_svars, ~ UNCHANGED vars PROVE Confined
    OBVIOUS
  <2>1. CASE media' = media
    BY <2>1
  <2>2. CASE DevReady
    <3>1. CASE media' = media
      BY <3>1
    <3>2. CASE Pending /\ media' = [media EXCEPT ![dev.at] = dev.reg]
      BY <3>2 DEF StreamInv, DiskInv, DriverTypes, LateWrite
    <3> QED BY <2>2, <3>1, <3>2 DEF DevReady, Pending
  <2>3. DevReady \/ media' = media
    BY DEF StreamNext, Stream, svars, vars, disk_stream_seek, get_bytes_from_disk, ReadBlock,
           CopyBytes, ReadFailed, BytesDone, OtherCall, read_disk_block, write_disk_block, Call,
           Driver, Device, Select, Send, Settle, ReadSector, WriteSector, SectorError, ReadDone,
           WriteLoopDone, WriteDone, TimeOut, DevError
  <2> QED BY <2>1, <2>2, <2>3
<1>2. StreamSpec => [][Confined]_vars
  BY <1>1, StreamInvariant, PTL DEF StreamSpec
<1> QED BY <1>2 DEF WriteConfined

-----------------------------------------------------------------------------
(* The stream implements ByteStream. *)

(* A new stream has promised nothing. *)
LEMMA PromiseInit == StreamInit => Promise!Init
BY DEF StreamInit, Promise!Init

(* What a stream's caller sees of a step that leaves the medium alone, and   *)
(* of the steps between two requests.                                        *)
LEMMA IdleStep ==
    ASSUME spc = "idle", spc' = "idle"
    PROVE  Promise!Next
BY DEF Promise!Next, Promise!Between

(* A step under a request that delivers nothing. *)
LEMMA QuietStep ==
    ASSUME spc # "idle", spc' # "idle", UNCHANGED <<pos, no_bytes>>,
           spoilt' = spoilt, spoilt \/ ram_location' = ram_location,
           media' = media \/ spoilt \/ ram_location = <<>>
    PROVE  Promise!Next
<1>1. Promise!Device
  BY DEF Promise!Device
<1> QED BY <1>1 DEF Promise!Next

(* The driver's and the drive's steps under a request. *)
LEMMA DriverPromised ==
    ASSUME StreamInv, Driver \/ Device, UNCHANGED stream
    PROVE  Promise!Next
<1>1. CASE spc = "idle"
  BY <1>1, IdleStep DEF stream
<1>2. CASE spc # "idle"
  <2>1. media' = media \/ spoilt \/ ram_location = <<>>
    <3>1. SUFFICES ASSUME ~ spoilt, ram_location # <<>> PROVE media' = media
      OBVIOUS
    <3>2. ~ Pending /\ (op = "read" \/ pc = "done")
      BY <1>2, <3>1 DEF StreamInv, Undisturbed, Calling, StreamTypes
    <3> QED BY <3>2, NothingToStore DEF StreamInv
  <2>2. spc' # "idle" /\ UNCHANGED <<pos, no_bytes>> /\ spoilt' = spoilt
        /\ ram_location' = ram_location
    BY <1>2 DEF stream
  <2> QED BY <1>2, <2>1, <2>2, QuietStep
<1> QED BY <1>1, <1>2

(* A request is put. *)
LEMMA RequestPromised ==
    ASSUME StreamInv, NEW n \in Counts, get_bytes_from_disk(n)
    PROVE  Promise!Next
<1>1. /\ spc = "idle" /\ spc' = "loop" /\ pos' = pos /\ no_bytes' = n /\ media' = media
      /\ ram_location' = <<>> /\ spoilt' = FALSE /\ pos \in {0} \cup Positions
  BY DEF get_bytes_from_disk, vars, StreamInv, StreamTypes
<1>2. Promise!Ask
  BY <1>1 DEF Promise!Ask
<1> QED BY <1>2 DEF Promise!Next

(* A piece copied is delivered, and is what the disk holds there; or the     *)
(* drive owed an answer and nothing is promised any more.                    *)
LEMMA CopyPromised ==
    ASSUME StreamInv, CopyBytes
    PROVE  Promise!Next
<1>0. /\ spc = "read" /\ spc' = "loop" /\ pos' = pos /\ no_bytes' = no_bytes
      /\ media' = media /\ spoilt' = (spoilt \/ ~ clean) /\ spoilt \in BOOLEAN
      /\ clean \in BOOLEAN
  BY DEF CopyBytes, vars, StreamInv, StreamTypes, DiskInv, DriverTypes
<1>1. CASE spoilt
  BY <1>0, <1>1, QuietStep
<1>2. CASE ~ spoilt /\ ~ clean
  <2>1. Promise!Spoil
    BY <1>0, <1>2 DEF Promise!Spoil
  <2> QED BY <2>1 DEF Promise!Next
<1>3. CASE ~ spoilt /\ clean
  <2> DEFINE L == Len(ram_location)
             disk == [b \in Bytes |-> Byte(media[b \div SectorBytes], b % SectorBytes)]
  <2>1. CopyStepFacts
    BY CopyFacts
  <2>2. sect < Sectors /\ buf[0] = media[sect] /\ count > 0
    BY <1>0, <1>3, SectorGot DEF CopyBytes
  <2>3. /\ sect \in Nat /\ index \in 0 .. (SectorBytes - 1) /\ pos \in Nat /\ L \in Nat
        /\ no_bytes \in Nat /\ pos + L = sect * SectorBytes + index
        /\ Rest = no_bytes - L
    BY <1>0, <2>2 DEF StreamInv, StreamTypes, Place, Rest
  <2>4. ASSUME NEW j \in 1 .. Piece
        PROVE  /\ pos + L + j - 1 \in Bytes
               /\ disk[pos + L + j - 1] = Byte(buf[0], index + j - 1)
    <3>1. index + j - 1 \in 0 .. (SectorBytes - 1)
      BY <2>1, <2>3, <2>4 DEF CopyStepFacts
    <3>2. pos + L + j - 1 = sect * SectorBytes + (index + j - 1)
      <4>1. PICK a \in Nat : a = sect * SectorBytes
        BY <2>3
      <4> QED BY <2>3, <2>4, <4>1
    <3>3. sect * SectorBytes + (index + j - 1) \in Bytes
      <4>1. PICK e \in Nat : Sectors = sect + 1 + e
        <5>1. Sectors - sect - 1 \in Nat /\ Sectors = sect + 1 + (Sectors - sect - 1)
          BY <2>2, <2>3
        <5> QED BY <5>1
      <4>2. /\ Sectors * SectorBytes = sect * SectorBytes + SectorBytes + e * SectorBytes
            /\ e * SectorBytes \in Nat /\ sect * SectorBytes \in Nat
        BY <2>3, <4>1
      <4>3. PICK a, b, c : a = sect * SectorBytes /\ b = Sectors * SectorBytes
                           /\ c = e * SectorBytes
        OBVIOUS
      <4> QED BY <3>1, <4>2, <4>3 DEF Bytes
    <3>4. /\ (sect * SectorBytes + (index + j - 1)) \div SectorBytes = sect
          /\ (sect * SectorBytes + (index + j - 1)) % SectorBytes = index + j - 1
      BY <2>3, <3>1, ByteAt
    <3> QED BY <2>2, <3>2, <3>3, <3>4
  <2>5. Piece \in 1 .. (no_bytes - L) /\ pos + L + Piece - 1 \in DOMAIN disk
    <3>1. Piece \in 1 .. (no_bytes - L) /\ Piece \in 1 .. Piece
      BY <2>1, <2>3 DEF CopyStepFacts
    <3>2. DOMAIN disk = Bytes
      OBVIOUS
    <3> HIDE DEF disk
    <3> QED BY <2>4, <3>1, <3>2
  <2>6. ram_location' = ram_location \o [j \in 1 .. Piece |-> disk[pos + L + j - 1]]
    <3>1. [j \in 1 .. Piece |-> disk[pos + L + j - 1]]
              = [j \in 1 .. Piece |-> Byte(buf[0], index + j - 1)]
      BY <2>4
    <3> QED BY <2>1, <3>1 DEF CopyStepFacts
  <2>7. disk' = disk
    BY <1>0
  <2> HIDE DEF L
  <2>8. Promise!Deliver
    BY <1>0, <1>3, <2>5, <2>6, <2>7 DEF Promise!Deliver, L
  <2> QED BY <2>8 DEF Promise!Next
<1> QED BY <1>0, <1>1, <1>2, <1>3

(* The ways out: the request is complete, or the driver reports a failure,   *)
(* or the sum of SectorCount may have wrapped.                               *)
LEMMA LeavePromised ==
    ASSUME StreamInv, ReadFailed \/ BytesDone
    PROVE  Promise!Next
<1>0. /\ spc # "idle" /\ spc' = "idle" /\ media' = media /\ spoilt' = spoilt
      /\ UNCHANGED <<pos, no_bytes, ram_location>> /\ spoilt \in BOOLEAN
  BY DEF ReadFailed, BytesDone, vars, StreamInv, StreamTypes
<1>1. CASE spoilt
  <2>1. Promise!Forget
    BY <1>0, <1>1 DEF Promise!Forget
  <2> QED BY <2>1 DEF Promise!Next
<1>2. CASE ~ spoilt /\ ReadFailed
  <2>1. Promise!GiveUp
    BY <1>0, <1>2 DEF Promise!GiveUp, ReadFailed
  <2> QED BY <2>1 DEF Promise!Next
<1>3. CASE ~ spoilt /\ BytesDone
  <2>1. count = 0 /\ index \in Nat /\ no_bytes \in Nat /\ Len(ram_location) \in Nat
    BY <1>3 DEF BytesDone, StreamInv, StreamTypes
  <2>2. no_bytes > WordSize - SectorBytes \/ Len(ram_location) = no_bytes
    BY <1>0, <2>1 DEF StreamInv, Place, Rest
  <2>3. CASE no_bytes > WordSize - SectorBytes
    <3>1. Promise!GiveUp
      BY <1>0, <1>3, <2>3 DEF Promise!GiveUp
    <3> QED BY <3>1 DEF Promise!Next
  <2>4. CASE Len(ram_location) = no_bytes
    <3>1. Promise!Complete
      BY <1>0, <1>3, <2>4 DEF Promise!Complete
    <3> QED BY <3>1 DEF Promise!Next
  <2> QED BY <2>2, <2>3, <2>4
<1> QED BY <1>0, <1>1, <1>2, <1>3

(* get_bytes_from_disk implements the promise of a stream for every size of  *)
(* drive, sector and request: sector by sector it delivers the bytes of the  *)
(* disk from the position on, none twice and none left out.                  *)
THEOREM StreamKeepsPromise == StreamSpec => StreamPromise
<1>1. StreamInv /\ [StreamNext]_svars => [Promise!Next]_(Promise!bvars)
  <2> SUFFICES ASSUME StreamInv, [StreamNext]_svars
               PROVE  [Promise!Next]_(Promise!bvars)
    OBVIOUS
  <2>1. CASE UNCHANGED svars
    BY <2>1 DEF svars, stream, vars, Promise!bvars
  <2>2. ASSUME NEW p \in Positions, disk_stream_seek(p) PROVE Promise!Next
    BY <2>2, IdleStep DEF disk_stream_seek
  <2>3. ASSUME NEW n \in Counts, get_bytes_from_disk(n) PROVE Promise!Next
    BY <2>3, RequestPromised
  <2>4. CASE ReadBlock
    <3>1. media' = media
      BY <2>4 DEF ReadBlock, read_disk_block, Call
    <3> QED BY <2>4, <3>1, QuietStep DEF ReadBlock
  <2>5. CASE CopyBytes
    BY <2>5, CopyPromised
  <2>6. CASE ReadFailed \/ BytesDone
    BY <2>6, LeavePromised
  <2>7. CASE OtherCall
    BY <2>7, IdleStep DEF OtherCall
  <2>8. CASE (Driver \/ Device) /\ UNCHANGED stream
    BY <2>8, DriverPromised
  <2> QED BY <2>1, <2>2, <2>3, <2>4, <2>5, <2>6, <2>7, <2>8 DEF StreamNext, Stream
<1> QED BY <1>1, PromiseInit, StreamInvariant, PTL DEF StreamSpec, StreamPromise, Promise!Spec
=============================================================================

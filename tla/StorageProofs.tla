----------------------------- MODULE StorageProofs -----------------------------
(***************************************************************************)
(* The two ends of storage.  The driver: ata_read stores exactly the range *)
(* asked for, whatever its length and the drive's answers.  The packer:    *)
(* what tools/mkappfs.c writes, byte by byte, for every list of files, and *)
(* that the catalogue says where each file really is.                      *)
(*                                                                         *)
(* FlattenSeq and running_offset are recursive functions.  That there is   *)
(* such a function, and what it returns, is shown by induction in the form *)
(* of a least counterexample.                                              *)
(***************************************************************************)
EXTENDS AppFs, TLAPS, WellFoundedInduction


\* Where ata_read is: what is stored, what this command brings, what remains.
ReadProgress ==
  Reading =>
    /\ current_lba + remaining = lba + sector_count
    /\ lba + sector_count <= DiskSectors
    /\ remaining > 0 /\ chunk = ChunkOf(remaining) /\ sector < chunk
    /\ Len(buffer) = current_lba - lba + sector
    /\ ata_pc = "busy" => sector = 0
    /\ ata_pc = "data" => drive_lba = current_lba + sector

\* A drive that offers a sector has one left.
DriveOffers == drive = "drq" => drive_left >= 1

AtaInv ==
  /\ AtaTypeOK
  /\ ReadProgress
  /\ DriveOffers
  /\ ReadExact

\* The constants.
LEMMA AtaConstants ==
  /\ ByteRange \in Nat /\ ByteRange >= 2
  /\ LbaRange \in Nat /\ LbaRange > 0 /\ SpinLimit \in Nat /\ SpinLimit > 0
  /\ DiskSectors \in Nat /\ DiskSectors <= LbaRange
BY AtaAssumption

\* A chunk is positive, fits its uint8_t and is no more than what remains.
LEMMA ChunkBounds ==
  ASSUME NEW n \in Nat
  PROVE  /\ ChunkOf(n) \in 0 .. ByteRange - 1 /\ ChunkOf(n) <= n
         /\ n > 0 => ChunkOf(n) > 0
BY AtaConstants DEF ChunkOf

\* An address of the disk survives the 28 bits of the ports.
LEMMA AddressFits ==
  ASSUME NEW a \in Nat, a < DiskSectors
  PROVE  a % LbaRange = a
BY AtaConstants

\* Initially.
LEMMA InitHolds == AtaInit => AtaInv
<1> SUFFICES ASSUME AtaInit PROVE AtaInv
  OBVIOUS
<1>1. driver_ready \in BOOLEAN /\ ata_result \in BOOLEAN
  BY Zenon DEF AtaInit
<1>2. buffer = << >> /\ Len(buffer) = 0 /\ buffer \in Seq(Nat)
  BY DEF AtaInit
<1>3. AtaTypeOK
  BY <1>1, <1>2, AtaConstants DEF AtaInit, AtaTypeOK
<1>4. QED BY <1>2, <1>3 DEF AtaInit, AtaInv, ReadProgress, Reading, DriveOffers, ReadExact

\* The drive on its own.
LEMMA DriveKeepsInv ==
  ASSUME AtaInv, DriveAnswers
  PROVE  AtaInv'
<1>1. /\ UNCHANGED <<driver_ready, ata_pc, spin, readVars, ata_result, drive_lba, drive_left>>
      /\ drive' \in {"ready", "drq", "error"}
      /\ drive' = "drq" => drive_left # 0
  BY DEF DriveAnswers
<1>2. AtaTypeOK'
  BY <1>1 DEF AtaInv, AtaTypeOK, readVars
<1>3. DriveOffers'
  BY <1>1 DEF AtaInv, AtaTypeOK, DriveOffers
<1>4. ReadProgress' /\ ReadExact'
  BY <1>1 DEF AtaInv, ReadProgress, ReadExact, Reading, readVars
<1>5. QED BY <1>2, <1>3, <1>4 DEF AtaInv

\* A call that ends, or goes on polling, without a command or a sector.
LEMMA QuietKeepsInv ==
  ASSUME AtaInv, UNCHANGED <<readVars, driveVars>>,
         driver_ready' \in BOOLEAN, ata_result' \in BOOLEAN, spin' \in 0 .. SpinLimit - 1,
         ata_pc' \in {ata_pc, "idle"} \/ (ata_pc = "idle" /\ ata_pc' = "init")
  PROVE  AtaInv'
<1>1. AtaTypeOK'
  BY DEF AtaInv, AtaTypeOK, readVars, driveVars
<1>2. QED
  BY <1>1 DEF AtaInv, ReadProgress, ReadExact, DriveOffers, Reading, readVars, driveVars

\* A wait goes on or gives up.
LEMMA SpinEffect ==
  ASSUME AtaTypeOK, SpinOn(AtaReturn(FALSE))
  PROVE  /\ spin' \in 0 .. SpinLimit - 1 /\ ata_result' \in BOOLEAN
         /\ ata_pc' \in {ata_pc, "idle"}
         /\ ata_pc' = "idle" /\ ata_pc # "idle" => ata_result' = FALSE
<1>1. CASE spin + 1 < SpinLimit
  BY <1>1, AtaConstants DEF SpinOn, AtaTypeOK
<1>2. CASE ~(spin + 1 < SpinLimit)
  <2>1. ata_pc' = "idle" /\ spin' = 0 /\ ata_result' = FALSE
    BY <1>2 DEF SpinOn, AtaReturn
  <2>2. 0 \in 0 .. SpinLimit - 1
    BY AtaConstants
  <2>3. QED BY <2>1, <2>2
<1>3. QED BY <1>1, <1>2

\* A read begins.
LEMMA BeginKeepsInv ==
  ASSUME AtaInv, NEW first \in Nat, NEW count \in Nat, first + count <= DiskSectors,
         ata_read(first, count)
  PROVE  AtaInv'
<1>1. /\ lba' = first /\ sector_count' = count /\ remaining' = count /\ current_lba' = first
      /\ chunk' = ChunkOf(count) /\ sector' = 0 /\ buffer' = << >>
      /\ ata_pc' = "busy" /\ spin' = 0 /\ count # 0
      /\ UNCHANGED <<driver_ready, ata_result, drive, drive_lba, drive_left>>
  BY DEF ata_read, driveVars
<1>2. count > 0 /\ first <= DiskSectors /\ count <= DiskSectors
  BY <1>1, AtaConstants
<1>3. ChunkOf(count) \in 0 .. ByteRange - 1 /\ ChunkOf(count) > 0
  BY <1>2, ChunkBounds
<1>4. 0 \in 0 .. SpinLimit - 1 /\ 0 \in 0 .. ByteRange - 1
  BY AtaConstants
<1>5. << >> \in Seq(Nat) /\ Len(<< >>) = 0
  OBVIOUS
<1>6. AtaTypeOK'
  BY <1>1, <1>2, <1>3, <1>4, <1>5, AtaConstants DEF AtaInv, AtaTypeOK
<1>7. ReadProgress'
  BY <1>1, <1>2, <1>3, <1>5 DEF ReadProgress, Reading
<1>8. DriveOffers' /\ ReadExact'
  BY <1>1, <1>5 DEF AtaInv, DriveOffers, ReadExact
<1>9. QED BY <1>6, <1>7, <1>8 DEF AtaInv

\* A command is sent, or awaited.
LEMMA CommandKeepsInv ==
  ASSUME AtaInv, CommandPoll
  PROVE  AtaInv'
<1>1. CASE drive # "busy"
  <2>1. /\ ata_pc = "busy" /\ drive' = "busy" /\ drive_lba' = current_lba % LbaRange
        /\ drive_left' = IF chunk = 0 THEN ByteRange ELSE chunk
        /\ ata_pc' = IF chunk = 0 THEN "busy" ELSE "data"
        /\ spin' = 0 /\ ata_result' = ata_result /\ driver_ready' = driver_ready
        /\ lba' = lba /\ sector_count' = sector_count /\ remaining' = remaining
        /\ current_lba' = current_lba /\ chunk' = chunk /\ sector' = sector /\ buffer' = buffer
    BY <1>1 DEF CommandPoll, readVars
  <2>2. /\ current_lba + remaining = lba + sector_count /\ lba + sector_count <= DiskSectors
        /\ remaining > 0 /\ sector < chunk /\ sector = 0 /\ chunk > 0 /\ chunk # 0
        /\ current_lba \in Nat /\ remaining \in Nat
    BY <2>1, AtaConstants DEF AtaInv, AtaTypeOK, ReadProgress, Reading
  <2>3. current_lba < DiskSectors
    BY <2>2, AtaConstants DEF AtaInv, AtaTypeOK
  <2>4. current_lba % LbaRange = current_lba
    BY <2>2, <2>3, AddressFits
  <2>5. drive_lba' = current_lba /\ drive_left' = chunk /\ ata_pc' = "data"
    BY <2>1, <2>2, <2>4
  <2>6. 0 \in 0 .. SpinLimit - 1
    BY AtaConstants
  <2>7. AtaTypeOK'
    BY <2>1, <2>2, <2>5, <2>6, AtaConstants DEF AtaInv, AtaTypeOK
  <2>8. ReadProgress'
    BY <2>1, <2>2, <2>5 DEF AtaInv, ReadProgress, Reading
  <2>9. DriveOffers' /\ ReadExact'
    BY <2>1 DEF AtaInv, DriveOffers, ReadExact
  <2>10. QED BY <2>7, <2>8, <2>9 DEF AtaInv
<1>2. CASE ~(drive # "busy")
  <2>1. SpinOn(AtaReturn(FALSE)) /\ UNCHANGED <<readVars, driveVars>> /\ UNCHANGED driver_ready
    BY <1>2 DEF CommandPoll
  <2>2. driver_ready' \in BOOLEAN
    BY <2>1, Zenon DEF AtaInv, AtaTypeOK
  <2>3. QED BY <2>1, <2>2, SpinEffect, QuietKeepsInv DEF AtaInv
<1>3. QED BY <1>1, <1>2

\* A sector arrives: the buffer grows by the next address of the range.
LEMMA SectorKeepsInv ==
  ASSUME AtaInv, DataPoll, drive = "drq"
  PROVE  /\ AtaInv'
         /\ ata_pc' = "idle" => ata_result' = TRUE /\ Len(buffer') = sector_count
<1>1. /\ ata_pc = "data" /\ buffer' = Append(buffer, drive_lba)
      /\ SectorTaken
      /\ lba' = lba /\ sector_count' = sector_count /\ driver_ready' = driver_ready
      /\ IF sector + 1 = chunk
           THEN NextChunk
           ELSE /\ sector' = sector + 1 /\ spin' = 0
                /\ UNCHANGED <<ata_pc, ata_result, remaining, current_lba, chunk>>
  BY DEF DataPoll, SectorFailed
<1>2. /\ current_lba + remaining = lba + sector_count /\ lba + sector_count <= DiskSectors
      /\ remaining > 0 /\ chunk = ChunkOf(remaining) /\ sector < chunk
      /\ Len(buffer) = current_lba - lba + sector
      /\ drive_lba = current_lba + sector
  BY <1>1 DEF AtaInv, ReadProgress, Reading
<1>3. /\ lba \in Nat /\ sector_count \in Nat /\ remaining \in Nat /\ current_lba \in Nat
      /\ chunk \in Nat /\ sector \in Nat /\ drive_lba \in Nat /\ drive_left \in Nat
      /\ buffer \in Seq(Nat) /\ remaining <= DiskSectors /\ current_lba <= DiskSectors
      /\ lba <= DiskSectors /\ sector_count <= DiskSectors /\ chunk <= ByteRange - 1
  BY AtaConstants DEF AtaInv, AtaTypeOK
<1>4. chunk <= remaining
  BY <1>2, <1>3, ChunkBounds
<1>5. /\ drive_lba' = drive_lba + 1 /\ drive_left' = drive_left - 1
      /\ drive' \in {"ready", "busy"} /\ drive_left >= 1
  BY <1>1 DEF SectorTaken, AtaInv, DriveOffers
<1>6. drive_lba' \in Nat /\ drive_left' \in Nat /\ drive_lba' = current_lba + (sector + 1)
  BY <1>2, <1>3, <1>5
<1>7. buffer' \in Seq(Nat) /\ Len(buffer') = Len(buffer) + 1
  BY <1>1, <1>3
<1>8. /\ Len(buffer) \in Nat /\ Len(buffer) + 1 <= sector_count
      /\ Len(buffer) + 1 = current_lba - lba + (sector + 1)
      /\ drive_lba = lba + (Len(buffer) + 1) - 1
  BY <1>2, <1>3, <1>4
<1>9. ReadExact'
  <2>1. \A i \in 1 .. Len(buffer) : buffer[i] = lba + i - 1
    BY DEF AtaInv, ReadExact
  <2>2. ASSUME NEW i \in 1 .. Len(buffer) + 1
        PROVE  buffer'[i] = lba + i - 1
    <3>1. CASE i \in 1 .. Len(buffer)
      BY <1>1, <1>3, <2>1, <3>1
    <3>2. CASE i = Len(buffer) + 1
      BY <1>1, <1>3, <1>8, <3>2
    <3>3. QED BY <1>8, <3>1, <3>2
  <2>3. QED BY <1>1, <1>7, <1>8, <2>2 DEF ReadExact
<1>10. DriveOffers'
  BY <1>5 DEF DriveOffers
<1>11. 0 \in 0 .. SpinLimit - 1 /\ 0 \in 0 .. ByteRange - 1
  BY AtaConstants
<1>12. driver_ready' \in BOOLEAN
  BY <1>1, Zenon DEF AtaInv, AtaTypeOK
<1>13. CASE sector + 1 = chunk
  <2>1. /\ current_lba' = current_lba + chunk /\ remaining' = remaining - chunk
        /\ chunk' = ChunkOf(remaining - chunk) /\ sector' = 0 /\ spin' = 0
        /\ IF remaining = chunk THEN ata_pc' = "idle" /\ ata_result' = TRUE
                                ELSE ata_pc' = "busy" /\ ata_result' = ata_result
    BY <1>1, <1>13 DEF NextChunk, AtaReturn
  <2>2. /\ remaining - chunk \in Nat /\ remaining - chunk <= DiskSectors
        /\ current_lba + chunk \in Nat /\ current_lba + chunk <= DiskSectors
        /\ (current_lba + chunk) + (remaining - chunk) = lba + sector_count
        /\ Len(buffer) + 1 = (current_lba + chunk) - lba + 0
    <3>1. remaining - chunk \in Nat /\ remaining - chunk <= DiskSectors
      BY <1>3, <1>4, AtaConstants
    <3>2. current_lba + chunk \in Nat /\ current_lba + chunk <= DiskSectors
      BY <1>2, <1>3, <1>4, AtaConstants
    <3>3. (current_lba + chunk) + (remaining - chunk) = lba + sector_count
      <4>1. current_lba + remaining = lba + sector_count
        BY <1>2
      <4>2. QED BY <1>3, <4>1
    <3>4. Len(buffer) + 1 = (current_lba + chunk) - lba + 0
      BY <1>3, <1>8, <1>13
    <3>5. QED BY <3>1, <3>2, <3>3, <3>4
  <2>3. /\ ChunkOf(remaining - chunk) \in 0 .. ByteRange - 1
        /\ remaining - chunk > 0 => ChunkOf(remaining - chunk) > 0
    BY <2>2, ChunkBounds
  <2>4. ata_result' \in BOOLEAN
    BY <2>1, Zenon DEF AtaInv, AtaTypeOK
  <2>5. ata_pc' \in {"idle", "busy"} /\ drive' \in {"ready", "busy", "drq", "error"}
    BY <1>5, <2>1
  <2>6. /\ remaining' \in 0 .. DiskSectors /\ current_lba' \in 0 .. DiskSectors
        /\ chunk' \in 0 .. ByteRange - 1 /\ sector' \in 0 .. ByteRange - 1
        /\ spin' \in 0 .. SpinLimit - 1
    BY <1>11, <2>1, <2>2, <2>3, AtaConstants
  <2>7. lba' \in 0 .. DiskSectors /\ sector_count' \in 0 .. DiskSectors
    BY <1>1 DEF AtaInv, AtaTypeOK
  <2>8. AtaTypeOK'
    BY <1>6, <1>7, <1>12, <2>4, <2>5, <2>6, <2>7 DEF AtaTypeOK
  <2>9. ReadProgress'
    <3>1. CASE remaining = chunk
      BY <2>1, <3>1 DEF ReadProgress, Reading
    <3>2. CASE remaining # chunk
      <4>1. remaining - chunk > 0 /\ 0 < ChunkOf(remaining - chunk)
        BY <1>3, <1>4, <2>3, <3>2
      <4>2. ata_pc' = "busy"
        BY <2>1, <3>2
      <4>3. QED BY <1>1, <1>2, <1>7, <2>1, <2>2, <4>1, <4>2 DEF ReadProgress, Reading
    <3>3. QED BY <3>1, <3>2
  <2>10. ata_pc' = "idle" => ata_result' = TRUE /\ Len(buffer') = sector_count
    <3>1. CASE remaining = chunk
      <4>1. Len(buffer) + 1 = sector_count
        BY <1>2, <1>3, <2>2, <3>1
      <4>2. QED BY <1>7, <2>1, <3>1, <4>1
    <3>2. CASE remaining # chunk
      BY <2>1, <3>2
    <3>3. QED BY <3>1, <3>2
  <2>11. QED BY <1>9, <1>10, <2>8, <2>9, <2>10 DEF AtaInv
<1>14. CASE sector + 1 # chunk
  <2>1. /\ sector' = sector + 1 /\ spin' = 0 /\ ata_pc' = ata_pc /\ ata_result' = ata_result
        /\ remaining' = remaining /\ current_lba' = current_lba /\ chunk' = chunk
    BY <1>1, <1>14
  <2>2. sector + 1 < chunk /\ sector + 1 \in 0 .. ByteRange - 1
    BY <1>2, <1>3, <1>14, AtaConstants
  <2>3. ata_result' \in BOOLEAN
    BY <2>1, Zenon DEF AtaInv, AtaTypeOK
  <2>4. ata_pc' = "data" /\ drive' \in {"ready", "busy", "drq", "error"}
    BY <1>1, <1>5, <2>1
  <2>5. /\ remaining' \in 0 .. DiskSectors /\ current_lba' \in 0 .. DiskSectors
        /\ lba' \in 0 .. DiskSectors /\ sector_count' \in 0 .. DiskSectors
        /\ chunk' \in 0 .. ByteRange - 1
    BY <1>1, <2>1 DEF AtaInv, AtaTypeOK
  <2>6. sector' \in 0 .. ByteRange - 1 /\ spin' \in 0 .. SpinLimit - 1
    BY <1>11, <2>1, <2>2
  <2>7. AtaTypeOK'
    BY <1>6, <1>7, <1>12, <2>3, <2>4, <2>5, <2>6 DEF AtaTypeOK
  <2>8. ReadProgress'
    BY <1>1, <1>2, <1>6, <1>7, <1>8, <2>1, <2>2, <2>4 DEF ReadProgress, Reading
  <2>9. QED BY <1>9, <1>10, <2>4, <2>7, <2>8 DEF AtaInv
<1>15. QED BY <1>13, <1>14

\* The driver's step that ends without a sector.
LEMMA NoSectorKeepsInv ==
  ASSUME AtaInv, DataPoll, drive # "drq"
  PROVE  /\ AtaInv' /\ UNCHANGED <<readVars, driveVars>>
         /\ ata_pc' = "idle" => ata_result' = FALSE
<1>1. driver_ready' \in BOOLEAN
  <2>1. driver_ready' = driver_ready
    BY DEF DataPoll
  <2>2. QED BY <2>1, Zenon DEF AtaInv, AtaTypeOK
<1>2. ata_pc = "data" /\ ata_pc # "idle"
  BY DEF DataPoll
<1>3. CASE SectorFailed
  <2>1. 0 \in 0 .. SpinLimit - 1 /\ FALSE \in BOOLEAN
    BY AtaConstants
  <2>2. /\ ata_pc' = "idle" /\ spin' = 0 /\ ata_result' = FALSE
        /\ UNCHANGED <<readVars, driveVars>>
    BY <1>3 DEF SectorFailed, AtaReturn
  <2>3. QED BY <1>1, <2>1, <2>2, QuietKeepsInv
<1>4. CASE SpinOn(AtaReturn(FALSE)) /\ UNCHANGED <<readVars, driveVars>>
  BY <1>1, <1>2, <1>4, SpinEffect, QuietKeepsInv DEF AtaInv
<1>5. QED BY <1>3, <1>4 DEF DataPoll

\* Polling in ata_init.
LEMMA InitPollKeepsInv ==
  ASSUME AtaInv, InitPoll
  PROVE  AtaInv'
<1>1. UNCHANGED <<readVars, driveVars>>
  BY DEF InitPoll
<1>2. CASE drive # "busy"
  <2>1. driver_ready' = TRUE /\ ata_pc' = "idle" /\ spin' = 0 /\ ata_result' = TRUE
    BY <1>2 DEF InitPoll, AtaReturn
  <2>2. 0 \in 0 .. SpinLimit - 1 /\ TRUE \in BOOLEAN
    BY AtaConstants
  <2>3. QED BY <1>1, <2>1, <2>2, QuietKeepsInv
<1>3. CASE ~(drive # "busy")
  <2>1. driver_ready' = FALSE /\ SpinOn(AtaReturn(FALSE))
    BY <1>3 DEF InitPoll
  <2>2. driver_ready' \in BOOLEAN
    BY <2>1, Zenon
  <2>3. QED BY <1>1, <2>1, <2>2, SpinEffect, QuietKeepsInv DEF AtaInv
<1>4. QED BY <1>2, <1>3

\* What the driver does on its own, in whatever program calls it.
LEMMA DriverKeepsInv ==
  ASSUME AtaInv, DriverStep
  PROVE  AtaInv'
BY InitPollKeepsInv, CommandKeepsInv, SectorKeepsInv, NoSectorKeepsInv DEF DriverStep

\* The start of ata_init.
LEMMA BeginInitKeepsInv ==
  ASSUME AtaInv, ata_init
  PROVE  AtaInv'
<1>1. /\ ata_pc = "idle" /\ ata_pc' = "init" /\ spin' = 0
      /\ UNCHANGED <<driver_ready, ata_result>> /\ UNCHANGED <<readVars, driveVars>>
  BY DEF ata_init
<1>2. driver_ready' \in BOOLEAN /\ ata_result' \in BOOLEAN
  BY <1>1, Zenon DEF AtaInv, AtaTypeOK
<1>3. 0 \in 0 .. SpinLimit - 1
  BY AtaConstants
<1>4. QED BY <1>1, <1>2, <1>3, QuietKeepsInv

\* A refused read.
LEMMA RefusedKeepsInv ==
  ASSUME AtaInv, NEW first, NEW count, ReadRefused(first, count)
  PROVE  AtaInv'
<1>1. /\ ata_pc' = ata_pc /\ spin' = spin /\ ata_result' = FALSE
      /\ driver_ready' = driver_ready /\ UNCHANGED <<readVars, driveVars>>
  BY DEF ReadRefused
<1>2. driver_ready' \in BOOLEAN /\ ata_result' \in BOOLEAN
  BY <1>1, Zenon DEF AtaInv, AtaTypeOK
<1>3. spin' \in 0 .. SpinLimit - 1
  BY <1>1 DEF AtaInv, AtaTypeOK
<1>4. QED BY <1>1, <1>2, <1>3, QuietKeepsInv

\* Every step.
LEMMA StepKeepsInv ==
  ASSUME AtaInv, [AtaNext]_ataVars
  PROVE  AtaInv'
<1>1. CASE ata_init
  BY <1>1, BeginInitKeepsInv
<1>2. CASE \E r \in Reads : ReadRefused(r[1], r[2]) \/ ata_read(r[1], r[2])
  <2>1. PICK r \in Reads : ReadRefused(r[1], r[2]) \/ ata_read(r[1], r[2])
    BY <1>2
  <2>2. r[1] \in Nat /\ r[2] \in Nat /\ r[1] + r[2] <= DiskSectors
    BY AtaAssumption
  <2>3. QED BY <2>1, <2>2, RefusedKeepsInv, BeginKeepsInv
<1>3. CASE DriverStep
  BY <1>3, DriverKeepsInv
<1>4. CASE DriveAnswers
  BY <1>4, DriveKeepsInv
<1>5. CASE UNCHANGED ataVars
  BY <1>5 DEF ataVars, readVars, driveVars, AtaInv, AtaTypeOK, ReadProgress, Reading, DriveOffers,
              ReadExact
<1>6. QED BY <1>1, <1>2, <1>3, <1>4, <1>5 DEF AtaNext

(***************************************************************************)
(* The inductive invariant of the driver and the drive.                    *)
(***************************************************************************)
THEOREM AtaInvariance == AtaSpec => []AtaInv
<1>1. AtaInit => AtaInv
  BY InitHolds
<1>2. AtaInv /\ [AtaNext]_ataVars => AtaInv'
  BY StepKeepsInv
<1>3. QED BY <1>1, <1>2, PTL DEF AtaSpec

(***************************************************************************)
(* The uint8_t chunk and sector of ata_read never overflow and no address  *)
(* leaves the disk, for every size of a command, of the disk and of reads. *)
(***************************************************************************)
THEOREM AtaTypeCorrect == AtaSpec => []AtaTypeOK
<1>1. AtaInv => AtaTypeOK
  BY DEF AtaInv
<1>2. QED BY <1>1, AtaInvariance, PTL

(***************************************************************************)
(* ata_read stores the first sectors of the range asked for, in order and  *)
(* never more than the caller has room for.                                *)
(***************************************************************************)
THEOREM ReadIsExact == AtaSpec => []ReadExact
<1>1. AtaInv => ReadExact
  BY DEF AtaInv
<1>2. QED BY <1>1, AtaInvariance, PTL

\* A step that ends a read.
LEMMA ReadEnds ==
  ASSUME AtaInv, [AtaNext]_ataVars, Reading, ~Reading'
  PROVE  ata_result' <=> Len(buffer') = sector_count
<1>1. ata_pc \in {"busy", "data"} /\ ata_pc' \notin {"busy", "data"}
  BY DEF Reading
<1>2. Len(buffer) < sector_count
  <2>1. /\ current_lba + remaining = lba + sector_count /\ remaining > 0
        /\ chunk = ChunkOf(remaining) /\ sector < chunk
        /\ Len(buffer) = current_lba - lba + sector
    BY DEF AtaInv, ReadProgress
  <2>2. /\ lba \in Nat /\ sector_count \in Nat /\ remaining \in Nat /\ current_lba \in Nat
        /\ sector \in Nat /\ chunk \in Nat
    BY AtaConstants DEF AtaInv, AtaTypeOK
  <2>3. chunk <= remaining
    BY <2>1, <2>2, ChunkBounds
  <2>4. QED BY <2>1, <2>2, <2>3
<1>3. Len(buffer) \in Nat /\ sector_count \in Nat
  BY AtaConstants DEF AtaInv, AtaTypeOK
<1>4. CASE CommandPoll
  <2>1. ata_pc = "busy"
    BY <1>4 DEF CommandPoll
  <2>2. CASE drive # "busy"
    BY <1>1, <1>4, <2>2 DEF CommandPoll
  <2>3. CASE ~(drive # "busy")
    <3>1. SpinOn(AtaReturn(FALSE)) /\ buffer' = buffer
      BY <1>4, <2>3 DEF CommandPoll, readVars
    <3>2. ata_pc' = "idle" /\ ata_result' = FALSE
      BY <1>1, <2>1, <3>1, SpinEffect DEF AtaInv
    <3>3. QED BY <1>2, <1>3, <3>1, <3>2
  <2>4. QED BY <2>2, <2>3
<1>5. CASE DataPoll
  <2>1. AtaInv'
    BY <1>5, SectorKeepsInv, NoSectorKeepsInv
  <2>2. ata_pc' \in {"idle", "init", "busy", "data"}
    BY <2>1 DEF AtaInv, AtaTypeOK
  <2>3. CASE drive = "drq"
    <3>1. ata_pc' # "init"
      BY <1>1, <1>5, <2>3 DEF DataPoll, SectorFailed, NextChunk, AtaReturn
    <3>2. ata_pc' = "idle"
      BY <1>1, <2>2, <3>1
    <3>3. QED BY <1>5, <2>3, <3>2, SectorKeepsInv
  <2>4. CASE drive # "drq"
    <3>1. ata_pc' # "init"
      BY <1>1, <1>5, <2>4 DEF DataPoll, SectorFailed, SpinOn, AtaReturn
    <3>2. ata_pc' = "idle"
      BY <1>1, <2>2, <3>1
    <3>3. ata_result' = FALSE /\ buffer' = buffer
      BY <1>5, <2>4, <3>2, NoSectorKeepsInv DEF readVars
    <3>4. QED BY <1>2, <1>3, <3>3
  <2>5. QED BY <2>3, <2>4
<1>6. ~(ata_init \/ InitPoll \/ DriveAnswers \/ UNCHANGED ataVars)
  BY <1>1 DEF ata_init, InitPoll, DriveAnswers, ataVars
<1>7. ~(\E r \in Reads : ReadRefused(r[1], r[2]) \/ ata_read(r[1], r[2]))
  BY <1>1 DEF ReadRefused, ata_read
<1>8. QED BY <1>4, <1>5, <1>6, <1>7 DEF AtaNext, DriverStep

(***************************************************************************)
(* ata_read returns TRUE exactly when the buffer is complete, whatever the *)
(* drive did.                                                              *)
(***************************************************************************)
THEOREM ReadReturnsRight == AtaSpec => ReadReturns
<1>1. ASSUME AtaInv, [AtaNext]_ataVars
      PROVE  [Reading /\ ~Reading' => (ata_result' <=> Len(buffer') = sector_count)]_ataVars
  BY <1>1, ReadEnds
<1>2. QED BY <1>1, AtaInvariance, PTL DEF AtaSpec, ReadReturns

-----------------------------------------------------------------------------
\* Every set of numbers that is not empty has a least one.
LEMMA LeastElement ==
  ASSUME NEW T \in SUBSET Nat, T # {}
  PROVE  \E n \in T : \A m \in T : n <= m
<1> DEFINE R == {ss \in Nat \X Nat : ss[1] < ss[2]}
<1>1. IsWellFoundedOn(R, Nat)
  BY NatLessThanWellFounded DEF OpToRel
<1> HIDE DEF R
<1>2. PICK n \in T : \A y \in T : ~(<<y, n>> \in R)
  BY <1>1, WFMin
<1>3. \A y \in T : ~(y < n)
  BY <1>2 DEF R
<1>4. QED BY <1>3

\* Induction over the numbers up to m, with the set of those that have the property.
LEMMA UpTo ==
  ASSUME NEW m \in Nat, NEW G, 1 \in G, \A k \in 1 .. m - 1 : k \in G => k + 1 \in G
  PROVE  1 .. m \subseteq G
<1> SUFFICES ASSUME ~(1 .. m \subseteq G) PROVE FALSE
  OBVIOUS
<1> DEFINE T == {k \in 1 .. m : k \notin G}
<1>1. T \in SUBSET Nat /\ T # {}
  OBVIOUS
<1>2. PICK k \in T : \A j \in T : k <= j
  BY <1>1, LeastElement
<1>3. k \in 1 .. m /\ k \notin G /\ k # 1
  BY <1>2
<1>4. k - 1 \in 1 .. m - 1 /\ (k - 1) + 1 = k /\ k - 1 \in 1 .. m
  BY <1>3
<1>5. k - 1 \notin T
  BY <1>2, <1>3
<1>6. k - 1 \in G
  BY <1>4, <1>5
<1>7. QED BY <1>3, <1>4, <1>6

-----------------------------------------------------------------------------
\* f[i] is the first i sequences in one.
Flat(seqs, f, m) == f = [i \in 1 .. m |-> IF i = 1 THEN seqs[i] ELSE f[i - 1] \o seqs[i]]

\* There is such a function for any number of sequences.
LEMMA FlatExists ==
  ASSUME NEW seqs, NEW m \in Nat, m >= 1
  PROVE  \E f : Flat(seqs, f, m)
<1> DEFINE G == {k \in 1 .. m : \E f : Flat(seqs, f, k)}
<1>1. 1 \in G
  <2>1. Flat(seqs, [i \in 1 .. 1 |-> seqs[1]], 1)
    BY DEF Flat
  <2>2. QED BY <2>1
<1>2. ASSUME NEW k \in 1 .. m - 1, k \in G PROVE k + 1 \in G
  <2>1. PICK f : Flat(seqs, f, k)
    BY <1>2
  <2> DEFINE g == [i \in 1 .. k + 1 |-> IF i = k + 1 THEN f[k] \o seqs[k + 1] ELSE f[i]]
  <2>2. Flat(seqs, g, k + 1)
    <3>1. \A i \in 1 .. k : f[i] = IF i = 1 THEN seqs[i] ELSE f[i - 1] \o seqs[i]
      BY <2>1 DEF Flat
    <3>2. ASSUME NEW i \in 1 .. k + 1 PROVE g[i] = IF i = 1 THEN seqs[i] ELSE g[i - 1] \o seqs[i]
      BY <3>1
    <3>3. g = [i \in 1 .. k + 1 |-> g[i]]
      OBVIOUS
    <3> HIDE DEF g
    <3>4. QED BY <3>2, <3>3 DEF Flat
  <2>3. k + 1 \in 1 .. m
    OBVIOUS
  <2>4. QED BY <2>2, <2>3
<1> HIDE DEF G
<1>3. 1 .. m \subseteq G
  BY <1>1, <1>2, UpTo
<1>4. QED BY <1>3 DEF G

\* FlattenSeq is its last value.
LEMMA FlattenIs ==
  ASSUME NEW seqs, Len(seqs) \in Nat, Len(seqs) # 0
  PROVE  \E f : Flat(seqs, f, Len(seqs)) /\ FlattenSeq(seqs) = f[Len(seqs)]
<1> DEFINE m == Len(seqs)
<1> DEFINE f == CHOOSE f : Flat(seqs, f, m)
<1>1. Flat(seqs, f, m)
  <2>1. m \in Nat /\ m >= 1
    OBVIOUS
  <2>2. QED BY <2>1, FlatExists, Zenon
<1>2. FlattenSeq(seqs) = f[m]
  BY Zenon DEF FlattenSeq, Flat
<1>3. QED BY <1>1, <1>2

\* A function on 1 .. n is a sequence.
LEMMA AsSequence ==
  ASSUME NEW S, NEW n \in Nat, NEW f \in [1 .. n -> S]
  PROVE  f \in Seq(S) /\ Len(f) = n
OBVIOUS

\* Two sequences, one behind the other.
LEMMA Joined ==
  ASSUME NEW S, NEW s \in Seq(S), NEW t \in Seq(S)
  PROVE  /\ s \o t \in Seq(S) /\ Len(s \o t) = Len(s) + Len(t)
         /\ \A p \in 1 .. Len(s) : (s \o t)[p] = s[p]
         /\ \A k \in 1 .. Len(t) : (s \o t)[Len(s) + k] = t[k]
<1>1. s \o t \in Seq(S) /\ Len(s \o t) = Len(s) + Len(t) /\ Len(s) \in Nat /\ Len(t) \in Nat
  OBVIOUS
<1>2. \A p \in 1 .. Len(s) : (s \o t)[p] = s[p]
  OBVIOUS
<1>3. ASSUME NEW k \in 1 .. Len(t) PROVE (s \o t)[Len(s) + k] = t[k]
  <2>1. Len(s) + k \in Len(s) + 1 .. Len(s) + Len(t) /\ (Len(s) + k) - Len(s) = k
    BY <1>1
  <2>2. QED BY <1>1, <2>1
<1>4. QED BY <1>1, <1>2, <1>3

\* Piece j begins behind position pos[j].
Laid(seqs, pos) ==
  /\ pos \in [1 .. Len(seqs) + 1 -> Nat] /\ pos[1] = 0
  /\ \A j \in 1 .. Len(seqs) : pos[j + 1] = pos[j] + Len(seqs[j])

\* FlattenSeq leaves every piece where the lengths of those before it put it.
LEMMA FlattenBytes ==
  ASSUME NEW S, NEW seqs \in Seq(Seq(S)), Len(seqs) # 0, NEW pos, Laid(seqs, pos)
  PROVE  /\ FlattenSeq(seqs) \in Seq(S) /\ Len(FlattenSeq(seqs)) = pos[Len(seqs) + 1]
         /\ \A j \in 1 .. Len(seqs) : \A k \in 1 .. Len(seqs[j]) :
              FlattenSeq(seqs)[pos[j] + k] = seqs[j][k]
         /\ \A j \in 1 .. Len(seqs) : pos[j] + Len(seqs[j]) <= pos[Len(seqs) + 1]
<1> DEFINE m == Len(seqs)
<1>1. m \in Nat /\ m >= 1 /\ m # 0
  OBVIOUS
<1>2. PICK f : Flat(seqs, f, m) /\ FlattenSeq(seqs) = f[m]
  BY <1>1, FlattenIs
<1> DEFINE Good(i) ==
      /\ f[i] \in Seq(S) /\ Len(f[i]) = pos[i + 1]
      /\ \A j \in 1 .. i : pos[j] + Len(seqs[j]) <= pos[i + 1]
      /\ \A j \in 1 .. i : \A k \in 1 .. Len(seqs[j]) : f[i][pos[j] + k] = seqs[j][k]
<1> DEFINE G == {i \in 1 .. m : Good(i)}
<1>3. /\ \A j \in 1 .. m : seqs[j] \in Seq(S) /\ Len(seqs[j]) \in Nat /\ j + 1 \in 1 .. m + 1
      /\ \A j \in 1 .. m + 1 : pos[j] \in Nat
      /\ pos[1] = 0 /\ \A j \in 1 .. m : pos[j + 1] = pos[j] + Len(seqs[j])
  BY <1>1 DEF Laid
<1>4. \A i \in 1 .. m : f[i] = IF i = 1 THEN seqs[i] ELSE f[i - 1] \o seqs[i]
  BY <1>2 DEF Flat
<1> HIDE DEF m
<1>5. 1 \in G
  <2>1. 1 \in 1 .. m /\ f[1] = seqs[1] /\ pos[1 + 1] = Len(seqs[1]) /\ seqs[1] \in Seq(S)
        /\ Len(seqs[1]) \in Nat
    BY <1>1, <1>3, <1>4
  <2>2. ASSUME NEW j \in 1 .. 1 PROVE pos[j] + Len(seqs[j]) <= pos[1 + 1]
    BY <1>3, <2>1
  <2>3. ASSUME NEW j \in 1 .. 1, NEW k \in 1 .. Len(seqs[j]) PROVE f[1][pos[j] + k] = seqs[j][k]
    <3>1. j = 1 /\ pos[j] + k = k
      BY <1>3, <2>1
    <3>2. QED BY <2>1, <3>1
  <2>4. QED BY <2>1, <2>2, <2>3
<1>6. ASSUME NEW i \in 1 .. m - 1, i \in G PROVE i + 1 \in G
  <2>0. i \in 1 .. m /\ i + 1 \in 1 .. m /\ i + 1 # 1 /\ (i + 1) - 1 = i /\ (i + 1) + 1 \in 1 .. m + 1
        /\ i \in Int
    BY <1>1
  <2> DEFINE n == i + 1
  <2>1. n \in 1 .. m /\ n # 1 /\ n - 1 = i /\ n + 1 \in 1 .. m + 1
    BY <2>0
  <2>2. Good(i)
    BY <1>6
  <2>3. pos[n] \in Nat /\ pos[n + 1] = pos[n] + Len(seqs[n]) /\ seqs[n] \in Seq(S) /\ Len(seqs[n]) \in Nat
        /\ pos[n + 1] \in Nat /\ n \in 1 .. m + 1
    BY <1>1, <1>3, <2>1
  <2>4. f[n] = f[i] \o seqs[n]
    BY <1>4, <2>1
  <2>5. f[i] \in Seq(S) /\ Len(f[i]) = pos[n]
    BY <2>2
  <2> DEFINE old == f[i]
  <2> DEFINE new == seqs[n]
  <2>6. old \in Seq(S) /\ new \in Seq(S) /\ Len(old) = pos[n] /\ f[n] = old \o new
    BY <2>3, <2>4, <2>5
  <2>7. old \in Seq(S) /\ new \in Seq(S)
    BY <2>6
  <2> HIDE DEF old, new
  <2>8. /\ old \o new \in Seq(S) /\ Len(old \o new) = Len(old) + Len(new)
         /\ \A p \in 1 .. Len(old) : (old \o new)[p] = old[p]
         /\ \A k \in 1 .. Len(new) : (old \o new)[Len(old) + k] = new[k]
    BY <2>7, Joined
  <2>9. \A j \in 1 .. n : j \in 1 .. i \/ j = n
    BY <2>0
  <2> HIDE DEF n
  <2>10. f[n] \in Seq(S) /\ Len(f[n]) = pos[n + 1]
    BY <2>3, <2>6, <2>8 DEF new
  <2>11. ASSUME NEW j \in 1 .. n PROVE pos[j] + Len(seqs[j]) <= pos[n + 1]
    <3>1. CASE j \in 1 .. i
      <4>1. j \in 1 .. m /\ j \in 1 .. m + 1
        BY <1>1, <2>0, <3>1
      <4>2. pos[j] + Len(seqs[j]) <= pos[n] /\ pos[j] + Len(seqs[j]) \in Nat
        BY <1>3, <2>2, <3>1, <4>1 DEF n
      <4>3. QED BY <2>3, <4>2
    <3>2. CASE j = n
      BY <2>3, <3>2
    <3>3. QED BY <2>9, <3>1, <3>2
  <2>12. ASSUME NEW j \in 1 .. n, NEW k \in 1 .. Len(seqs[j]) PROVE f[n][pos[j] + k] = seqs[j][k]
    <3>1. CASE j \in 1 .. i
      <4>1. j \in 1 .. m /\ j \in 1 .. m + 1
        BY <1>1, <2>0, <3>1
      <4>2. pos[j] + Len(seqs[j]) <= pos[n] /\ pos[j] \in Nat /\ Len(seqs[j]) \in Nat
        BY <1>3, <2>2, <3>1, <4>1 DEF n
      <4>3. pos[j] + k \in 1 .. Len(f[i])
        <5>1. k \in Nat /\ k >= 1 /\ k <= Len(seqs[j])
          BY <4>2
        <5>2. pos[n] \in Nat
          BY <2>3
        <5>3. QED BY <2>5, <4>2, <5>1, <5>2
      <4>4. f[n][pos[j] + k] = f[i][pos[j] + k]
        <5>1. pos[j] + k \in 1 .. Len(old)
          BY <4>3 DEF old
        <5>2. (old \o new)[pos[j] + k] = old[pos[j] + k]
          BY <2>8, <5>1
        <5>3. QED BY <2>6, <5>2 DEF old
      <4>5. f[i][pos[j] + k] = seqs[j][k]
        BY <2>2, <3>1
      <4>6. QED BY <4>4, <4>5
    <3>2. CASE j = n
      <4>1. k \in 1 .. Len(new)
        BY <3>2 DEF new
      <4>2. (old \o new)[Len(old) + k] = new[k]
        BY <2>8, <4>1
      <4>3. QED BY <2>6, <3>2, <4>2 DEF new
    <3>3. QED BY <2>9, <3>1, <3>2
  <2>13. Good(n)
    BY <2>10, <2>11, <2>12
  <2>14. QED BY <2>1, <2>13 DEF n
<1>7. m \in G
  <2> HIDE DEF G
  <2>1. 1 .. m \subseteq G
    BY <1>1, <1>5, <1>6, UpTo
  <2>2. QED BY <1>1, <2>1
<1>8. Good(m)
  BY <1>7
<1>9. QED BY <1>2, <1>8 DEF m

-----------------------------------------------------------------------------
\* A list of files, as far as the layout is concerned.
Packed(list) ==
  list \in Seq({list[i] : i \in DOMAIN list}) /\ \A i \in DOMAIN list : list[i].size \in Nat

\* Its length and its sizes.
LEMMA PackedSizes ==
  ASSUME NEW list, Packed(list)
  PROVE  Len(list) \in Nat /\ DOMAIN list = 1 .. Len(list) /\ \A i \in 1 .. Len(list) : list[i].size \in Nat
BY DEF Packed

\* f[i] is the offset of file i.
Offsets(list, f, m) ==
  f = [i \in 1 .. m |-> IF i = 1 THEN header_size(list) ELSE f[i - 1] + list[i - 1].size]

\* There is such a function for any number of files.
LEMMA OffsetsExist ==
  ASSUME NEW list, NEW m \in Nat, m >= 1
  PROVE  \E f : Offsets(list, f, m)
<1> DEFINE G == {k \in 1 .. m : \E f : Offsets(list, f, k)}
<1>1. 1 \in G
  <2>1. Offsets(list, [i \in 1 .. 1 |-> header_size(list)], 1)
    BY DEF Offsets
  <2>2. QED BY <2>1
<1>2. ASSUME NEW k \in 1 .. m - 1, k \in G PROVE k + 1 \in G
  <2>1. PICK f : Offsets(list, f, k)
    BY <1>2
  <2> DEFINE g == [i \in 1 .. k + 1 |-> IF i = k + 1 THEN f[k] + list[k].size ELSE f[i]]
  <2>2. Offsets(list, g, k + 1)
    <3>1. \A i \in 1 .. k : f[i] = IF i = 1 THEN header_size(list) ELSE f[i - 1] + list[i - 1].size
      BY <2>1 DEF Offsets
    <3>2. ASSUME NEW i \in 1 .. k + 1
          PROVE  g[i] = IF i = 1 THEN header_size(list) ELSE g[i - 1] + list[i - 1].size
      BY <3>1
    <3>3. g = [i \in 1 .. k + 1 |-> g[i]]
      OBVIOUS
    <3> HIDE DEF g
    <3>4. QED BY <3>2, <3>3 DEF Offsets
  <2>3. k + 1 \in 1 .. m
    OBVIOUS
  <2>4. QED BY <2>2, <2>3
<1> HIDE DEF G
<1>3. 1 .. m \subseteq G
  BY <1>1, <1>2, UpTo
<1>4. QED BY <1>3 DEF G

\* running_offset starts behind the catalogue and grows by the size of each file.
LEMMA RunningOffset ==
  ASSUME NEW list, Packed(list), NEW off, off = running_offset(list)
  PROVE  /\ off \in [1 .. Len(list) + 1 -> Nat]
         /\ off[1] = header_size(list)
         /\ \A i \in 1 .. Len(list) : off[i + 1] = off[i] + list[i].size
<1> DEFINE n == Len(list)
<1>1. n \in Nat /\ n + 1 \in Nat /\ n + 1 >= 1 /\ \A i \in 1 .. n : list[i].size \in Nat
  BY PackedSizes
<1> DEFINE f == CHOOSE f : Offsets(list, f, n + 1)
<1>2. Offsets(list, f, n + 1)
  BY <1>1, OffsetsExist, Zenon
<1>3. off = f
  BY Zenon DEF running_offset, Offsets
<1>4. header_size(list) \in Nat
  BY <1>1, AppVolumeAssumption DEF header_size
<1> HIDE DEF f, n
<1>5. off = [i \in 1 .. n + 1 |-> off[i]]
  BY <1>2, <1>3 DEF Offsets
<1>6. \A i \in 1 .. n + 1 : off[i] = IF i = 1 THEN header_size(list) ELSE off[i - 1] + list[i - 1].size
  BY <1>2, <1>3 DEF Offsets
<1>7. off[1] = header_size(list)
  BY <1>1, <1>6
<1>8. ASSUME NEW i \in 1 .. n PROVE off[i + 1] = off[i] + list[i].size
  <2>1. i + 1 \in 1 .. n + 1 /\ i + 1 # 1 /\ (i + 1) - 1 = i
    BY <1>1
  <2>2. QED BY <1>6, <2>1
<1>9. 1 .. n + 1 \subseteq {i \in 1 .. n + 1 : off[i] \in Nat}
  <2> DEFINE G == {i \in 1 .. n + 1 : off[i] \in Nat}
  <2>1. 1 \in G
    BY <1>1, <1>4, <1>7
  <2>2. ASSUME NEW k \in 1 .. (n + 1) - 1, k \in G PROVE k + 1 \in G
    <3>1. k \in 1 .. n /\ k + 1 \in 1 .. n + 1
      BY <1>1
    <3>2. off[k + 1] = off[k] + list[k].size /\ off[k] \in Nat /\ list[k].size \in Nat
      BY <1>1, <1>8, <2>2, <3>1
    <3>3. QED BY <3>1, <3>2
  <2> HIDE DEF G
  <2>3. 1 .. n + 1 \subseteq G
    BY <1>1, <2>1, <2>2, UpTo
  <2>4. QED BY <2>3 DEF G
<1>10. off \in [1 .. n + 1 -> Nat]
  BY <1>5, <1>9
<1>11. QED BY <1>7, <1>8, <1>10 DEF n

\* All bytes of a volume.
BytesOf(list) ==
  {Header(list), [kind |-> "inside"]} \cup {Entry(list, i) : i \in 1 .. Len(list)}
    \cup {DataByte(i, k) : i \in 1 .. Len(list), k \in Nat}

\* A header or an entry has its fields in its first byte.
LEMMA StructBytes ==
  ASSUME NEW list, NEW fields \in BytesOf(list), NEW bytes \in Nat
  PROVE  /\ Struct(fields, bytes) \in Seq(BytesOf(list)) /\ Len(Struct(fields, bytes)) = bytes
         /\ bytes > 0 => Struct(fields, bytes)[1] = fields
<1> DEFINE s == Struct(fields, bytes)
<1>1. [kind |-> "inside"] \in BytesOf(list)
  BY DEF BytesOf
<1>2. s \in [1 .. bytes -> BytesOf(list)]
  <2>1. s = [k \in 1 .. bytes |-> IF k = 1 THEN fields ELSE [kind |-> "inside"]]
    BY DEF Struct
  <2>2. QED BY <1>1, <2>1
<1>3. bytes > 0 => s[1] = fields
  BY DEF Struct
<1>4. s \in Seq(BytesOf(list)) /\ Len(s) = bytes
  <2> HIDE DEF s
  <2>1. QED BY <1>2, AsSequence
<1>5. QED BY <1>3, <1>4

\* A file has its own bytes.
LEMMA PayloadBytes ==
  ASSUME NEW list, NEW i \in 1 .. Len(list), list[i].size \in Nat
  PROVE  /\ Payload(list, i) \in Seq(BytesOf(list)) /\ Len(Payload(list, i)) = list[i].size
         /\ \A k \in 1 .. list[i].size : Payload(list, i)[k] = DataByte(i, k - 1)
<1> DEFINE s == Payload(list, i)
<1>1. s = [k \in 1 .. list[i].size |-> DataByte(i, k - 1)]
  BY DEF Payload
<1>2. ASSUME NEW k \in 1 .. list[i].size PROVE DataByte(i, k - 1) \in BytesOf(list)
  <2>1. k - 1 \in Nat
    OBVIOUS
  <2>2. QED BY <2>1 DEF BytesOf
<1> HIDE DEF s
<1>3. s \in [1 .. list[i].size -> BytesOf(list)]
  BY <1>1, <1>2
<1>4. s \in Seq(BytesOf(list)) /\ Len(s) = list[i].size
  BY <1>3, AsSequence
<1>5. QED BY <1>1, <1>4 DEF s

\* The pieces, in their order.
LEMMA PiecesInOrder ==
  ASSUME NEW list, Packed(list), NEW n, n = Len(list), NEW pieces, pieces = Pieces(list)
  PROVE  /\ pieces \in Seq(Seq(BytesOf(list))) /\ Len(pieces) = 2 * n + 1
         /\ pieces[1] = Struct(Header(list), HeaderBytes)
         /\ \A i \in 1 .. n : pieces[1 + i] = Struct(Entry(list, i), EntryBytes)
         /\ \A i \in 1 .. n : pieces[1 + n + i] = Payload(list, i)
<1> DEFINE S == Seq(BytesOf(list))
<1> DEFINE a == <<Struct(Header(list), HeaderBytes)>>
<1> DEFINE b == [i \in 1 .. n |-> Struct(Entry(list, i), EntryBytes)]
<1> DEFINE c == [i \in 1 .. n |-> Payload(list, i)]
<1>1. n \in Nat /\ \A i \in 1 .. n : list[i].size \in Nat
  BY PackedSizes
<1>2. HeaderBytes \in Nat /\ EntryBytes \in Nat
  BY AppVolumeAssumption
<1>3. Struct(Header(list), HeaderBytes) \in S
  <2>1. Header(list) \in BytesOf(list)
    BY DEF BytesOf
  <2>2. QED BY <1>2, <2>1, StructBytes
<1>4. \A i \in 1 .. n : Struct(Entry(list, i), EntryBytes) \in S
  <2>1. \A i \in 1 .. n : Entry(list, i) \in BytesOf(list)
    BY DEF BytesOf
  <2>2. QED BY <1>2, <2>1, StructBytes
<1>5. \A i \in 1 .. n : Payload(list, i) \in S
  BY <1>1, PayloadBytes
<1> HIDE DEF S
<1>6. a \in Seq(S) /\ Len(a) = 1 /\ a[1] = Struct(Header(list), HeaderBytes)
  BY <1>3
<1>7. b \in Seq(S) /\ Len(b) = n /\ \A i \in 1 .. n : b[i] = Struct(Entry(list, i), EntryBytes)
  <2>1. b \in [1 .. n -> S] /\ \A i \in 1 .. n : b[i] = Struct(Entry(list, i), EntryBytes)
    BY <1>4
  <2> HIDE DEF b
  <2>2. QED BY <1>1, <2>1, AsSequence
<1>8. c \in Seq(S) /\ Len(c) = n /\ \A i \in 1 .. n : c[i] = Payload(list, i)
  <2>1. c \in [1 .. n -> S] /\ \A i \in 1 .. n : c[i] = Payload(list, i)
    BY <1>5
  <2> HIDE DEF c
  <2>2. QED BY <1>1, <2>1, AsSequence
<1>9. pieces = (a \o b) \o c
  BY DEF Pieces
<1> HIDE DEF a, b, c
<1>10. a \in Seq(S) /\ b \in Seq(S) /\ c \in Seq(S)
  BY <1>6, <1>7, <1>8
<1>11. /\ a \o b \in Seq(S) /\ Len(a \o b) = Len(a) + Len(b)
       /\ \A p \in 1 .. Len(a) : (a \o b)[p] = a[p]
       /\ \A k \in 1 .. Len(b) : (a \o b)[Len(a) + k] = b[k]
  BY <1>10, Joined
<1> DEFINE d == a \o b
<1>12. /\ d \in Seq(S) /\ Len(d) = 1 + n /\ d[1] = a[1]
       /\ \A i \in 1 .. n : d[1 + i] = b[i]
  BY <1>1, <1>6, <1>7, <1>11
<1>13. d \in Seq(S)
  BY <1>12
<1> HIDE DEF d
<1>14. /\ d \o c \in Seq(S) /\ Len(d \o c) = Len(d) + Len(c)
       /\ \A p \in 1 .. Len(d) : (d \o c)[p] = d[p]
       /\ \A k \in 1 .. Len(c) : (d \o c)[Len(d) + k] = c[k]
  BY <1>10, <1>13, Joined
<1>15. pieces = d \o c
  BY <1>9 DEF d
<1>16. pieces \in Seq(S) /\ Len(pieces) = 2 * n + 1
  BY <1>1, <1>8, <1>12, <1>14, <1>15
<1>17. pieces[1] = Struct(Header(list), HeaderBytes)
  <2>1. 1 \in 1 .. Len(d)
    BY <1>1, <1>12
  <2>2. QED BY <1>6, <1>12, <1>14, <1>15, <2>1
<1>18. ASSUME NEW i \in 1 .. n PROVE pieces[1 + i] = Struct(Entry(list, i), EntryBytes)
  <2>1. 1 + i \in 1 .. Len(d)
    BY <1>1, <1>12
  <2>2. (d \o c)[1 + i] = d[1 + i]
    BY <1>14, <2>1
  <2>3. QED BY <1>7, <1>12, <1>15, <2>2
<1>19. ASSUME NEW i \in 1 .. n PROVE pieces[1 + n + i] = Payload(list, i)
  <2>1. i \in 1 .. Len(c)
    BY <1>8
  <2>2. (d \o c)[Len(d) + i] = c[i]
    BY <1>14, <2>1
  <2>3. QED BY <1>8, <1>12, <1>15, <2>2
<1>20. QED BY <1>16, <1>17, <1>18, <1>19 DEF S

\* Another entry.
LEMMA OneMore ==
  ASSUME NEW a \in Nat, NEW e \in Nat
  PROVE  a * e \in Nat /\ (a + 1) * e = a * e + e /\ a * e = e * a
OBVIOUS

\* Where entry i of the catalogue begins, counted from 1.
EntryOffset(i) == HeaderBytes + (i - 1) * EntryBytes

\* Where each piece begins.
PiecePositions(list) ==
  LET n == Len(list)
  IN  [j \in 1 .. 2 * n + 2 |-> IF j = 1 THEN 0 ELSE IF j <= n + 1 THEN EntryOffset(j - 1)
                                                     ELSE running_offset(list)[j - n - 1]]

\* The pieces begin where EntryOffset and running_offset say.
LEMMA PiecesLaid ==
  ASSUME NEW list, Packed(list), NEW n, n = Len(list), NEW off, off = running_offset(list),
         NEW pos, pos = PiecePositions(list)
  PROVE  /\ Laid(Pieces(list), pos)
         /\ pos[1] = 0 /\ \A i \in 1 .. n : pos[1 + i] = EntryOffset(i)
         /\ \A i \in 1 .. n + 1 : pos[1 + n + i] = off[i]
<1> DEFINE pieces == Pieces(list)
<1>1. n \in Nat /\ \A i \in 1 .. n : list[i].size \in Nat
  BY PackedSizes
<1>2. HeaderBytes \in Nat /\ EntryBytes \in Nat /\ HeaderBytes > 0 /\ EntryBytes > 0
  BY AppVolumeAssumption
<1>3. /\ off \in [1 .. n + 1 -> Nat] /\ off[1] = header_size(list)
      /\ \A i \in 1 .. n : off[i + 1] = off[i] + list[i].size
  BY RunningOffset
<1>4. /\ pieces \in Seq(Seq(BytesOf(list))) /\ Len(pieces) = 2 * n + 1
      /\ pieces[1] = Struct(Header(list), HeaderBytes)
      /\ \A i \in 1 .. n : pieces[1 + i] = Struct(Entry(list, i), EntryBytes)
      /\ \A i \in 1 .. n : pieces[1 + n + i] = Payload(list, i)
  BY PiecesInOrder
<1>5. Len(Struct(Header(list), HeaderBytes)) = HeaderBytes
  <2>1. Header(list) \in BytesOf(list)
    BY DEF BytesOf
  <2>2. QED BY <1>2, <2>1, StructBytes
<1>6. \A i \in 1 .. n : Len(Struct(Entry(list, i), EntryBytes)) = EntryBytes
  <2>1. \A i \in 1 .. n : Entry(list, i) \in BytesOf(list)
    BY DEF BytesOf
  <2>2. QED BY <1>2, <2>1, StructBytes
<1>7. \A i \in 1 .. n : Len(Payload(list, i)) = list[i].size
  BY <1>1, PayloadBytes
<1> HIDE DEF pieces
<1>8. \A i \in 1 .. n : EntryOffset(i) \in Nat /\ EntryOffset(i + 1) = EntryOffset(i) + EntryBytes
  <2> TAKE i \in 1 .. n
  <2> DEFINE a == i - 1
  <2>1. a \in Nat /\ a + 1 = (i + 1) - 1
    BY <1>1
  <2>2. EntryOffset(i) = HeaderBytes + a * EntryBytes /\ EntryOffset(i + 1) = HeaderBytes + (a + 1) * EntryBytes
    BY <2>1 DEF EntryOffset
  <2> HIDE DEF a
  <2>3. a * EntryBytes \in Nat /\ (a + 1) * EntryBytes = a * EntryBytes + EntryBytes
    BY <1>2, <2>1, OneMore
  <2>4. QED BY <1>2, <2>2, <2>3
<1>9. off[1] = EntryOffset(n + 1) /\ EntryOffset(1) = HeaderBytes
  <2>1. (n + 1) - 1 = n /\ n * EntryBytes = EntryBytes * n /\ (1 - 1) * EntryBytes = 0
    BY <1>1, <1>2
  <2>2. QED BY <1>2, <1>3, <2>1 DEF EntryOffset, header_size
<1>10. pos = [j \in 1 .. 2 * n + 2 |-> IF j = 1 THEN 0 ELSE IF j <= n + 1 THEN EntryOffset(j - 1)
                                                                     ELSE off[j - n - 1]]
  BY DEF PiecePositions
<1>11. pos[1] = 0
  BY <1>1, <1>10
<1>12. ASSUME NEW i \in 1 .. n PROVE pos[1 + i] = EntryOffset(i)
  <2>1. 1 + i \in 1 .. 2 * n + 2 /\ 1 + i # 1 /\ 1 + i <= n + 1 /\ (1 + i) - 1 = i
    BY <1>1
  <2>2. QED BY <1>10, <2>1
<1>13. ASSUME NEW i \in 1 .. n + 1 PROVE pos[1 + n + i] = off[i]
  <2>1. /\ 1 + n + i \in 1 .. 2 * n + 2 /\ 1 + n + i # 1 /\ ~(1 + n + i <= n + 1)
        /\ (1 + n + i) - n - 1 = i
    BY <1>1
  <2>2. QED BY <1>10, <2>1
<1>14. pos \in [1 .. (2 * n + 1) + 1 -> Nat]
  <2>1. ASSUME NEW j \in 1 .. 2 * n + 2 PROVE pos[j] \in Nat
    <3>1. CASE j = 1
      BY <1>11, <3>1
    <3>2. CASE j # 1 /\ j <= n + 1
      <4> DEFINE i == j - 1
      <4>1. i \in 1 .. n /\ j = 1 + i
        BY <1>1, <3>2
      <4> HIDE DEF i
      <4>2. QED BY <1>8, <1>12, <4>1
    <3>3. CASE j > n + 1
      <4> DEFINE i == j - n - 1
      <4>1. i \in 1 .. n + 1 /\ j = 1 + n + i
        BY <1>1, <3>3
      <4> HIDE DEF i
      <4>2. QED BY <1>3, <1>13, <4>1
    <3>4. j = 1 \/ (j # 1 /\ j <= n + 1) \/ j > n + 1
      BY <1>1
    <3>5. QED BY <3>1, <3>2, <3>3, <3>4
  <2>2. pos = [j \in 1 .. 2 * n + 2 |-> pos[j]]
    BY <1>10
  <2>3. (2 * n + 1) + 1 = 2 * n + 2
    BY <1>1
  <2>4. QED BY <2>1, <2>2, <2>3
<1>15. ASSUME NEW j \in 1 .. 2 * n + 1 PROVE pos[j + 1] = pos[j] + Len(pieces[j])
  <2>0. j \in Int /\ n \in Int
    BY <1>1
  <2>1. CASE j = 1 /\ n = 0
    <3>1. 1 \in 1 .. n + 1 /\ j + 1 = 1 + n + 1
      BY <2>1
    <3>2. pos[j + 1] = off[1]
      BY <1>13, <3>1
    <3>3. EntryOffset(n + 1) = HeaderBytes
      BY <1>9, <2>1
    <3>4. Len(pieces[j]) = HeaderBytes /\ pos[j] = 0
      BY <1>4, <1>5, <1>11, <2>1
    <3>5. QED BY <1>2, <1>9, <3>2, <3>3, <3>4
  <2>2. CASE j = 1 /\ n # 0
    <3>1. 1 \in 1 .. n /\ j + 1 = 1 + 1
      BY <1>1, <2>2
    <3>2. pos[j + 1] = EntryOffset(1)
      BY <1>12, <3>1
    <3>3. QED BY <1>2, <1>4, <1>5, <1>9, <1>11, <2>2, <3>2
  <2>3. CASE j # 1 /\ j <= n
    <3> DEFINE i == j - 1
    <3>1. i \in 1 .. n /\ i + 1 \in 1 .. n /\ j = 1 + i /\ j + 1 = 1 + (i + 1)
      BY <2>0, <2>3
    <3> HIDE DEF i
    <3>2. pos[j + 1] = EntryOffset(i + 1) /\ pos[j] = EntryOffset(i)
      BY <1>12, <3>1
    <3>3. Len(pieces[j]) = EntryBytes
      BY <1>4, <1>6, <3>1
    <3>4. QED BY <1>8, <3>1, <3>2, <3>3
  <2>4. CASE j # 1 /\ j = n + 1
    <3>1. n \in 1 .. n /\ 1 \in 1 .. n + 1 /\ j = 1 + n /\ j + 1 = 1 + n + 1
      BY <1>1, <2>4
    <3>2. pos[j + 1] = off[1] /\ pos[j] = EntryOffset(n)
      BY <1>12, <1>13, <3>1
    <3>3. Len(pieces[j]) = EntryBytes
      BY <1>4, <1>6, <3>1
    <3>4. QED BY <1>8, <1>9, <3>1, <3>2, <3>3
  <2>5. CASE j > n + 1
    <3> DEFINE i == j - n - 1
    <3>1. i \in 1 .. n /\ i \in 1 .. n + 1 /\ i + 1 \in 1 .. n + 1 /\ j = 1 + n + i
          /\ j + 1 = 1 + n + (i + 1)
      BY <2>0, <2>5
    <3> HIDE DEF i
    <3>2. pos[j + 1] = off[i + 1] /\ pos[j] = off[i]
      BY <1>13, <3>1
    <3>3. Len(pieces[j]) = list[i].size
      BY <1>4, <1>7, <3>1
    <3>4. QED BY <1>3, <3>1, <3>2, <3>3
  <2>6. (j = 1 /\ n = 0) \/ (j = 1 /\ n # 0) \/ (j # 1 /\ j <= n) \/ (j # 1 /\ j = n + 1) \/ j > n + 1
    BY <2>0
  <2>7. QED BY <2>1, <2>2, <2>3, <2>4, <2>5, <2>6
<1>16. Laid(pieces, pos)
  BY <1>4, <1>11, <1>14, <1>15 DEF Laid
<1>17. QED BY <1>11, <1>12, <1>13, <1>16 DEF pieces

\* The bytes w of n files with the offsets off.
LaidOut(list, n, off, w) ==
  /\ w \in Seq(BytesOf(list)) /\ Len(w) = off[n + 1] /\ Len(w) >= 1
  /\ w[1] = Header(list)
  /\ \A i \in 1 .. n : /\ EntryOffset(i) \in Nat /\ EntryOffset(i) < Len(w)
                       /\ w[EntryOffset(i) + 1] = Entry(list, i)
  /\ \A i \in 1 .. n : off[i] \in Nat /\ off[i] + list[i].size <= Len(w)
  /\ \A i \in 1 .. n : \A k \in 1 .. list[i].size : w[off[i] + k] = DataByte(i, k - 1)

(***************************************************************************)
(* What mkappfs.c writes, byte by byte: the header first, entry i of the   *)
(* catalogue where entry i is looked for, and the bytes of file i from the *)
(* running_offset that its entry says, all within image_size.              *)
(***************************************************************************)
THEOREM Layout ==
  ASSUME NEW list, Packed(list)
  PROVE  LaidOut(list, Len(list), running_offset(list), Written(list))
<1> DEFINE n == Len(list)
<1> DEFINE off == running_offset(list)
<1> DEFINE w == Written(list)
<1>0. n = Len(list) /\ off = running_offset(list) /\ w = Written(list)
  OBVIOUS
<1> HIDE DEF n, off, w
<1> DEFINE pieces == Pieces(list)
<1> DEFINE pos == PiecePositions(list)
<1>1. n \in Nat /\ \A i \in 1 .. n : list[i].size \in Nat
  BY <1>0, PackedSizes
<1>2. HeaderBytes \in Nat /\ EntryBytes \in Nat /\ HeaderBytes > 0 /\ EntryBytes > 0
  BY AppVolumeAssumption
<1>3. /\ pieces \in Seq(Seq(BytesOf(list))) /\ Len(pieces) = 2 * n + 1
      /\ pieces[1] = Struct(Header(list), HeaderBytes)
      /\ \A i \in 1 .. n : pieces[1 + i] = Struct(Entry(list, i), EntryBytes)
      /\ \A i \in 1 .. n : pieces[1 + n + i] = Payload(list, i)
  BY <1>0, PiecesInOrder
<1>4. /\ Laid(pieces, pos)
      /\ pos[1] = 0 /\ \A i \in 1 .. n : pos[1 + i] = EntryOffset(i)
      /\ \A i \in 1 .. n + 1 : pos[1 + n + i] = off[i]
  <2>1. pos = PiecePositions(list)
    OBVIOUS
  <2> HIDE DEF pos
  <2>2. QED BY <1>0, <2>1, PiecesLaid
<1>5. w = FlattenSeq(pieces)
  BY <1>0 DEF Written
<1>6. off \in [1 .. n + 1 -> Nat]
  BY <1>0, RunningOffset
<1> HIDE DEF pieces, pos
<1>7. pieces \in Seq(Seq(BytesOf(list))) /\ Len(pieces) # 0 /\ Laid(pieces, pos)
  BY <1>1, <1>3, <1>4
<1>8. /\ w \in Seq(BytesOf(list)) /\ Len(w) = pos[Len(pieces) + 1]
      /\ \A j \in 1 .. Len(pieces) : \A k \in 1 .. Len(pieces[j]) : w[pos[j] + k] = pieces[j][k]
      /\ \A j \in 1 .. Len(pieces) : pos[j] + Len(pieces[j]) <= pos[Len(pieces) + 1]
  BY <1>5, <1>7, FlattenBytes
<1>9. Len(w) = off[n + 1] /\ Len(w) \in Nat
  <2>1. n + 1 \in 1 .. n + 1 /\ Len(pieces) + 1 = 1 + n + (n + 1)
    BY <1>1, <1>3
  <2>2. QED BY <1>4, <1>6, <1>8, <2>1
<1>10. /\ Len(pieces[1]) = HeaderBytes /\ pieces[1][1] = Header(list)
  <2>1. Header(list) \in BytesOf(list)
    BY DEF BytesOf
  <2>2. Len(Struct(Header(list), HeaderBytes)) = HeaderBytes
        /\ Struct(Header(list), HeaderBytes)[1] = Header(list)
    BY <1>2, <2>1, StructBytes
  <2>3. QED BY <1>3, <2>2
<1>11. w[1] = Header(list) /\ Len(w) >= 1
  <2>1. 1 \in 1 .. Len(pieces) /\ 1 \in 1 .. Len(pieces[1])
    BY <1>1, <1>2, <1>3, <1>10
  <2>2. w[pos[1] + 1] = pieces[1][1] /\ pos[1] + Len(pieces[1]) <= Len(w)
    BY <1>8, <2>1
  <2>3. pos[1] + 1 = 1
    BY <1>4
  <2>4. QED BY <1>2, <1>4, <1>9, <1>10, <2>2, <2>3
<1>12. ASSUME NEW i \in 1 .. n
       PROVE  EntryOffset(i) \in Nat /\ EntryOffset(i) < Len(w) /\ w[EntryOffset(i) + 1] = Entry(list, i)
  <2> DEFINE j == 1 + i
  <2>1. j \in 1 .. Len(pieces) /\ j \in 1 .. Len(pieces) + 1
    BY <1>1, <1>3
  <2>2. pieces[j] = Struct(Entry(list, i), EntryBytes) /\ pos[j] = EntryOffset(i)
    BY <1>3, <1>4
  <2> HIDE DEF j
  <2>3. Len(pieces[j]) = EntryBytes /\ pieces[j][1] = Entry(list, i)
    <3>1. Entry(list, i) \in BytesOf(list)
      BY <1>0 DEF BytesOf
    <3>2. QED BY <1>2, <2>2, <3>1, StructBytes
  <2>4. 1 \in 1 .. Len(pieces[j])
    BY <1>2, <2>3
  <2>5. w[pos[j] + 1] = pieces[j][1] /\ pos[j] + Len(pieces[j]) <= Len(w)
    BY <1>8, <2>1, <2>4
  <2>6. pos[j] \in Nat
    BY <1>4, <2>1 DEF Laid
  <2>7. w[EntryOffset(i) + 1] = Entry(list, i)
    BY <2>2, <2>3, <2>5
  <2>8. EntryOffset(i) \in Nat /\ EntryOffset(i) + EntryBytes <= Len(w)
    BY <2>2, <2>3, <2>5, <2>6
  <2>9. QED BY <1>2, <1>9, <2>7, <2>8
<1>13. ASSUME NEW i \in 1 .. n
       PROVE  /\ off[i] \in Nat /\ off[i] + list[i].size <= Len(w)
              /\ \A k \in 1 .. list[i].size : w[off[i] + k] = DataByte(i, k - 1)
  <2> DEFINE j == 1 + n + i
  <2>1. j \in 1 .. Len(pieces) /\ i \in 1 .. n + 1
    BY <1>1, <1>3
  <2>2. pieces[j] = Payload(list, i) /\ pos[j] = off[i] /\ off[i] \in Nat
    BY <1>3, <1>4, <1>6, <2>1
  <2> HIDE DEF j
  <2>3. Len(pieces[j]) = list[i].size /\ \A k \in 1 .. list[i].size : pieces[j][k] = DataByte(i, k - 1)
    BY <1>0, <1>1, <2>2, PayloadBytes
  <2>4. /\ \A k \in 1 .. Len(pieces[j]) : w[pos[j] + k] = pieces[j][k]
        /\ pos[j] + Len(pieces[j]) <= Len(w)
    BY <1>8, <2>1
  <2>5. QED BY <2>2, <2>3, <2>4
<1>14. LaidOut(list, n, off, w)
  BY <1>8, <1>9, <1>11, <1>12, <1>13 DEF LaidOut
<1>15. QED BY <1>0, <1>14
=============================================================================

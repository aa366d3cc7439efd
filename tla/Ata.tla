---------------------------------- MODULE Ata ----------------------------------
(***************************************************************************)
(* kernel/src/ata.c: polled reads from the boot disk, in commands of at    *)
(* most 255 sectors, and the drive at the other end of the ports.  The     *)
(* drive may answer late, report an error at any sector, or never answer.  *)
(* One poll of the status port is one step.                                *)
(***************************************************************************)
EXTENDS Integers, Sequences

CONSTANTS
  ByteRange,   \* chunk and sector are uint8_t: 2^8
  LbaRange,    \* the ports take an address of 28 bits
  SpinLimit,   \* polls before a wait gives up, 100000
  DiskSectors, \* how many sectors the drive has
  Reads        \* the <<lba, sector_count>> that callers may ask for

ASSUME AtaAssumption ==
  /\ ByteRange \in Nat /\ ByteRange >= 2
  /\ LbaRange \in Nat \ {0}
  /\ SpinLimit \in Nat \ {0}
  /\ DiskSectors \in Nat /\ DiskSectors <= LbaRange
  /\ \A r \in Reads : /\ r[1] \in Nat /\ r[2] \in Nat
                      /\ r[1] + r[2] <= DiskSectors

VARIABLES
  driver_ready,
  ata_pc,       \* "idle"; inside ata_init "init"; inside ata_read "busy" or "data"
  spin,         \* the polls of the wait under way
  lba, sector_count,              \* ata_read's arguments
  remaining, current_lba, chunk, sector,
  buffer,       \* the sectors stored so far, each named by its address on disk
  ata_result,   \* what the last ata_init or ata_read returned
  drive, drive_lba, drive_left
                \* the drive: "ready", "busy", "drq" or "error"; the next sector
                \* of the command and how many are to come

readVars == <<lba, sector_count, remaining, current_lba, chunk, sector, buffer>>
driveVars == <<drive, drive_lba, drive_left>>
ataVars == <<driver_ready, ata_pc, spin, readVars, ata_result, driveVars>>

-----------------------------------------------------------------------------
\* A drive that is missing reads as busy for ever.
AtaInit ==
  /\ driver_ready = FALSE
  /\ ata_pc = "idle" /\ spin = 0
  /\ lba = 0 /\ sector_count = 0
  /\ remaining = 0 /\ current_lba = 0 /\ chunk = 0 /\ sector = 0
  /\ buffer = << >>
  /\ ata_result = FALSE
  /\ drive \in {"ready", "busy"} /\ drive_lba = 0 /\ drive_left = 0

\* The next sector is ready, or cannot be read, or there is nothing more to do.
DriveAnswers ==
  /\ drive = "busy"
  /\ drive' \in IF drive_left = 0 THEN {"ready"}
                ELSE IF drive_lba < DiskSectors THEN {"drq", "error"} ELSE {"error"}
  /\ UNCHANGED <<driver_ready, ata_pc, spin, readVars, ata_result, drive_lba, drive_left>>

-----------------------------------------------------------------------------
AtaReturn(value) ==
  /\ ata_pc' = "idle" /\ spin' = 0
  /\ ata_result' = value

\* Another turn of a wait, or its end without an answer.
SpinOn(failed) ==
  IF spin + 1 < SpinLimit THEN spin' = spin + 1 /\ UNCHANGED <<ata_pc, ata_result>>
                          ELSE failed

ata_init ==
  /\ ata_pc = "idle"
  /\ ata_pc' = "init" /\ spin' = 0
  /\ UNCHANGED <<driver_ready, readVars, ata_result, driveVars>>

\* driver_ready = ata_wait_not_busy();
InitPoll ==
  /\ ata_pc = "init"
  /\ IF drive # "busy"
       THEN driver_ready' = TRUE /\ AtaReturn(TRUE)
       ELSE /\ SpinOn(AtaReturn(FALSE))
            /\ driver_ready' = FALSE
  /\ UNCHANGED <<readVars, driveVars>>

-----------------------------------------------------------------------------
\* Mutant: 256 sectors to a command, which the uint8_t cannot hold.
ChunkOf256(n) == (IF n > ByteRange THEN ByteRange ELSE n) % ByteRange

\* Mutant: every command is for 255 sectors, the last one too.
ChunkAlwaysFull(n) == ByteRange - 1

\* chunk = remaining > 255u ? 255u : (uint8_t)remaining;
ChunkOf(n) == IF n > ByteRange - 1 THEN ByteRange - 1 ELSE n

\* if (!driver_ready || sector_count == 0u) return false; appfs_init, the only caller,
\* has tested its buffer for NULL before.
ReadRefused(first, count) ==
  /\ ata_pc = "idle"
  /\ ~driver_ready \/ count = 0
  /\ ata_result' = FALSE
  /\ UNCHANGED <<driver_ready, ata_pc, spin, readVars, driveVars>>

ata_read(first, count) ==
  /\ ata_pc = "idle"
  /\ driver_ready /\ count # 0
  /\ lba' = first /\ sector_count' = count
  /\ remaining' = count /\ current_lba' = first
  /\ chunk' = ChunkOf(count) /\ sector' = 0
  /\ buffer' = << >>
  /\ ata_pc' = "busy" /\ spin' = 0
  /\ UNCHANGED <<driver_ready, ata_result, driveVars>>

\* ata_wait_not_busy, and then the command; a count of 0 means 256 to the drive.
CommandPoll ==
  /\ ata_pc = "busy"
  /\ IF drive # "busy"
       THEN /\ drive' = "busy"
            /\ drive_lba' = current_lba % LbaRange
            /\ drive_left' = IF chunk = 0 THEN ByteRange ELSE chunk
            /\ ata_pc' = IF chunk = 0 THEN "busy" ELSE "data"
            /\ spin' = 0
            /\ UNCHANGED ata_result
       ELSE /\ SpinOn(AtaReturn(FALSE))
            /\ UNCHANGED driveVars
  /\ UNCHANGED <<driver_ready, readVars>>

\* The drive's data port has given all of a sector.
SectorTaken ==
  /\ drive_lba' = drive_lba + 1
  /\ drive_left' = drive_left - 1
  /\ drive' = IF drive_left = 1 THEN "ready" ELSE "busy"

\* Mutant: every command starts at the caller's address.
LbaNotAdvanced ==
  /\ current_lba' = lba
  /\ remaining' = remaining - chunk
  /\ chunk' = ChunkOf(remaining - chunk)
  /\ sector' = 0
  /\ IF remaining = chunk
       THEN AtaReturn(TRUE)
       ELSE ata_pc' = "busy" /\ spin' = 0 /\ UNCHANGED ata_result

\* The last sector of a command: current_lba += chunk; remaining -= chunk.
NextChunk ==
  /\ current_lba' = current_lba + chunk
  /\ remaining' = remaining - chunk
  /\ chunk' = ChunkOf(remaining - chunk)
  /\ sector' = 0
  /\ IF remaining = chunk
       THEN AtaReturn(TRUE)
       ELSE ata_pc' = "busy" /\ spin' = 0 /\ UNCHANGED ata_result

\* Mutant: an error ends the read as if all had been read.
ErrorIsEnd ==
  /\ drive = "error"
  /\ AtaReturn(TRUE)
  /\ UNCHANGED <<readVars, driveVars>>

\* ERR or DF is set.
SectorFailed ==
  /\ drive = "error"
  /\ AtaReturn(FALSE)
  /\ UNCHANGED <<readVars, driveVars>>

\* ata_wait_for_data, and then 256 words.
DataPoll ==
  /\ ata_pc = "data"
  /\ \/ SectorFailed
     \/ /\ drive = "drq"
        /\ buffer' = Append(buffer, drive_lba)
        /\ SectorTaken
        /\ IF sector + 1 = chunk
             THEN NextChunk
             ELSE /\ sector' = sector + 1
                  /\ spin' = 0
                  /\ UNCHANGED <<ata_pc, ata_result, remaining, current_lba, chunk>>
        /\ UNCHANGED <<lba, sector_count>>
     \/ /\ drive \in {"busy", "ready"}
        /\ SpinOn(AtaReturn(FALSE))
        /\ UNCHANGED <<readVars, driveVars>>
  /\ UNCHANGED driver_ready

-----------------------------------------------------------------------------
\* What runs on its own once the driver has been called.
DriverStep == InitPoll \/ CommandPoll \/ DataPoll

AtaNext ==
  \/ ata_init
  \/ \E r \in Reads : ReadRefused(r[1], r[2]) \/ ata_read(r[1], r[2])
  \/ DriverStep
  \/ DriveAnswers

\* The driver polls; nothing is assumed of the drive.
AtaSpec == AtaInit /\ [][AtaNext]_ataVars /\ WF_ataVars(DriverStep)

-----------------------------------------------------------------------------
(***************************************************************************)
(* Type invariant: chunk and sector fit their uint8_t.                     *)
(***************************************************************************)
AtaTypeOK ==
  /\ driver_ready \in BOOLEAN /\ ata_result \in BOOLEAN
  /\ ata_pc \in {"idle", "init", "busy", "data"}
  /\ spin \in 0 .. SpinLimit - 1
  /\ lba \in 0 .. DiskSectors /\ sector_count \in 0 .. DiskSectors
  /\ remaining \in 0 .. DiskSectors /\ current_lba \in 0 .. DiskSectors
  /\ chunk \in 0 .. ByteRange - 1 /\ sector \in 0 .. ByteRange - 1
  /\ buffer \in Seq(Nat)
  /\ drive \in {"ready", "busy", "drq", "error"}
  /\ drive_lba \in Nat /\ drive_left \in Nat

Reading == ata_pc \in {"busy", "data"}

(***************************************************************************)
(* ata_read stores the sectors asked for, in order, and no others: at      *)
(* every point the buffer holds the first sectors of the range and never   *)
(* more than the caller has room for, however the range is cut into        *)
(* commands.                                                               *)
(***************************************************************************)
ReadExact ==
  /\ Len(buffer) <= sector_count
  /\ \A i \in 1 .. Len(buffer) : buffer[i] = lba + i - 1

(***************************************************************************)
(* A read returns TRUE when the buffer is complete and only then, whatever *)
(* the drive did on the way.                                               *)
(***************************************************************************)
ReadReturns ==
  [][ Reading /\ ~Reading' => (ata_result' <=> Len(buffer') = sector_count) ]_ataVars

(***************************************************************************)
(* Every call returns, even if the drive falls silent: the waits are       *)
(* bounded and every command makes progress.                               *)
(***************************************************************************)
CallsReturn == (ata_pc # "idle") ~> (ata_pc = "idle")
=============================================================================

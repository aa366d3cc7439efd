------------------------------- MODULE AppVolume -------------------------------
(***************************************************************************)
(* tools/mkappfs.c: the volume of applications that the host packs, and    *)
(* what scripts/build.sh makes of it on the disk.                          *)
(*                                                                         *)
(* A byte is modelled by what it belongs to: the first byte of a header or *)
(* of a catalogue entry carries its fields, a byte of a packed file tells  *)
(* which byte of which file it is.                                         *)
(***************************************************************************)
EXTENDS Integers, SequencesExt

CONSTANTS
  HeaderBytes,  \* sizeof(AppFsHeader), 24
  EntryBytes,   \* sizeof(AppFsEntry), 44
  SectorBytes,  \* 512
  Truncated     \* name -> the characters of it that fit char name[32]

ASSUME AppVolumeAssumption ==
  /\ HeaderBytes \in Nat \ {0} /\ EntryBytes \in Nat \ {0} /\ SectorBytes \in Nat \ {0}
  /\ \A name \in DOMAIN Truncated :
       /\ Truncated[name] \in DOMAIN Truncated
       /\ Truncated[Truncated[name]] = Truncated[name]

ZERO == [kind |-> "zero"]
DataByte(file, at) == [kind |-> "data", file |-> file, at |-> at]
Payload(files, i) == [k \in 1 .. files[i].size |-> DataByte(i, k - 1)]

header_size(files) == HeaderBytes + EntryBytes * Len(files)

\* Mutant: offsets are counted from the end of the header.
OffsetsFromHeader(files) ==
  LET offset[i \in 1 .. Len(files) + 1] ==
        IF i = 1 THEN HeaderBytes ELSE offset[i - 1] + files[i - 1].size
  IN  offset

\* running_offset before each file and, last, behind all of them.
running_offset(files) ==
  LET offset[i \in 1 .. Len(files) + 1] ==
        IF i = 1 THEN header_size(files) ELSE offset[i - 1] + files[i - 1].size
  IN  offset

Header(files) ==
  [kind |-> "header", version |-> 1, entry_count |-> Len(files),
   header_size |-> header_size(files), image_size |-> running_offset(files)[Len(files) + 1]]

Entry(files, i) ==
  [kind |-> "entry", name |-> Truncated[files[i].name],
   offset |-> running_offset(files)[i], size |-> files[i].size]

\* A structure of so many bytes; its fields are told by the first.
Struct(fields, bytes) == [k \in 1 .. bytes |-> IF k = 1 THEN fields ELSE [kind |-> "inside"]]

\* What is written, piece by piece: the header, the catalogue, the files.
Pieces(files) ==
  LET n == Len(files)
  IN  <<Struct(Header(files), HeaderBytes)>>
        \o [i \in 1 .. n |-> Struct(Entry(files, i), EntryBytes)]
        \o [i \in 1 .. n |-> Payload(files, i)]

\* The fwrite calls, in that order.
Written(files) == FlattenSeq(Pieces(files))

\* appfs_sectors of build.sh: the size of the volume, rounded up to sectors.
SectorsOf(files) == (Len(Written(files)) + SectorBytes - 1) \div SectorBytes

\* The disk image starts as zeros and dd copies the volume into it.
VolumeByte(files, p) == IF p < Len(Written(files)) THEN Written(files)[p + 1] ELSE ZERO
=============================================================================

------------------------------- MODULE UefiFv -------------------------------
(***************************************************************************)
(* The search of a flash image for one file of one UEFI firmware volume     *)
(* (extractFfsFile, uefi_fv.cpp), one action per turn of its two loops.     *)
(* An image is what the headers say at the offsets where they are read:     *)
(* what is not listed is erased flash, in which no signature and no name    *)
(* matches.  A read past the end of the image fails, and so does every read *)
(* after it: the failbit of the stream is never cleared.                    *)
(***************************************************************************)
EXTENDS Integers

CONSTANTS
    Images,     \* the flash images
    Wrap        \* size_t counts modulo this: 2^32 on the BMC's ARM core

\* Sizes of the packed structures, and the step of the scan.
EfiFvHeader == 56
EfiFvExtHeader == 20
EfiFfsFileHeader == 24
EfiSectionHeader == 4
guidSecHdrSize == 20
Block == 65536

Volume  == [fvLength : Nat, ffs2 : BOOLEAN, extHeaderOffset : Nat]
ExtName == [wanted : BOOLEAN, extHeaderSize : Nat]
File    == [wanted : BOOLEAN, large : BOOLEAN, freeform : BOOLEAN, size : Nat]
Section == {"raw", "guidDefined", "other"}

\* At which offsets of an image there are which headers.
IsImage(i) ==
    /\ i.size \in 0..(Wrap - 1)
    /\ \A o \in DOMAIN i.volume : o \in Nat /\ i.volume[o] \in Volume
    /\ \A o \in DOMAIN i.name : o \in Nat /\ i.name[o] \in ExtName
    /\ \A o \in DOMAIN i.file : o \in Nat /\ i.file[o] \in File
    /\ \A o \in DOMAIN i.section : o \in Nat /\ i.section[o] \in Section

ASSUME UefiFvAssumption ==
    /\ Wrap \in Nat /\ Wrap > Block /\ Wrap % Block = 0
    /\ \A i \in Images : IsImage(i)

VARIABLES
    rom,            \* the image
    pc,             \* the loop: "volumes", "files"; "done" on return
    fvOffset, fileOffset, fvEnd,
    failed,         \* the failbit of the stream
    data            \* what is returned: where it was read, and its size

fvVars == <<rom, pc, fvOffset, fileOffset, fvEnd, failed, data>>

Empty == [offset |-> 0, size |-> 0]

FvInit ==
    /\ rom \in Images
    /\ pc = "volumes" /\ fvOffset = 0 /\ fileOffset = 0 /\ fvEnd = 0
    /\ failed = FALSE /\ data = Empty

Readable(offset, size) == ~failed /\ offset + size <= rom.size

-----------------------------------------------------------------------------
(* The volumes                                                              *)

\* Mutant of Stride: no step for a length of zero.
StrideZero(v) == (((v.fvLength + Block - 1) \div Block) * Block) % Wrap

\* fvLength aligned up to 64 KB, at least 64 KB.
Stride(v) ==
    LET up == (((v.fvLength + Block - 1) \div Block) * Block) % Wrap
    IN  IF up = 0 THEN Block ELSE up

ExtHeaderAt(o) == o + rom.volume[o].extHeaderOffset

\* The volume is one whose extended header is read.
HasExtHeader(o) == rom.volume[o].ffs2 /\ rom.volume[o].extHeaderOffset # 0

Named(o) ==
    /\ HasExtHeader(o)
    /\ Readable(ExtHeaderAt(o), EfiFvExtHeader)
    /\ ExtHeaderAt(o) \in DOMAIN rom.name
    /\ rom.name[ExtHeaderAt(o)].wanted

AtVolume == pc = "volumes" /\ fvOffset + EfiFvHeader < rom.size
Return(d) == pc' = "done" /\ data' = d /\ UNCHANGED <<rom, fvOffset>>

\* The image ends or cannot be read: nothing found.
VolumesEnd ==
    /\ pc = "volumes"
    /\ ~(AtVolume /\ Readable(fvOffset, EfiFvHeader))
    /\ Return(Empty)
    /\ UNCHANGED <<fileOffset, fvEnd, failed>>

\* No signature here.
SkipBlock ==
    /\ AtVolume /\ Readable(fvOffset, EfiFvHeader)
    /\ fvOffset \notin DOMAIN rom.volume
    /\ fvOffset' = (fvOffset + Block) % Wrap
    /\ UNCHANGED <<rom, pc, fileOffset, fvEnd, failed, data>>

\* Another volume, or one whose extended header cannot be read.
SkipVolume ==
    /\ AtVolume /\ Readable(fvOffset, EfiFvHeader)
    /\ fvOffset \in DOMAIN rom.volume /\ ~Named(fvOffset)
    /\ fvOffset' = (fvOffset + Stride(rom.volume[fvOffset])) % Wrap
    /\ failed' = (HasExtHeader(fvOffset)
                    /\ ~Readable(ExtHeaderAt(fvOffset), EfiFvExtHeader))
    /\ UNCHANGED <<rom, pc, fileOffset, fvEnd, data>>

\* Mutant of EnterVolume: the end of the volume is not cut to the image's.
EnterVolumeUncut ==
    /\ AtVolume /\ Readable(fvOffset, EfiFvHeader)
    /\ fvOffset \in DOMAIN rom.volume /\ Named(fvOffset)
    /\ pc' = "files"
    /\ fileOffset' = (ExtHeaderAt(fvOffset)
                        + rom.name[ExtHeaderAt(fvOffset)].extHeaderSize) % Wrap
    /\ fvEnd' = (fvOffset + rom.volume[fvOffset].fvLength) % Wrap
    /\ UNCHANGED <<rom, fvOffset, failed, data>>

EnterVolume ==
    /\ AtVolume /\ Readable(fvOffset, EfiFvHeader)
    /\ fvOffset \in DOMAIN rom.volume /\ Named(fvOffset)
    /\ pc' = "files"
    /\ fileOffset' = (ExtHeaderAt(fvOffset)
                        + rom.name[ExtHeaderAt(fvOffset)].extHeaderSize) % Wrap
    /\ LET end == (fvOffset + rom.volume[fvOffset].fvLength) % Wrap
       IN  fvEnd' = IF end > rom.size THEN rom.size ELSE end
    /\ UNCHANGED <<rom, fvOffset, failed, data>>

-----------------------------------------------------------------------------
(* The files of the volume that was entered                                 *)

Aligned(o) == (IF o % 8 = 0 THEN o ELSE o - (o % 8) + 8) % Wrap

\* Mutant of AtFile: the offset is aligned to 4.
AtFileAligned4 == (fileOffset + 3) - ((fileOffset + 3) % 4)

AtFile == Aligned(fileOffset)
MoreFiles == pc = "files" /\ (fileOffset + EfiFfsFileHeader) % Wrap < fvEnd
HeaderRead == MoreFiles /\ Readable(AtFile, EfiFfsFileHeader)

DataSize(o) == rom.file[o].size - EfiFfsFileHeader
DataOffset(o) == o + EfiFfsFileHeader

HasSection(o) == rom.file[o].freeform /\ DataSize(o) > EfiSectionHeader
SectionOf(o) ==
    IF DataOffset(o) \in DOMAIN rom.section THEN rom.section[DataOffset(o)]
    ELSE "other"

\* The header of the section in front of the payload.
Skipped(o) ==
    IF ~HasSection(o) THEN 0
    ELSE CASE SectionOf(o) = "raw"         -> EfiSectionHeader
           [] SectionOf(o) = "guidDefined" -> guidSecHdrSize
           [] OTHER                        -> 0

Payload(o) == [offset |-> DataOffset(o) + Skipped(o),
               size   |-> DataSize(o) - Skipped(o)]

\* Mutant of IsFile: any size goes.
IsFileAnySize(o) == o \in DOMAIN rom.file

\* What is at the offset is a file, and the one wanted.
IsFile(o) == o \in DOMAIN rom.file /\ rom.file[o].size >= EfiFfsFileHeader
IsWanted(o) == IsFile(o) /\ rom.file[o].wanted /\ ~rom.file[o].large

\* A GUID section without a payload.
NoPayload(o) ==
    /\ HasSection(o) /\ Readable(DataOffset(o), EfiSectionHeader)
    /\ SectionOf(o) = "guidDefined" /\ DataSize(o) <= guidSecHdrSize

\* The list ends, or something that is not a file: on to the next volume.
FilesEnd ==
    /\ pc = "files"
    /\ \/ ~HeaderRead
       \/ ~IsFile(AtFile)
       \/ IsWanted(AtFile) /\ NoPayload(AtFile)
    /\ pc' = "volumes"
    /\ fvOffset' = (fvOffset + Stride(rom.volume[fvOffset])) % Wrap
    /\ failed' = (failed \/ (MoreFiles /\ ~HeaderRead))
    /\ UNCHANGED <<rom, fileOffset, fvEnd, data>>

SkipFile ==
    /\ HeaderRead /\ IsFile(AtFile) /\ ~IsWanted(AtFile)
    /\ fileOffset' = (AtFile + rom.file[AtFile].size) % Wrap
    /\ UNCHANGED <<rom, pc, fvOffset, fvEnd, failed, data>>

\* The payload is returned, or nothing if it cannot be read; where it ends in
\* the volume is not looked at.
TakeFile ==
    /\ HeaderRead /\ IsWanted(AtFile) /\ ~NoPayload(AtFile)
    /\ LET p == Payload(AtFile)
           readable == /\ HasSection(AtFile) =>
                              Readable(DataOffset(AtFile), EfiSectionHeader)
                       /\ Readable(p.offset, p.size)
       IN  /\ Return(IF readable THEN p ELSE Empty)
           /\ failed' = ~readable
    /\ UNCHANGED <<fileOffset, fvEnd>>

\* The flash cannot be read: the next read fails.
MediaError ==
    /\ pc # "done" /\ ~failed
    /\ failed' = TRUE
    /\ UNCHANGED <<rom, pc, fvOffset, fileOffset, fvEnd, data>>

FvStep ==
    \/ VolumesEnd \/ SkipBlock \/ SkipVolume \/ EnterVolume
    \/ FilesEnd \/ SkipFile \/ TakeFile

FvNext == FvStep \/ MediaError
FvSpec == FvInit /\ [][FvNext]_fvVars

-----------------------------------------------------------------------------
(* Properties                                                               *)

FvTypeOK ==
    /\ rom \in Images
    /\ pc \in {"volumes", "files", "done"}
    /\ fvOffset \in 0..(Wrap - 1) /\ fileOffset \in 0..(Wrap - 1)
    /\ fvEnd \in 0..rom.size
    /\ failed \in BOOLEAN
    /\ data.offset \in Nat /\ data.size \in Nat

\* The volumes of image i of the wanted name.
VolumesNamed(i) ==
    {o \in DOMAIN i.volume :
        /\ i.volume[o].ffs2 /\ i.volume[o].extHeaderOffset # 0
        /\ o + i.volume[o].extHeaderOffset \in DOMAIN i.name
        /\ i.name[o + i.volume[o].extHeaderOffset].wanted}

ExtHeaderEnd(i, o) ==
    LET x == o + i.volume[o].extHeaderOffset
    IN  x + i.name[x].extHeaderSize

FirstFile(i, o) == Aligned(ExtHeaderEnd(i, o))

End(i, o) == o + i.volume[o].fvLength

\* An image as the UEFI specification has it: volumes on 64 KB boundaries that
\* do not overlap, their headers within them, and in those of the wanted name
\* files one after the other, each with its payload.
WellFormed(i) ==
    /\ \A o \in DOMAIN i.volume :
          /\ o % Block = 0
          /\ i.volume[o].fvLength >= EfiFvHeader
          /\ End(i, o) <= i.size
          /\ \A p \in DOMAIN i.volume :
                o < p => o + Stride(i.volume[o]) <= p
          /\ i.volume[o].ffs2 =>
                i.volume[o].extHeaderOffset + EfiFvExtHeader
                    <= i.volume[o].fvLength
    /\ \A o \in VolumesNamed(i) : ExtHeaderEnd(i, o) <= End(i, o)
    /\ i.size % Block = 0 /\ i.size + Block <= Wrap
    /\ \A f \in DOMAIN i.file :
          /\ f % 8 = 0 /\ i.file[f].size > EfiFfsFileHeader
          /\ i.file[f].freeform /\ f + EfiFfsFileHeader \in DOMAIN i.section
                /\ i.section[f + EfiFfsFileHeader] = "guidDefined"
             => i.file[f].size > EfiFfsFileHeader + guidSecHdrSize
          /\ \E o \in VolumesNamed(i) :
                /\ FirstFile(i, o) <= f /\ f + i.file[f].size <= End(i, o)
                /\ f = FirstFile(i, o)
                   \/ \E g \in DOMAIN i.file :
                         /\ FirstFile(i, o) <= g
                         /\ f = Aligned(g + i.file[g].size)
    /\ \A f, g \in DOMAIN i.file : f < g => f + i.file[f].size <= g

WantedFiles == {f \in DOMAIN rom.file : IsWanted(f)}

\* Of a well-formed image that can be read, the payload of the first file of the
\* wanted name is returned, wherever its volume is and whatever other volumes
\* and files come before it, and nothing if there is none.
FindsFile ==
    pc = "done" /\ ~failed /\ WellFormed(rom) =>
        IF WantedFiles = {} THEN data = Empty
        ELSE \E f \in WantedFiles :
                /\ \A g \in WantedFiles : f <= g
                /\ data = Payload(f)

\* No header of the image makes size_t wrap around, nor puts an offset where
\* the header of a file behind it would.
NoWrap(i) ==
    /\ i.size + Block < Wrap
    /\ \A o \in DOMAIN i.volume : o + Stride(i.volume[o]) < Wrap
    /\ \A o \in DOMAIN i.name :
          o + i.name[o].extHeaderSize + EfiFfsFileHeader < Wrap
    /\ \A f \in DOMAIN i.file : f + i.file[f].size + EfiFfsFileHeader < Wrap

\* The search only moves on, so that it ends: no volume and no file is looked
\* at twice, however ill-formed the image, unless size_t wraps around.
MovesOn ==
    [][NoWrap(rom) =>
          \/ pc' = "done" \/ failed' # failed
          \/ fvOffset' > fvOffset
          \/ fvOffset' = fvOffset /\ pc = "volumes" /\ pc' = "files"
          \/ fvOffset' = fvOffset /\ pc = pc' /\ fileOffset' > fileOffset
      ]_fvVars
=============================================================================

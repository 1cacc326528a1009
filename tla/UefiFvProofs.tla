----------------------------- MODULE UefiFvProofs -----------------------------
(***************************************************************************)
(* For every image: the search of the flash stays within its types, it only *)
(* moves on, and it finds the first file of the wanted name.                *)
(*                                                                          *)
(* That it moves on needs to know, while files are walked, which volume     *)
(* they are in and that their offset leaves room for a header below Wrap:   *)
(* an offset in the last bytes would be aligned to 0.                       *)
(*                                                                          *)
(* That it finds the file needs to know of a well-formed image that no      *)
(* wanted file is behind the search (Ahead): each lies in a volume that is  *)
(* still to come, or further on in the one whose files are walked, to the   *)
(* next of which there is no gap (Walk).                                    *)
(***************************************************************************)
EXTENDS UefiFv, SumsTheorems

Room ==
    pc = "files" =>
        /\ fvOffset \in DOMAIN rom.volume
        /\ NoWrap(rom) => fileOffset + EfiFfsFileHeader < Wrap

IInv == FvTypeOK /\ Room

-----------------------------------------------------------------------------
(* Arithmetic                                                               *)

LEMMA ModRange == \A x \in Nat : x % Wrap \in 0..(Wrap - 1)
  BY UefiFvAssumption DEF Block

LEMMA ModSmall == \A x \in Nat : x < Wrap => x % Wrap = x
  BY UefiFvAssumption DEF Block

LEMMA StrideMoves ==
  ASSUME NEW v \in Volume
  PROVE  Stride(v) \in Nat /\ Stride(v) > 0
<1> DEFINE up == ((v.fvLength + Block - 1) \div Block) * Block
<1>1. v.fvLength \in Nat
  BY DEF Volume
<1>2. up \in Nat
  BY <1>1 DEF Block
<1>3. up % Wrap \in 0..(Wrap - 1)
  BY <1>2, ModRange
<1>4. up % Wrap \in Nat
  BY <1>3, UefiFvAssumption
<1>5. Stride(v) = IF up % Wrap = 0 THEN Block ELSE up % Wrap
  BY DEF Stride
<1> QED
  BY <1>4, <1>5 DEF Block

\* Aligning never goes back, and goes at most 7 bytes on, where there is room.
LEMMA AlignedRange ==
  ASSUME NEW o \in Nat
  PROVE  /\ Aligned(o) \in 0..(Wrap - 1)
         /\ o + EfiFfsFileHeader < Wrap => Aligned(o) \in o..(o + 7)
<1> DEFINE a == IF o % 8 = 0 THEN o ELSE o - (o % 8) + 8
<1>1. a \in o..(o + 7)
  OBVIOUS
<1>2. Aligned(o) = a % Wrap
  BY DEF Aligned
<1>3. a \in Nat
  BY <1>1
<1>4. Aligned(o) \in 0..(Wrap - 1)
  BY <1>2, <1>3, ModRange
<1>5. ASSUME o + EfiFfsFileHeader < Wrap
      PROVE  Aligned(o) = a
  <2>1. a < Wrap
    BY <1>1, <1>5, UefiFvAssumption DEF EfiFfsFileHeader
  <2> QED
    BY <2>1, <1>2, <1>3, ModSmall
<1> QED
  BY <1>1, <1>4, <1>5

-----------------------------------------------------------------------------
(* What the headers of an image are                                         *)

LEMMA ImageHeaders ==
  ASSUME FvTypeOK
  PROVE  /\ rom \in Images /\ rom.size \in Nat /\ rom.size < Wrap
         /\ \A o \in DOMAIN rom.volume : o \in Nat /\ rom.volume[o] \in Volume
         /\ \A o \in DOMAIN rom.name : o \in Nat /\ rom.name[o] \in ExtName
         /\ \A o \in DOMAIN rom.file : o \in Nat /\ rom.file[o] \in File
<1>1. rom \in Images /\ IsImage(rom)
  BY UefiFvAssumption DEF FvTypeOK
<1> QED
  BY <1>1, UefiFvAssumption DEF IsImage

LEMMA VolumeFields ==
  ASSUME NEW v \in Volume
  PROVE  v.fvLength \in Nat /\ v.extHeaderOffset \in Nat /\ v.ffs2 \in BOOLEAN
  BY DEF Volume

LEMMA FileFields ==
  ASSUME NEW f \in File
  PROVE  f.size \in Nat
  BY DEF File

LEMMA Offsets ==
  ASSUME FvTypeOK
  PROVE  fvOffset \in Nat /\ fileOffset \in Nat /\ Wrap \in Nat
  BY UefiFvAssumption DEF FvTypeOK

-----------------------------------------------------------------------------
(* The steps keep the invariant                                             *)

LEMMA InitEstablishes == FvInit => IInv
<1> SUFFICES ASSUME FvInit PROVE IInv
  OBVIOUS
<1>1. IsImage(rom)
  BY UefiFvAssumption DEF FvInit
<1>2. rom.size \in Nat
  BY <1>1, UefiFvAssumption DEF IsImage
<1>3. 0 \in 0..(Wrap - 1)
  BY UefiFvAssumption DEF Block
<1>4. pc = "volumes" /\ rom \in Images /\ failed = FALSE
      /\ fvOffset = 0 /\ fileOffset = 0 /\ fvEnd = 0
      /\ data.offset \in Nat /\ data.size \in Nat
  BY DEF FvInit, Empty
<1>5. fvEnd \in 0..rom.size
  BY <1>2, <1>4
<1>6. fvOffset \in 0..(Wrap - 1) /\ fileOffset \in 0..(Wrap - 1)
  BY <1>3, <1>4
<1>7. pc \in {"volumes", "files", "done"} /\ failed \in BOOLEAN
  BY <1>4
<1>8. FvTypeOK
  BY <1>4, <1>5, <1>6, <1>7 DEF FvTypeOK
<1> QED
  BY <1>4, <1>8 DEF IInv, Room

\* The next volume that is looked at.
LEMMA VolumeStep ==
  ASSUME IInv, NEW n \in Nat, pc' \in {"volumes", "done"}, failed' \in BOOLEAN,
         fvOffset' = (fvOffset + n) % Wrap,
         UNCHANGED <<rom, fileOffset, fvEnd, data>>
  PROVE  IInv'
<1>1. fvOffset + n \in Nat
  BY Offsets DEF IInv
<1>2. fvOffset' \in 0..(Wrap - 1)
  BY <1>1, ModRange
<1>3. FvTypeOK'
  BY <1>2 DEF IInv, FvTypeOK
<1>4. pc' # "files"
  OBVIOUS
<1> QED
  BY <1>3, <1>4 DEF IInv, Room

LEMMA SkipBlockKeeps == IInv /\ SkipBlock => IInv'
<1> SUFFICES ASSUME IInv, SkipBlock PROVE IInv'
  OBVIOUS
<1>1. Block \in Nat
  BY DEF Block
<1>2. pc = "volumes" /\ failed \in BOOLEAN
  BY DEF SkipBlock, AtVolume, IInv, FvTypeOK
<1> QED
  BY <1>1, <1>2, VolumeStep DEF SkipBlock

LEMMA SkipVolumeKeeps == IInv /\ SkipVolume => IInv'
<1> SUFFICES ASSUME IInv, SkipVolume PROVE IInv'
  OBVIOUS
<1>1. fvOffset \in DOMAIN rom.volume
  BY DEF SkipVolume
<1>2. rom.volume[fvOffset] \in Volume
  BY <1>1, ImageHeaders DEF IInv
<1>3. Stride(rom.volume[fvOffset]) \in Nat
  BY <1>2, StrideMoves
<1>4. pc' = "volumes" /\ UNCHANGED <<rom, fileOffset, fvEnd, data>>
  BY DEF SkipVolume, AtVolume
<1>5. failed' \in BOOLEAN
  BY DEF SkipVolume
<1>6. fvOffset' = (fvOffset + Stride(rom.volume[fvOffset])) % Wrap
  BY DEF SkipVolume
<1> QED
  BY <1>3, <1>4, <1>5, <1>6, VolumeStep

LEMMA FilesEndKeeps == IInv /\ FilesEnd => IInv'
<1> SUFFICES ASSUME IInv, FilesEnd PROVE IInv'
  OBVIOUS
<1>1. fvOffset \in DOMAIN rom.volume
  BY DEF FilesEnd, IInv, Room
<1>2. rom.volume[fvOffset] \in Volume
  BY <1>1, ImageHeaders DEF IInv
<1>3. Stride(rom.volume[fvOffset]) \in Nat
  BY <1>2, StrideMoves
<1>4. pc' = "volumes" /\ UNCHANGED <<rom, fileOffset, fvEnd, data>>
  BY DEF FilesEnd
<1>5. failed' \in BOOLEAN
  BY DEF FilesEnd, IInv, FvTypeOK
<1>6. fvOffset' = (fvOffset + Stride(rom.volume[fvOffset])) % Wrap
  BY DEF FilesEnd
<1> QED
  BY <1>3, <1>4, <1>5, <1>6, VolumeStep

\* Where the first file of a volume is looked for.
LEMMA EnterVolumeKeeps == IInv /\ EnterVolume => IInv'
<1> SUFFICES ASSUME IInv, EnterVolume PROVE IInv'
  OBVIOUS
<1> DEFINE x == ExtHeaderAt(fvOffset)
           first == x + rom.name[x].extHeaderSize
           end == (fvOffset + rom.volume[fvOffset].fvLength) % Wrap
<1>1. fvOffset \in DOMAIN rom.volume /\ x \in DOMAIN rom.name
  BY DEF EnterVolume, Named
<1>2. x \in Nat /\ rom.name[x].extHeaderSize \in Nat
  BY <1>1, ImageHeaders DEF IInv, ExtName
<1>3. first \in Nat
  BY <1>2
<1>4. fileOffset' = first % Wrap
  BY DEF EnterVolume
<1>5. fileOffset' \in 0..(Wrap - 1)
  BY <1>3, <1>4, ModRange
<1>6. fvOffset \in Nat /\ rom.volume[fvOffset].fvLength \in Nat
  BY <1>1, ImageHeaders, VolumeFields DEF IInv
<1>7. end \in Nat
  <2>1. end \in 0..(Wrap - 1)
    BY <1>6, ModRange
  <2> QED
    BY <2>1, UefiFvAssumption
<1>8. fvEnd' \in 0..rom.size
  <2>1. fvEnd' = IF end > rom.size THEN rom.size ELSE end
    BY DEF EnterVolume
  <2>2. rom.size \in Nat
    BY ImageHeaders DEF IInv
  <2> QED
    BY <1>7, <2>1, <2>2
<1>9. FvTypeOK'
  BY <1>5, <1>8 DEF EnterVolume, IInv, FvTypeOK
<1>10. ASSUME NoWrap(rom)
       PROVE  fileOffset' + EfiFfsFileHeader < Wrap
  <2>1. first + EfiFfsFileHeader < Wrap
    BY <1>1, <1>10 DEF NoWrap
  <2>2. first < Wrap
    BY <1>3, <2>1, UefiFvAssumption DEF EfiFfsFileHeader
  <2>3. fileOffset' = first
    BY <1>3, <1>4, <2>2, ModSmall
  <2> QED
    BY <2>1, <2>3
<1>11. Room'
  BY <1>1, <1>10 DEF EnterVolume, Room
<1> QED
  BY <1>9, <1>11 DEF IInv

\* The file that is looked at, and where it ends.
LEMMA FileAt ==
  ASSUME IInv, IsFile(AtFile)
  PROVE  /\ AtFile \in Nat /\ rom.file[AtFile].size \in Nat
         /\ rom.file[AtFile].size >= EfiFfsFileHeader
         /\ NoWrap(rom) =>
               AtFile + rom.file[AtFile].size + EfiFfsFileHeader < Wrap
<1>1. AtFile \in DOMAIN rom.file /\ rom.file[AtFile].size >= EfiFfsFileHeader
  BY DEF IsFile
<1>2. AtFile \in Nat /\ rom.file[AtFile].size \in Nat
  BY <1>1, ImageHeaders, FileFields DEF IInv
<1> QED
  BY <1>1, <1>2 DEF NoWrap

LEMMA SkipFileKeeps == IInv /\ SkipFile => IInv'
<1> SUFFICES ASSUME IInv, SkipFile PROVE IInv'
  OBVIOUS
<1> DEFINE n == AtFile + rom.file[AtFile].size
<1>1. IsFile(AtFile) /\ pc = "files"
  BY DEF SkipFile, HeaderRead, MoreFiles
<1>2. n \in Nat
  BY <1>1, FileAt
<1>3. fileOffset' = n % Wrap
  BY DEF SkipFile
<1>4. fileOffset' \in 0..(Wrap - 1)
  BY <1>2, <1>3, ModRange
<1>5. FvTypeOK'
  BY <1>4 DEF SkipFile, IInv, FvTypeOK
<1>6. ASSUME NoWrap(rom)
      PROVE  fileOffset' + EfiFfsFileHeader < Wrap
  <2>1. n + EfiFfsFileHeader < Wrap
    BY <1>1, <1>6, FileAt
  <2>2. n < Wrap
    BY <1>2, <2>1, UefiFvAssumption DEF EfiFfsFileHeader
  <2>3. fileOffset' = n
    BY <1>2, <1>3, <2>2, ModSmall
  <2> QED
    BY <2>1, <2>3
<1>7. Room'
  BY <1>1, <1>6 DEF SkipFile, Room, IInv
<1> QED
  BY <1>5, <1>7 DEF IInv

LEMMA TakeFileKeeps == IInv /\ TakeFile => IInv'
<1> SUFFICES ASSUME IInv, TakeFile PROVE IInv'
  OBVIOUS
<1> DEFINE f == AtFile
           p == Payload(f)
           readable == /\ HasSection(f) =>
                              Readable(DataOffset(f), EfiSectionHeader)
                       /\ Readable(p.offset, p.size)
<1>1. IsFile(f) /\ ~NoPayload(f)
  BY DEF TakeFile, IsWanted
<1>2. f \in Nat /\ rom.file[f].size \in Nat
      /\ rom.file[f].size >= EfiFfsFileHeader
  BY <1>1, FileAt
<1>3. DataSize(f) \in Nat /\ DataOffset(f) \in Nat
  BY <1>2 DEF DataSize, DataOffset, EfiFfsFileHeader
<1>4. ASSUME readable
      PROVE  p.offset \in Nat /\ p.size \in Nat
  <2>1. Skipped(f) \in Nat /\ Skipped(f) <= DataSize(f)
    <3>1. CASE ~HasSection(f)
      BY <1>3, <3>1 DEF Skipped
    <3>2. CASE HasSection(f) /\ SectionOf(f) = "raw"
      BY <1>3, <3>2 DEF Skipped, HasSection, EfiSectionHeader
    <3>3. CASE HasSection(f) /\ SectionOf(f) = "guidDefined"
      <4>1. ~(DataSize(f) <= guidSecHdrSize)
        BY <1>1, <1>4, <3>3 DEF NoPayload
      <4> QED
        BY <1>3, <3>3, <4>1 DEF Skipped, guidSecHdrSize
    <3>4. CASE HasSection(f) /\ SectionOf(f) \notin {"raw", "guidDefined"}
      BY <1>3, <3>4 DEF Skipped
    <3> QED
      BY <3>1, <3>2, <3>3, <3>4
  <2>2. p.offset = DataOffset(f) + Skipped(f) /\ p.size = DataSize(f) - Skipped(f)
    BY DEF Payload
  <2> QED
    BY <1>3, <2>1, <2>2
<1>5. data' = IF readable THEN p ELSE Empty
  BY DEF TakeFile, Return
<1>6. data'.offset \in Nat /\ data'.size \in Nat
  BY <1>4, <1>5 DEF Empty
<1>7. pc' = "done" /\ failed' \in BOOLEAN
      /\ UNCHANGED <<rom, fvOffset, fileOffset, fvEnd>>
  BY DEF TakeFile, Return
<1> QED
  BY <1>6, <1>7 DEF IInv, FvTypeOK, Room

LEMMA VolumesEndKeeps == IInv /\ VolumesEnd => IInv'
  BY DEF VolumesEnd, Return, IInv, FvTypeOK, Room, Empty

LEMMA MediaErrorKeeps == IInv /\ MediaError => IInv'
  BY DEF MediaError, IInv, FvTypeOK, Room

LEMMA StepKeeps == IInv /\ [FvNext]_fvVars => IInv'
<1>1. IInv /\ UNCHANGED fvVars => IInv'
  BY DEF fvVars, IInv, FvTypeOK, Room
<1> QED
  BY <1>1, SkipBlockKeeps, SkipVolumeKeeps, FilesEndKeeps, EnterVolumeKeeps,
     SkipFileKeeps, TakeFileKeeps, VolumesEndKeeps, MediaErrorKeeps
  DEF FvNext, FvStep

LEMMA Invariance == FvSpec => []IInv
  BY InitEstablishes, StepKeeps, PTL DEF FvSpec

\* Whatever the flash holds and wherever reading it fails, the offsets of the
\* search stay below Wrap, a volume's end within the image, and what is returned
\* has an offset and a size (extractFfsFile).
THEOREM TypeCorrect == FvSpec => []FvTypeOK
  BY Invariance, PTL DEF IInv

-----------------------------------------------------------------------------
(* The search moves on                                                      *)

Onward ==
    \/ pc' = "done" \/ failed' # failed
    \/ fvOffset' > fvOffset
    \/ fvOffset' = fvOffset /\ pc = "volumes" /\ pc' = "files"
    \/ fvOffset' = fvOffset /\ pc = pc' /\ fileOffset' > fileOffset

\* From a volume to the next.
LEMMA VolumeOnward ==
  ASSUME IInv, NoWrap(rom), fvOffset \in DOMAIN rom.volume,
         fvOffset' = (fvOffset + Stride(rom.volume[fvOffset])) % Wrap
  PROVE  fvOffset' > fvOffset
<1> DEFINE n == Stride(rom.volume[fvOffset])
<1>1. n \in Nat /\ n > 0
  BY ImageHeaders, StrideMoves DEF IInv
<1>2. fvOffset + n \in Nat /\ fvOffset \in Nat
  BY <1>1, Offsets DEF IInv
<1>3. fvOffset + n < Wrap
  BY DEF NoWrap
<1>4. fvOffset' = fvOffset + n
  BY <1>2, <1>3, ModSmall
<1> QED
  BY <1>1, <1>2, <1>4

LEMMA SkipBlockOnward == IInv /\ NoWrap(rom) /\ SkipBlock => Onward
<1> SUFFICES ASSUME IInv, NoWrap(rom), SkipBlock PROVE fvOffset' > fvOffset
  BY DEF Onward
<1>1. fvOffset \in Nat /\ rom.size \in Nat /\ Wrap \in Nat
  BY Offsets, ImageHeaders DEF IInv
<1>2. fvOffset + EfiFvHeader < rom.size /\ rom.size + Block < Wrap
  BY DEF SkipBlock, AtVolume, NoWrap
<1>3. fvOffset + Block \in Nat /\ fvOffset + Block < Wrap
  BY <1>1, <1>2 DEF EfiFvHeader, Block
<1>4. fvOffset' = fvOffset + Block
  BY <1>3, ModSmall DEF SkipBlock
<1> QED
  BY <1>1, <1>4 DEF Block

LEMMA SkipFileOnward == IInv /\ NoWrap(rom) /\ SkipFile => Onward
<1> SUFFICES ASSUME IInv, NoWrap(rom), SkipFile
             PROVE  fvOffset' = fvOffset /\ pc = pc' /\ fileOffset' > fileOffset
  BY DEF Onward
<1> DEFINE n == AtFile + rom.file[AtFile].size
<1>1. IsFile(AtFile) /\ pc = "files"
  BY DEF SkipFile, HeaderRead, MoreFiles
<1>2. /\ AtFile \in Nat /\ rom.file[AtFile].size \in Nat
      /\ rom.file[AtFile].size >= EfiFfsFileHeader
      /\ n + EfiFfsFileHeader < Wrap
  BY <1>1, FileAt
<1>3. n \in Nat /\ n < Wrap
  BY <1>2, UefiFvAssumption DEF EfiFfsFileHeader
<1>4. fileOffset' = n
  BY <1>3, ModSmall DEF SkipFile
<1>5. fileOffset \in Nat /\ fileOffset + EfiFfsFileHeader < Wrap
  BY <1>1, Offsets DEF IInv, Room
<1>6. AtFile >= fileOffset
  BY <1>2, <1>5, AlignedRange DEF AtFile
<1>7. fileOffset' > fileOffset
  BY <1>2, <1>4, <1>5, <1>6 DEF EfiFfsFileHeader
<1> QED
  BY <1>7 DEF SkipFile

LEMMA NextOnward == IInv /\ NoWrap(rom) /\ FvNext => Onward
<1> SUFFICES ASSUME IInv, NoWrap(rom), FvNext PROVE Onward
  OBVIOUS
<1>1. CASE VolumesEnd \/ TakeFile
  BY <1>1 DEF VolumesEnd, TakeFile, Return, Onward
<1>2. CASE SkipBlock
  BY <1>2, SkipBlockOnward
<1>3. CASE SkipVolume
  BY <1>3, VolumeOnward DEF SkipVolume, Onward
<1>4. CASE EnterVolume
  BY <1>4 DEF EnterVolume, AtVolume, Onward
<1>5. CASE FilesEnd
  BY <1>5, VolumeOnward DEF FilesEnd, IInv, Room, Onward
<1>6. CASE SkipFile
  BY <1>6, SkipFileOnward
<1>7. CASE MediaError
  BY <1>7 DEF MediaError, Onward
<1> QED
  BY <1>1, <1>2, <1>3, <1>4, <1>5, <1>6, <1>7 DEF FvNext, FvStep

\* In any image none of whose headers makes size_t wrap around, and however its
\* reads fail, no volume and no file is looked at twice (the two loops of
\* extractFfsFile).
THEOREM SearchMovesOn == FvSpec => MovesOn
<1>1. IInv /\ [FvNext]_fvVars => [NoWrap(rom) => Onward]_fvVars
  BY NextOnward
<1> QED
  BY <1>1, Invariance, PTL DEF FvSpec, MovesOn, Onward
-----------------------------------------------------------------------------
(* The layout of a well-formed image                                        *)

\* File f is one of volume o.
InVolume(o, f) ==
    /\ o \in VolumesNamed(rom)
    /\ FirstFile(rom, o) <= f /\ f + rom.file[f].size <= End(rom, o)

LEMMA RoundUp ==
  ASSUME NEW n \in Nat, NEW m \in Nat, m % Block = 0, n <= m
  PROVE  /\ ((n + Block - 1) \div Block) * Block \in n..m
         /\ (((n + Block - 1) \div Block) * Block) % Block = 0
<1> DEFINE q == (n + Block - 1) \div Block
           k == m \div Block
<1>1. q \in Nat /\ q * Block <= n + Block - 1 /\ n + Block - 1 < q * Block + Block
  BY DEF Block
<1>2. k \in Nat /\ m = k * Block
  BY DEF Block
<1> HIDE DEF q, k
<1>3. q * Block \in n..m /\ (q * Block) % Block = 0
  BY <1>1, <1>2 DEF Block
<1> QED  BY <1>3 DEF q

\* Multiples of Block that differ are at least Block apart.
LEMMA BlocksApart ==
  ASSUME NEW n \in Nat, NEW m \in Nat, n % Block = 0, m % Block = 0, n < m
  PROVE  n + Block <= m
  BY DEF Block

LEMMA AlignUp ==
  ASSUME NEW n \in Nat, n + 8 <= Wrap
  PROVE  /\ Aligned(n) \in n..(n + 7)
         /\ \A m \in Nat : m % 8 = 0 /\ n <= m => Aligned(n) <= m
<1> DEFINE a == IF n % 8 = 0 THEN n ELSE n - (n % 8) + 8
<1>1. a \in n..(n + 7) /\ \A m \in Nat : m % 8 = 0 /\ n <= m => a <= m
  OBVIOUS
<1>2. a % Wrap = a
  <2>1. a \in Nat /\ a < Wrap
    BY <1>1, UefiFvAssumption
  <2> HIDE DEF a
  <2> QED  BY <2>1, ModSmall
<1> QED  BY <1>1, <1>2 DEF Aligned

\* Where the volumes are.
LEMMA Volumes ==
  ASSUME FvTypeOK, WellFormed(rom), NEW o \in DOMAIN rom.volume
  PROVE  /\ o \in Nat /\ rom.size \in Nat /\ rom.size + Block <= Wrap
         /\ o % Block = 0 /\ o + Block <= rom.size
         /\ End(rom, o) \in o..rom.size
         /\ (o + Stride(rom.volume[o])) % Wrap = o + Stride(rom.volume[o])
         /\ (o + Stride(rom.volume[o])) % Block = 0
         /\ \A p \in DOMAIN rom.volume :
               o < p => /\ o + Stride(rom.volume[o]) <= p
                        /\ End(rom, o) <= p
<1> DEFINE L == rom.volume[o].fvLength
<1>1. /\ o \in Nat /\ rom.size \in Nat /\ L \in Nat
      /\ \A p \in DOMAIN rom.volume : p \in Nat
  BY ImageHeaders, VolumeFields
<1>2. /\ o % Block = 0 /\ L >= EfiFvHeader /\ o + L <= rom.size
      /\ rom.size % Block = 0 /\ rom.size + Block <= Wrap
      /\ \A p \in DOMAIN rom.volume : o < p => o + Stride(rom.volume[o]) <= p
  BY DEF WellFormed, End
<1>3. o + Block <= rom.size
  BY <1>1, <1>2, BlocksApart DEF EfiFvHeader
<1> DEFINE up == ((L + Block - 1) \div Block) * Block
<1>4. up \in L..(rom.size - o) /\ up % Block = 0
  <2>1. rom.size - o \in Nat /\ L <= rom.size - o
    BY <1>1, <1>2
  <2>2. (rom.size - o) % Block = 0
    BY <1>1, <1>2, <2>1 DEF Block
  <2> HIDE DEF L
  <2> QED  BY <1>1, <2>1, <2>2, RoundUp
<1>5. Stride(rom.volume[o]) = up
  <2>1. up \in Nat /\ up < Wrap /\ up > 0 /\ Wrap \in Nat
    BY <1>1, <1>2, <1>4, UefiFvAssumption DEF EfiFvHeader, Block
  <2>2. Stride(rom.volume[o]) = IF up % Wrap = 0 THEN Block ELSE up % Wrap
    BY DEF Stride
  <2> HIDE DEF up
  <2>3. up % Wrap = up
    BY <2>1, ModSmall
  <2> QED  BY <2>1, <2>2, <2>3
<1> DEFINE n == Stride(rom.volume[o])
<1>6. n \in Nat /\ L <= n /\ o + n <= rom.size /\ n % Block = 0
  BY <1>1, <1>4, <1>5
<1>7. End(rom, o) = o + L
  BY DEF End
<1> HIDE DEF L, n
<1>8. (o + n) % Wrap = o + n
  <2>1. o + n \in Nat /\ o + n < Wrap
    BY <1>1, <1>2, <1>6, UefiFvAssumption DEF Block
  <2> QED  BY <2>1, ModSmall
<1>9. (o + n) % Block = 0
  BY <1>1, <1>2, <1>6 DEF Block
<1>10. End(rom, o) \in o..rom.size
  BY <1>1, <1>2, <1>7
<1>11. \A p \in DOMAIN rom.volume : o < p => o + n <= p /\ End(rom, o) <= p
  BY <1>1, <1>2, <1>6, <1>7 DEF n
<1> QED  BY <1>1, <1>2, <1>3, <1>8, <1>9, <1>10, <1>11 DEF n

\* Where the files of a named volume begin.
LEMMA Firsts ==
  ASSUME FvTypeOK, WellFormed(rom), NEW o \in VolumesNamed(rom)
  PROVE  /\ o \in DOMAIN rom.volume
         /\ ExtHeaderEnd(rom, o) \in o..End(rom, o)
         /\ FirstFile(rom, o) \in Nat /\ o <= FirstFile(rom, o)
         /\ FirstFile(rom, o) \in
               ExtHeaderEnd(rom, o)..(ExtHeaderEnd(rom, o) + 7)
<1> DEFINE x == o + rom.volume[o].extHeaderOffset
           e == ExtHeaderEnd(rom, o)
<1>1. o \in DOMAIN rom.volume /\ x \in DOMAIN rom.name
  BY DEF VolumesNamed
<1>2. /\ o \in Nat /\ rom.volume[o].extHeaderOffset \in Nat
      /\ rom.name[x].extHeaderSize \in Nat
  BY <1>1, ImageHeaders, VolumeFields DEF ExtName
<1>3. e \in Nat /\ o <= e
  BY <1>2 DEF ExtHeaderEnd
<1>4. e <= End(rom, o)
  BY DEF WellFormed
<1>5. End(rom, o) \in o..rom.size /\ rom.size + Block <= Wrap /\ rom.size \in Nat
  BY <1>1, Volumes
<1> HIDE DEF e
<1>6. e + 8 <= Wrap
  BY <1>2, <1>3, <1>4, <1>5, UefiFvAssumption DEF Block
<1>7. Aligned(e) \in e..(e + 7)
  BY <1>3, <1>6, AlignUp
<1>8. FirstFile(rom, o) = Aligned(e)
  BY DEF FirstFile, e
<1>9. Aligned(e) \in Nat /\ o <= Aligned(e)
  BY <1>2, <1>3, <1>7
<1>10. e \in o..End(rom, o)
  BY <1>2, <1>3, <1>4, <1>5
<1> QED  BY <1>1, <1>7, <1>8, <1>9, <1>10 DEF e

\* A file, what WellFormed says of it, and where the next one begins.
LEMMA FileOf ==
  ASSUME FvTypeOK, WellFormed(rom), NEW f \in DOMAIN rom.file
  PROVE  /\ f \in Nat /\ rom.file[f].size \in Nat /\ f % 8 = 0
         /\ rom.file[f].size > EfiFfsFileHeader
         /\ \E o \in VolumesNamed(rom) : InVolume(o, f)
         /\ Aligned(f + rom.file[f].size) \in
               (f + rom.file[f].size)..(f + rom.file[f].size + 7)
         /\ \A m \in Nat : m % 8 = 0 /\ f + rom.file[f].size <= m
               => Aligned(f + rom.file[f].size) <= m
<1>1. f \in Nat /\ rom.file[f].size \in Nat
  BY ImageHeaders, FileFields
<1>2. f % 8 = 0 /\ rom.file[f].size > EfiFfsFileHeader
  BY DEF WellFormed
<1>3. PICK o \in VolumesNamed(rom) : InVolume(o, f)
  BY DEF WellFormed, InVolume
<1>4. /\ End(rom, o) \in o..rom.size /\ rom.size + Block <= Wrap
      /\ rom.size \in Nat /\ o \in Nat
  BY Volumes DEF VolumesNamed
<1> DEFINE n == f + rom.file[f].size
<1>5. n \in Nat /\ n + 8 <= Wrap
  <2>1. n <= End(rom, o)
    BY <1>3 DEF InVolume
  <2> QED  BY <1>1, <1>4, <2>1, UefiFvAssumption DEF Block
<1> HIDE DEF n
<1>6. /\ Aligned(n) \in n..(n + 7)
      /\ \A m \in Nat : m % 8 = 0 /\ n <= m => Aligned(n) <= m
  BY <1>5, AlignUp
<1> QED  BY <1>1, <1>2, <1>3, <1>6 DEF n

\* Volumes and their files do not overlap.
LEMMA SameVolume ==
  ASSUME FvTypeOK, WellFormed(rom), NEW f \in DOMAIN rom.file,
         NEW o \in VolumesNamed(rom), NEW p \in VolumesNamed(rom),
         InVolume(p, f), FirstFile(rom, o) <= f, f < End(rom, o)
  PROVE  p = o
<1>1. /\ o \in Nat /\ p \in Nat /\ o \in DOMAIN rom.volume
      /\ p \in DOMAIN rom.volume
      /\ o < p => End(rom, o) <= p
      /\ p < o => End(rom, p) <= o
      /\ End(rom, o) \in Nat /\ End(rom, p) \in Nat
  BY Volumes DEF VolumesNamed
<1>2. /\ o <= FirstFile(rom, o) /\ p <= FirstFile(rom, p)
      /\ FirstFile(rom, o) \in Nat /\ FirstFile(rom, p) \in Nat
  BY Firsts
<1>3. f \in Nat /\ rom.file[f].size \in Nat
  BY FileOf
<1>4. FirstFile(rom, p) <= f /\ f + rom.file[f].size <= End(rom, p)
  BY DEF InVolume
<1>5. ~(o < p)
  BY <1>1, <1>2, <1>3, <1>4
<1>6. ~(p < o)
  <2>1. rom.file[f].size > EfiFfsFileHeader
    BY FileOf
  <2>2. f < f + rom.file[f].size /\ f + rom.file[f].size \in Nat
    BY <1>3, <2>1 DEF EfiFfsFileHeader
  <2> QED  BY <1>1, <1>2, <1>3, <1>4, <2>2
<1> QED  BY <1>1, <1>5, <1>6
-----------------------------------------------------------------------------
(* The search of a well-formed image that can be read                       *)

\* Where the walk of a volume's files is: at its first, or behind another.
AtOrBehind ==
    \/ fileOffset = ExtHeaderEnd(rom, fvOffset)
    \/ \E g \in DOMAIN rom.file :
          InVolume(fvOffset, g) /\ fileOffset = g + rom.file[g].size

\* Each file that is wanted is in a volume, or a part of the volume, that is
\* still to be looked at.
Ahead ==
    /\ pc = "volumes" =>
          /\ fvOffset % Block = 0
          /\ \A f \in WantedFiles :
                \E o \in VolumesNamed(rom) : InVolume(o, f) /\ fvOffset <= o
    /\ pc = "files" =>
          /\ fvOffset \in VolumesNamed(rom) /\ fvEnd = End(rom, fvOffset)
          /\ AtOrBehind
          /\ \A f \in WantedFiles :
                \E o \in VolumesNamed(rom) :
                   /\ InVolume(o, f)
                   /\ fvOffset < o \/ (fvOffset = o /\ AtFile <= f)

Finding ==
    WellFormed(rom) /\ ~failed =>
        /\ Ahead
        /\ pc # "done" => data = Empty
        /\ FindsFile

\* Where the walk is in its volume.
LEMMA Walk ==
  ASSUME FvTypeOK, WellFormed(rom), Ahead, pc = "files"
  PROVE  /\ fvOffset \in VolumesNamed(rom) /\ fvOffset \in Nat
         /\ fvEnd = End(rom, fvOffset) /\ fvEnd \in 0..rom.size
         /\ rom.size \in Nat /\ rom.size + Block <= Wrap
         /\ fileOffset \in 0..fvEnd /\ AtFile \in fileOffset..(fileOffset + 7)
         /\ FirstFile(rom, fvOffset) \in 0..AtFile
         /\ AtFile = FirstFile(rom, fvOffset)
            \/ \E g \in DOMAIN rom.file :
                  /\ InVolume(fvOffset, g)
                  /\ AtFile = Aligned(g + rom.file[g].size)
<1> DEFINE o == fvOffset
<1>1. o \in VolumesNamed(rom) /\ fvEnd = End(rom, o) /\ AtOrBehind
  BY DEF Ahead
<1>2. o \in DOMAIN rom.volume
  BY <1>1 DEF VolumesNamed
<1>3. /\ o \in Nat /\ rom.size \in Nat /\ rom.size + Block <= Wrap
      /\ End(rom, o) \in o..rom.size
  BY <1>2, Volumes
<1>4. /\ ExtHeaderEnd(rom, o) \in o..End(rom, o) /\ FirstFile(rom, o) \in Nat
      /\ FirstFile(rom, o) = Aligned(ExtHeaderEnd(rom, o))
  BY <1>1, Firsts DEF FirstFile
<1>5. fileOffset \in 0..fvEnd
  <2>1. CASE fileOffset = ExtHeaderEnd(rom, o)
    BY <1>1, <1>3, <1>4, <2>1
  <2>2. ASSUME NEW g \in DOMAIN rom.file, InVolume(o, g),
               fileOffset = g + rom.file[g].size
        PROVE  fileOffset \in 0..fvEnd
    <3>1. g \in Nat /\ rom.file[g].size \in Nat
      BY FileOf
    <3>2. g + rom.file[g].size <= End(rom, o)
      BY <2>2 DEF InVolume
    <3> QED  BY <1>1, <1>3, <2>2, <3>1, <3>2
  <2> QED  BY <1>1, <2>1, <2>2 DEF AtOrBehind
<1>6. AtFile \in fileOffset..(fileOffset + 7)
  <2>1. fileOffset \in Nat /\ fileOffset + 8 <= Wrap
    BY <1>1, <1>3, <1>5, UefiFvAssumption DEF Block
  <2> QED  BY <2>1, AlignUp DEF AtFile
<1>7. \/ AtFile = FirstFile(rom, o)
      \/ \E g \in DOMAIN rom.file :
            InVolume(o, g) /\ AtFile = Aligned(g + rom.file[g].size)
  BY <1>1, <1>4 DEF AtOrBehind, AtFile
<1>8. FirstFile(rom, o) <= AtFile
  <2>1. ASSUME NEW g \in DOMAIN rom.file, InVolume(o, g),
               AtFile = Aligned(g + rom.file[g].size)
        PROVE  FirstFile(rom, o) <= AtFile
    <3>1. g \in Nat /\ rom.file[g].size \in Nat /\ FirstFile(rom, o) <= g
      BY <2>1, FileOf DEF InVolume
    <3> DEFINE n == g + rom.file[g].size
    <3>2. Aligned(n) \in n..(n + 7)
      BY FileOf
    <3>3. n \in Nat /\ g <= n
      BY <3>1
    <3> HIDE DEF n
    <3>4. AtFile \in n..(n + 7)
      BY <2>1, <3>2 DEF n
    <3> QED  BY <1>4, <3>1, <3>3, <3>4
  <2> QED  BY <1>4, <1>7, <2>1
<1>9. FirstFile(rom, o) \in 0..AtFile
  <2>1. AtFile \in Nat
    BY <1>1, <1>3, <1>5, <1>6
  <2> QED  BY <1>4, <1>8, <2>1
<1> QED  BY <1>1, <1>3, <1>5, <1>6, <1>7, <1>9

\* Where no file is, none follows in this volume.
LEMMA GapEnds ==
  ASSUME FvTypeOK, WellFormed(rom), Ahead, pc = "files",
         AtFile \notin DOMAIN rom.file,
         NEW f \in DOMAIN rom.file, InVolume(fvOffset, f), AtFile <= f
  PROVE  FALSE
<1> DEFINE o == fvOffset
           T == {g \in DOMAIN rom.file : AtFile <= g}
<1>1. T \subseteq Nat /\ f \in T
  BY FileOf
<1>2. PICK m \in T : \A g \in T : <<g, m>> \notin Below
  BY <1>1, BelowWellFounded, WFMin, Zenon
<1>3. m \in DOMAIN rom.file /\ m \in Nat /\ m % 8 = 0 /\ AtFile <= m
  BY <1>2, FileOf
<1>4. \A g \in DOMAIN rom.file : g \in Nat
  BY FileOf
<1>5. ASSUME NEW g \in T
      PROVE  m <= g
  <2>1. g \in Nat /\ <<g, m>> \notin Below
    BY <1>2, <1>4
  <2>2. ~(g < m)
    BY <1>3, <2>1 DEF Below
  <2> QED  BY <1>3, <2>1, <2>2
<1>6. m <= f
  BY <1>1, <1>5
<1>7. /\ AtFile \in Nat /\ FirstFile(rom, o) \in 0..AtFile
      /\ o \in VolumesNamed(rom) /\ End(rom, o) \in Nat
  BY Walk
<1>8. FirstFile(rom, o) <= m /\ m < End(rom, o)
  <2>1. /\ f \in Nat /\ rom.file[f].size \in Nat
        /\ rom.file[f].size > EfiFfsFileHeader
    BY FileOf
  <2>2. f + rom.file[f].size <= End(rom, o)
    BY DEF InVolume
  <2> QED  BY <1>3, <1>6, <1>7, <2>1, <2>2 DEF EfiFfsFileHeader
<1>9. PICK p \in VolumesNamed(rom) :
         /\ InVolume(p, m)
         /\ m = FirstFile(rom, p)
            \/ \E g \in DOMAIN rom.file :
                  FirstFile(rom, p) <= g /\ m = Aligned(g + rom.file[g].size)
  BY <1>3 DEF WellFormed, InVolume
<1>10. p = o
  BY <1>3, <1>7, <1>8, <1>9, SameVolume
<1>11. m # AtFile
  BY <1>3
<1>12. m # FirstFile(rom, o)
  BY <1>3, <1>7, <1>11
<1>13. PICK g \in DOMAIN rom.file :
          FirstFile(rom, o) <= g /\ m = Aligned(g + rom.file[g].size)
  BY <1>9, <1>10, <1>12
<1> DEFINE n == g + rom.file[g].size
<1>14. g \in Nat /\ n \in Nat /\ g < n /\ Aligned(n) \in n..(n + 7)
  <2>1. /\ g \in Nat /\ rom.file[g].size \in Nat
        /\ rom.file[g].size > EfiFfsFileHeader
        /\ Aligned(n) \in n..(n + 7)
    BY FileOf
  <2> QED  BY <2>1 DEF EfiFfsFileHeader
<1>15. m = Aligned(n)
  BY <1>13
<1> HIDE DEF n
<1>16. g < AtFile
  <2>1. g < m
    BY <1>3, <1>14, <1>15
  <2>2. g \notin T
    BY <1>3, <1>5, <1>14, <2>1
  <2> QED  BY <1>7, <1>14, <2>2
<1>17. AtFile # FirstFile(rom, o)
  BY <1>7, <1>13, <1>14, <1>16
<1>18. PICK h \in DOMAIN rom.file : AtFile = Aligned(h + rom.file[h].size)
  BY <1>17, Walk
<1> DEFINE k == h + rom.file[h].size
<1>19. /\ h \in Nat /\ k \in Nat /\ h < k /\ Aligned(k) \in k..(k + 7)
       /\ \A x \in Nat : x % 8 = 0 /\ k <= x => Aligned(k) <= x
  <2>1. /\ h \in Nat /\ rom.file[h].size \in Nat
        /\ rom.file[h].size > EfiFfsFileHeader
        /\ Aligned(k) \in k..(k + 7)
        /\ \A x \in Nat : x % 8 = 0 /\ k <= x => Aligned(k) <= x
    BY FileOf
  <2> QED  BY <2>1 DEF EfiFfsFileHeader
<1>20. /\ h < g => k <= g
       /\ g < h => n <= h
       /\ g % 8 = 0 /\ h % 8 = 0
  BY FileOf DEF WellFormed, n
<1>21. AtFile = Aligned(k) /\ (h = g => k = n)
  BY <1>18 DEF n
<1>22. \A x \in Nat : x % 8 = 0 /\ n <= x => m <= x
  BY <1>15, FileOf DEF n
<1> HIDE DEF k
<1>23. CASE h = g
  BY <1>11, <1>15, <1>21, <1>23
<1>24. CASE h < g
  <2>1. AtFile <= g
    BY <1>14, <1>19, <1>20, <1>21, <1>24
  <2> QED  BY <1>7, <1>14, <1>16, <2>1
<1>25. CASE g < h
  <2>1. m <= h
    BY <1>19, <1>20, <1>22, <1>25
  <2>2. h < AtFile
    BY <1>7, <1>19, <1>21
  <2> QED  BY <1>3, <1>7, <1>19, <2>1, <2>2
<1> QED  BY <1>14, <1>19, <1>23, <1>24, <1>25

\* The offset of the next volume, and what is then still ahead.
LEMMA NextVolume ==
  ASSUME FvTypeOK, WellFormed(rom), fvOffset \in DOMAIN rom.volume, pc' = "volumes",
         fvOffset' = (fvOffset + Stride(rom.volume[fvOffset])) % Wrap, rom' = rom,
         \A f \in WantedFiles :
            \E o \in VolumesNamed(rom) : InVolume(o, f) /\ fvOffset < o
  PROVE  Ahead'
<1>1. /\ fvOffset' % Block = 0
      /\ \A p \in DOMAIN rom.volume : fvOffset < p => fvOffset' <= p
  BY Volumes
<1>2. \A f \in WantedFiles :
         \E o \in VolumesNamed(rom) : InVolume(o, f) /\ fvOffset' <= o
  BY <1>1 DEF VolumesNamed
<1>3. /\ WantedFiles' = WantedFiles /\ VolumesNamed(rom)' = VolumesNamed(rom)
      /\ \A o, f : InVolume(o, f)' = InVolume(o, f)
  BY DEF WantedFiles, IsWanted, IsFile, InVolume
<1> QED  BY <1>1, <1>2, <1>3 DEF Ahead

LEMMA SkipBlockFinds ==
  ASSUME FvTypeOK, WellFormed(rom), Ahead, SkipBlock
  PROVE  Ahead'
<1>1. /\ pc = "volumes" /\ pc' = "volumes" /\ rom' = rom
      /\ fvOffset \notin DOMAIN rom.volume
      /\ fvOffset' = (fvOffset + Block) % Wrap
      /\ fvOffset + EfiFvHeader < rom.size
  BY DEF SkipBlock, AtVolume
<1>2. /\ fvOffset \in Nat /\ rom.size \in Nat /\ rom.size + Block <= Wrap
      /\ fvOffset % Block = 0
  BY <1>1, Offsets, ImageHeaders DEF WellFormed, Ahead
<1>3. fvOffset' = fvOffset + Block /\ fvOffset' % Block = 0
  <2>1. fvOffset + Block \in Nat /\ fvOffset + Block < Wrap
    BY <1>1, <1>2, UefiFvAssumption DEF Block, EfiFvHeader
  <2>2. fvOffset' = fvOffset + Block
    BY <1>1, <2>1, ModSmall
  <2>3. (fvOffset + Block) % Block = 0
    BY <1>2 DEF Block
  <2> QED  BY <2>2, <2>3
<1>4. ASSUME NEW o \in VolumesNamed(rom), fvOffset <= o
      PROVE  fvOffset' <= o
  <2>1. o \in DOMAIN rom.volume /\ o \in Nat /\ o % Block = 0
    BY Volumes DEF VolumesNamed
  <2>2. fvOffset < o
    BY <1>1, <1>2, <1>4, <2>1
  <2> QED  BY <1>2, <1>3, <2>1, <2>2, BlocksApart
<1>5. \A f \in WantedFiles :
         \E o \in VolumesNamed(rom) : InVolume(o, f) /\ fvOffset' <= o
  BY <1>1, <1>4 DEF Ahead
<1>6. /\ WantedFiles' = WantedFiles /\ VolumesNamed(rom)' = VolumesNamed(rom)
      /\ \A o, f : InVolume(o, f)' = InVolume(o, f)
  BY <1>1 DEF WantedFiles, IsWanted, IsFile, InVolume
<1> QED  BY <1>1, <1>3, <1>5, <1>6 DEF Ahead

LEMMA SkipVolumeFinds ==
  ASSUME FvTypeOK, WellFormed(rom), Ahead, SkipVolume, ~failed'
  PROVE  Ahead'
<1>1. /\ pc = "volumes" /\ pc' = "volumes" /\ rom' = rom
      /\ fvOffset \in DOMAIN rom.volume /\ ~Named(fvOffset)
      /\ fvOffset' = (fvOffset + Stride(rom.volume[fvOffset])) % Wrap
  BY DEF SkipVolume, AtVolume
<1>2. fvOffset \notin VolumesNamed(rom)
  <2>1. HasExtHeader(fvOffset)
           => Readable(ExtHeaderAt(fvOffset), EfiFvExtHeader)
    BY DEF SkipVolume
  <2> QED  BY <1>1, <2>1 DEF Named, VolumesNamed, ExtHeaderAt, HasExtHeader
<1>3. ASSUME NEW f \in WantedFiles
      PROVE  \E o \in VolumesNamed(rom) : InVolume(o, f) /\ fvOffset < o
  <2>1. PICK o \in VolumesNamed(rom) : InVolume(o, f) /\ fvOffset <= o
    BY <1>1 DEF Ahead
  <2>2. o \in Nat /\ fvOffset \in Nat /\ o # fvOffset
    BY <1>1, <1>2, Volumes DEF VolumesNamed
  <2> QED  BY <2>1, <2>2
<1> QED  BY <1>1, <1>3, NextVolume

LEMMA EnterVolumeFinds ==
  ASSUME FvTypeOK, WellFormed(rom), Ahead, EnterVolume
  PROVE  Ahead'
<1> DEFINE e == ExtHeaderEnd(rom, fvOffset)
<1>1. /\ pc = "volumes" /\ pc' = "files" /\ UNCHANGED <<rom, fvOffset>>
      /\ fvOffset \in VolumesNamed(rom)
      /\ fileOffset' = e % Wrap
  BY DEF EnterVolume, AtVolume, Named, HasExtHeader, VolumesNamed, ExtHeaderAt,
         ExtHeaderEnd
<1>2. fvEnd' = LET end == End(rom, fvOffset) % Wrap
               IN  IF end > rom.size THEN rom.size ELSE end
  BY DEF EnterVolume, End
<1>3. /\ fvOffset \in Nat /\ End(rom, fvOffset) \in fvOffset..rom.size
      /\ rom.size \in Nat /\ rom.size + Block <= Wrap
  BY <1>1, Volumes DEF VolumesNamed
<1>4. e \in fvOffset..End(rom, fvOffset)
  BY <1>1, Firsts
<1> HIDE DEF e
<1>5. /\ e \in Nat /\ e < Wrap
      /\ End(rom, fvOffset) \in Nat /\ End(rom, fvOffset) < Wrap
  BY <1>3, <1>4, UefiFvAssumption DEF Block
<1>6. fvEnd' = End(rom, fvOffset)
  <2>1. End(rom, fvOffset) % Wrap = End(rom, fvOffset)
    BY <1>5, ModSmall
  <2> QED  BY <1>2, <1>3, <2>1
<1>7. fileOffset' = e
  BY <1>1, <1>5, ModSmall
<1>8. AtFile' = FirstFile(rom, fvOffset)
  BY <1>7 DEF AtFile, FirstFile, e
<1>9. ASSUME NEW f \in WantedFiles
      PROVE  \E o \in VolumesNamed(rom) :
                /\ InVolume(o, f)
                /\ fvOffset < o \/ (fvOffset = o /\ AtFile' <= f)
  <2>1. PICK o \in VolumesNamed(rom) : InVolume(o, f) /\ fvOffset <= o
    BY <1>1 DEF Ahead
  <2>2. o \in Nat
    BY Volumes DEF VolumesNamed
  <2>3. fvOffset < o \/ fvOffset = o
    BY <1>3, <2>1, <2>2
  <2> QED  BY <1>8, <2>1, <2>3 DEF InVolume
<1>10. /\ WantedFiles' = WantedFiles /\ VolumesNamed(rom)' = VolumesNamed(rom)
       /\ \A o, f : InVolume(o, f)' = InVolume(o, f)
       /\ \A o : End(rom, o)' = End(rom, o)
       /\ \A o : ExtHeaderEnd(rom, o)' = ExtHeaderEnd(rom, o)
  BY <1>1 DEF WantedFiles, IsWanted, IsFile, InVolume
<1>11. AtOrBehind'
  BY <1>1, <1>7, <1>10 DEF AtOrBehind, e
<1> QED  BY <1>1, <1>6, <1>9, <1>10, <1>11 DEF Ahead

LEMMA FilesEndFinds ==
  ASSUME FvTypeOK, WellFormed(rom), Ahead, FilesEnd, ~failed'
  PROVE  Ahead'
<1>1. /\ pc = "files" /\ pc' = "volumes" /\ rom' = rom
      /\ fvOffset' = (fvOffset + Stride(rom.volume[fvOffset])) % Wrap
      /\ ~(MoreFiles /\ ~HeaderRead)
      /\ \/ ~HeaderRead
         \/ ~IsFile(AtFile)
         \/ IsWanted(AtFile) /\ NoPayload(AtFile)
  BY DEF FilesEnd
<1>2. /\ fvOffset \in VolumesNamed(rom) /\ fvEnd = End(rom, fvOffset)
      /\ fvEnd \in 0..rom.size /\ rom.size \in Nat /\ rom.size + Block <= Wrap
      /\ fileOffset \in 0..fvEnd /\ AtFile \in fileOffset..(fileOffset + 7)
  BY <1>1, Walk
<1>3. ASSUME NEW f \in WantedFiles, InVolume(fvOffset, f), AtFile <= f
      PROVE  FALSE
  <2>1. /\ f \in Nat /\ rom.file[f].size \in Nat /\ f \in DOMAIN rom.file
        /\ rom.file[f].size > EfiFfsFileHeader
        /\ f + rom.file[f].size <= fvEnd
    BY <1>2, <1>3, FileOf DEF WantedFiles, InVolume
  <2>2. MoreFiles
    <3>1. fileOffset + EfiFfsFileHeader < fvEnd
      BY <1>2, <1>3, <2>1 DEF EfiFfsFileHeader
    <3>2. (fileOffset + EfiFfsFileHeader) % Wrap = fileOffset + EfiFfsFileHeader
      <4>1. /\ fileOffset + EfiFfsFileHeader \in Nat
            /\ fileOffset + EfiFfsFileHeader < Wrap
        BY <1>2, <3>1, UefiFvAssumption DEF EfiFfsFileHeader, Block
      <4> QED  BY <4>1, ModSmall
    <3> QED  BY <1>1, <3>1, <3>2 DEF MoreFiles
  <2>3. HeaderRead
    BY <1>1, <2>2
  <2>4. CASE AtFile \notin DOMAIN rom.file
    BY <1>1, <1>3, <2>1, <2>4, GapEnds
  <2>5. CASE AtFile \in DOMAIN rom.file
    <3>1. IsFile(AtFile)
      BY <2>5, FileOf DEF IsFile, EfiFfsFileHeader
    <3>2. IsWanted(AtFile) /\ NoPayload(AtFile)
      BY <1>1, <2>3, <3>1
    <3>3. rom.file[AtFile].size > EfiFfsFileHeader + guidSecHdrSize
      BY <2>5, <3>2
      DEF WellFormed, NoPayload, HasSection, SectionOf, DataOffset
    <3>4. rom.file[AtFile].size - EfiFfsFileHeader <= guidSecHdrSize
      BY <3>2 DEF NoPayload, DataSize
    <3>5. rom.file[AtFile].size \in Nat
      BY <2>5, FileOf
    <3> QED  BY <3>3, <3>4, <3>5 DEF EfiFfsFileHeader, guidSecHdrSize
  <2> QED  BY <2>4, <2>5
<1>4. ASSUME NEW f \in WantedFiles
      PROVE  \E o \in VolumesNamed(rom) : InVolume(o, f) /\ fvOffset < o
  BY <1>1, <1>3 DEF Ahead
<1>5. fvOffset \in DOMAIN rom.volume
  BY <1>2 DEF VolumesNamed
<1> QED  BY <1>1, <1>4, <1>5, NextVolume

LEMMA SkipFileFinds ==
  ASSUME FvTypeOK, WellFormed(rom), Ahead, SkipFile
  PROVE  Ahead'
<1> DEFINE g == AtFile
           n == g + rom.file[g].size
<1>1. /\ pc = "files" /\ pc' = "files" /\ UNCHANGED <<rom, fvOffset, fvEnd>>
      /\ g \in DOMAIN rom.file /\ ~IsWanted(g)
      /\ fileOffset' = n % Wrap
      /\ (fileOffset + EfiFfsFileHeader) % Wrap < fvEnd
  BY DEF SkipFile, HeaderRead, MoreFiles, IsFile
<1>2. /\ fvOffset \in VolumesNamed(rom) /\ fvEnd = End(rom, fvOffset)
      /\ fvEnd \in 0..rom.size /\ rom.size \in Nat /\ rom.size + Block <= Wrap
      /\ fileOffset \in 0..fvEnd /\ g \in fileOffset..(fileOffset + 7)
      /\ FirstFile(rom, fvOffset) \in 0..g
  BY <1>1, Walk
<1>3. g < fvEnd
  <2>1. (fileOffset + EfiFfsFileHeader) % Wrap = fileOffset + EfiFfsFileHeader
    <3>1. /\ fileOffset + EfiFfsFileHeader \in Nat
          /\ fileOffset + EfiFfsFileHeader < Wrap
      BY <1>2, UefiFvAssumption DEF EfiFfsFileHeader, Block
    <3> QED  BY <3>1, ModSmall
  <2> HIDE DEF g
  <2> QED  BY <1>1, <1>2, <2>1 DEF EfiFfsFileHeader
<1>4. InVolume(fvOffset, g)
  <2>1. PICK p \in VolumesNamed(rom) : InVolume(p, g)
    BY <1>1, FileOf
  <2>2. FirstFile(rom, fvOffset) <= g
    BY <1>2
  <2>3. p = fvOffset
    BY <1>1, <1>2, <1>3, <2>1, <2>2, SameVolume
  <2> QED  BY <2>1, <2>3
<1>5. /\ g \in Nat /\ rom.file[g].size \in Nat
      /\ \A m \in Nat : m % 8 = 0 /\ n <= m => Aligned(n) <= m
  BY <1>1, FileOf
<1>6. n <= fvEnd /\ n \in Nat
  BY <1>2, <1>4, <1>5 DEF InVolume
<1> HIDE DEF n
<1>7. fileOffset' = n
  <2>1. n < Wrap
    BY <1>2, <1>6, UefiFvAssumption DEF Block
  <2> QED  BY <1>1, <1>6, <2>1, ModSmall
<1>8. AtFile' = Aligned(n)
  BY <1>7 DEF AtFile
<1>9. ASSUME NEW f \in WantedFiles
      PROVE  \E o \in VolumesNamed(rom) :
                /\ InVolume(o, f)
                /\ fvOffset < o \/ (fvOffset = o /\ AtFile' <= f)
  <2>1. PICK o \in VolumesNamed(rom) :
           InVolume(o, f) /\ (fvOffset < o \/ (fvOffset = o /\ g <= f))
    BY <1>1, <1>9 DEF Ahead
  <2>2. CASE fvOffset = o /\ g <= f
    <3>1. f \in DOMAIN rom.file /\ f # g /\ f \in Nat /\ f % 8 = 0
      BY <1>1, FileOf DEF WantedFiles
    <3>2. g < f
      BY <1>5, <2>2, <3>1
    <3>3. n <= f
      BY <1>1, <3>1, <3>2 DEF WellFormed, n
    <3>4. AtFile' <= f
      BY <1>5, <1>8, <3>1, <3>3
    <3> QED  BY <2>1, <2>2, <3>4
  <2> QED  BY <2>1, <2>2
<1>10. /\ WantedFiles' = WantedFiles /\ VolumesNamed(rom)' = VolumesNamed(rom)
       /\ \A o, f : InVolume(o, f)' = InVolume(o, f)
       /\ End(rom, fvOffset)' = End(rom, fvOffset)
  BY <1>1 DEF WantedFiles, IsWanted, IsFile, InVolume
<1>11. AtOrBehind'
  BY <1>1, <1>4, <1>7, <1>10 DEF AtOrBehind, n
<1> QED  BY <1>1, <1>2, <1>9, <1>10, <1>11 DEF Ahead

LEMMA TakeFileFinds ==
  ASSUME FvTypeOK, WellFormed(rom), Ahead, TakeFile, ~failed'
  PROVE  /\ AtFile \in WantedFiles /\ \A g \in WantedFiles : AtFile <= g
         /\ data' = Payload(AtFile)
<1>1. /\ pc = "files" /\ AtFile \in WantedFiles /\ AtFile \in DOMAIN rom.file
      /\ (fileOffset + EfiFfsFileHeader) % Wrap < fvEnd
      /\ data' = Payload(AtFile)
  BY DEF TakeFile, HeaderRead, MoreFiles, IsWanted, IsFile, WantedFiles, Return
<1>2. /\ fvOffset \in VolumesNamed(rom) /\ fvEnd = End(rom, fvOffset)
      /\ fvEnd \in 0..rom.size /\ rom.size \in Nat /\ rom.size + Block <= Wrap
      /\ fileOffset \in 0..fvEnd /\ AtFile \in fileOffset..(fileOffset + 7)
  BY <1>1, Walk
<1>3. AtFile < fvEnd
  <2>1. (fileOffset + EfiFfsFileHeader) % Wrap = fileOffset + EfiFfsFileHeader
    <3>1. /\ fileOffset + EfiFfsFileHeader \in Nat
          /\ fileOffset + EfiFfsFileHeader < Wrap
      BY <1>2, UefiFvAssumption DEF EfiFfsFileHeader, Block
    <3> QED  BY <3>1, ModSmall
  <2> QED  BY <1>1, <1>2, <2>1 DEF EfiFfsFileHeader
<1>4. ASSUME NEW g \in WantedFiles
      PROVE  AtFile <= g
  <2>1. PICK o \in VolumesNamed(rom) :
           InVolume(o, g) /\ (fvOffset < o \/ (fvOffset = o /\ AtFile <= g))
    BY <1>1, <1>4 DEF Ahead
  <2>2. CASE fvOffset < o
    <3>1. o \in Nat /\ End(rom, fvOffset) <= o
      BY <1>2, <2>2, Volumes DEF VolumesNamed
    <3>2. FirstFile(rom, o) \in Nat /\ o <= FirstFile(rom, o)
      BY Firsts
    <3>3. FirstFile(rom, o) <= g /\ g \in Nat
      BY <2>1, FileOf DEF InVolume, WantedFiles
    <3> QED  BY <1>2, <1>3, <3>1, <3>2, <3>3
  <2> QED  BY <2>1, <2>2
<1> QED  BY <1>1, <1>4

LEMMA VolumesEndFinds ==
  ASSUME FvTypeOK, WellFormed(rom), Ahead, VolumesEnd, ~failed
  PROVE  WantedFiles = {}
<1> SUFFICES ASSUME NEW f \in WantedFiles PROVE FALSE
  OBVIOUS
<1>1. pc = "volumes" /\ ~(fvOffset + EfiFvHeader < rom.size)
  <2>1. pc = "volumes" /\ ~(AtVolume /\ Readable(fvOffset, EfiFvHeader))
    BY DEF VolumesEnd
  <2>2. fvOffset \in Nat /\ rom.size \in Nat
    BY Offsets, ImageHeaders
  <2>3. fvOffset + EfiFvHeader < rom.size => AtVolume
                                 /\ Readable(fvOffset, EfiFvHeader)
    BY <2>1, <2>2 DEF AtVolume, Readable, EfiFvHeader
  <2> QED  BY <2>1, <2>3
<1>2. PICK o \in VolumesNamed(rom) : fvOffset <= o
  BY <1>1 DEF Ahead
<1>3. o \in Nat /\ o + Block <= rom.size /\ rom.size \in Nat
  BY Volumes DEF VolumesNamed
<1>4. fvOffset \in Nat
  BY Offsets
<1> QED  BY <1>1, <1>2, <1>3, <1>4 DEF Block, EfiFvHeader

LEMMA FailedStays ==
  ASSUME FvNext, failed
  PROVE  failed'
  BY DEF FvNext, FvStep, VolumesEnd, SkipBlock, SkipVolume, EnterVolume, FilesEnd,
         SkipFile, TakeFile, MediaError, HeaderRead, Readable

LEMMA FindingStep == IInv /\ Finding /\ [FvNext]_fvVars => Finding'
<1> SUFFICES ASSUME IInv, Finding, [FvNext]_fvVars, WellFormed(rom)', ~failed'
             PROVE  Ahead' /\ (pc' # "done" => data' = Empty) /\ FindsFile'
  BY DEF Finding
<1>1. rom' = rom
  BY DEF FvNext, FvStep, VolumesEnd, SkipBlock, SkipVolume, EnterVolume, FilesEnd,
         SkipFile, TakeFile, MediaError, Return, fvVars
<1>2. WellFormed(rom) /\ WantedFiles' = WantedFiles
  BY <1>1 DEF WantedFiles, IsWanted, IsFile, WellFormed
<1>3. ~failed
  BY FailedStays DEF fvVars
<1>4. FvTypeOK /\ Ahead /\ (pc # "done" => data = Empty) /\ FindsFile
  BY <1>2, <1>3 DEF IInv, Finding
<1>5. CASE SkipBlock \/ SkipVolume \/ EnterVolume \/ FilesEnd \/ SkipFile
  <2>1. Ahead'
    BY <1>2, <1>4, <1>5, SkipBlockFinds, SkipVolumeFinds, EnterVolumeFinds,
       FilesEndFinds, SkipFileFinds
  <2>2. pc # "done" /\ pc' # "done" /\ data' = data
    BY <1>5 DEF SkipBlock, SkipVolume, EnterVolume, FilesEnd, SkipFile,
                AtVolume, HeaderRead, MoreFiles
  <2> QED  BY <1>4, <2>1, <2>2 DEF FindsFile
<1>6. CASE TakeFile
  <2>1. /\ AtFile \in WantedFiles /\ \A g \in WantedFiles : AtFile <= g
        /\ data' = Payload(AtFile) /\ pc' = "done"
    BY <1>2, <1>4, <1>6, TakeFileFinds DEF TakeFile, Return
  <2>2. \A f : Payload(f)' = Payload(f)
    BY <1>1 DEF Payload, DataOffset, Skipped, DataSize, HasSection, SectionOf
  <2> QED  BY <1>2, <2>1, <2>2 DEF FindsFile, Ahead
<1>7. CASE VolumesEnd
  <2>1. WantedFiles = {} /\ data' = Empty /\ pc' = "done"
    BY <1>2, <1>3, <1>4, <1>7, VolumesEndFinds DEF VolumesEnd, Return
  <2> QED  BY <1>2, <2>1 DEF FindsFile, Ahead
<1>8. CASE MediaError
  BY <1>8 DEF MediaError
<1>9. CASE UNCHANGED fvVars
  <2>1. UNCHANGED <<rom, pc, fvOffset, fileOffset, fvEnd, failed, data>>
    BY <1>9 DEF fvVars
  <2>2. /\ VolumesNamed(rom)' = VolumesNamed(rom) /\ AtFile' = AtFile
        /\ \A o, f : InVolume(o, f)' = InVolume(o, f)
        /\ \A f : Payload(f)' = Payload(f)
        /\ AtOrBehind' = AtOrBehind /\ End(rom, fvOffset)' = End(rom, fvOffset)
    BY <2>1 DEF AtFile, InVolume, AtOrBehind, Payload, DataOffset, Skipped,
                DataSize, HasSection, SectionOf
  <2> QED  BY <1>2, <1>3, <1>4, <2>1, <2>2 DEF Ahead, FindsFile
<1> QED  BY <1>5, <1>6, <1>7, <1>8, <1>9 DEF FvNext, FvStep

LEMMA InitFinding == FvInit => Finding
<1> SUFFICES ASSUME FvInit, WellFormed(rom)
             PROVE  Ahead /\ data = Empty /\ pc # "done"
  BY DEF Finding, FindsFile
<1>1. pc = "volumes" /\ fvOffset = 0 /\ data = Empty /\ FvTypeOK
  BY InitEstablishes DEF FvInit, IInv
<1>2. ASSUME NEW f \in WantedFiles
      PROVE  \E o \in VolumesNamed(rom) : InVolume(o, f) /\ fvOffset <= o
  <2>1. PICK o \in VolumesNamed(rom) : InVolume(o, f)
    BY <1>1, FileOf DEF WantedFiles
  <2>2. o \in Nat
    BY <1>1, Volumes DEF VolumesNamed
  <2> QED  BY <1>1, <2>1, <2>2
<1>3. fvOffset % Block = 0
  BY <1>1 DEF Block
<1> QED  BY <1>1, <1>2, <1>3 DEF Ahead

\* In every well-formed image that can be read, of any number of volumes and
\* files of any sizes, extractFfsFile returns the payload of the first file of
\* the wanted name, and nothing where there is none.
THEOREM FindsTheFile == FvSpec => []FindsFile
<1>1. Finding /\ IInv => FindsFile
  BY DEF Finding, FindsFile
<1> QED  BY <1>1, InitFinding, FindingStep, Invariance, PTL DEF FvSpec
=============================================================================

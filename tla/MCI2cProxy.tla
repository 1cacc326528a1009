---------------------------- MODULE MCI2cProxy ----------------------------
(* I2cProxy for TLC: flash images of up to four 64 KB blocks, in which the   *)
(* table lies in different places, and one image with different tables.      *)
EXTENDS I2cProxy, TLC

CONSTANTS v1, v2

MCWrap == 16 * Block

\* Files: padding, another file, and the platform definition in each of the
\* ways it may be stored.
OtherFile(n) ==
    [wanted |-> FALSE, large |-> FALSE, freeform |-> TRUE, size |-> n]
TableFile(freeform) ==
    [wanted |-> TRUE, large |-> FALSE, freeform |-> freeform, size |-> 1003]
LargeFile == [TableFile(TRUE) EXCEPT !.large = TRUE]

FileLists ==
    {<<TableFile(TRUE)>>,
     <<OtherFile(37), OtherFile(93), TableFile(TRUE)>>,
     <<OtherFile(25), TableFile(FALSE), OtherFile(40), TableFile(TRUE)>>,
     <<LargeFile, TableFile(TRUE)>>,
     <<OtherFile(2000)>>, <<>>}

ExtAt == 64
FirstAt == ExtAt + 31

Offsets(start, files) ==
    LET at[i \in DOMAIN files] ==
            IF i = 1 THEN Aligned(start)
            ELSE Aligned(at[i - 1] + files[i - 1].size)
    IN  at

\* Volumes: at a block, of a kind, with a length and files.
Vol(block, kind, length, files) ==
    [at |-> block * Block, kind |-> kind, length |-> length, files |-> files]

Headers(v) ==
    [fvLength |-> v.length, ffs2 |-> v.kind # "foreign",
     extHeaderOffset |-> IF v.kind = "plain" THEN 0 ELSE ExtAt]

Files(v) ==
    IF v.kind # "apml" THEN {}
    ELSE LET at == Offsets(v.at + FirstAt, v.files)
         IN  {<<at[i], v.files[i]>> : i \in DOMAIN v.files}

Function(pairs) == [x \in {p[1] : p \in pairs} |->
                       (CHOOSE p \in pairs : p[1] = x)[2]]

\* The image of a set of volumes, its files in sections of one kind, with a blob
\* in each file.
Image(blocks, vols, section, blob) ==
    LET files == UNION {Files(v) : v \in vols}
        o == [f \in {p[1] : p \in files} |-> f + EfiFfsFileHeader]
        skip == CASE section = "raw" -> EfiSectionHeader
                  [] section = "guidDefined" -> guidSecHdrSize
                  [] section = "other" -> 0
    IN  [size    |-> blocks * Block,
         volume  |-> Function({<<v.at, Headers(v)>> : v \in vols}),
         name    |-> Function(
                        {<<v.at + ExtAt, [wanted |-> v.kind = "apml",
                                          extHeaderSize |-> 31]>> :
                            v \in {w \in vols : w.kind \in {"apml", "other"}}}),
         file    |-> Function(files),
         section |-> Function({<<o[p[1]], section>> : p \in files}),
         blob    |-> Function({<<o[p[1]] + IF p[2].freeform THEN skip ELSE 0,
                                 blob>> : p \in files})]

-----------------------------------------------------------------------------
(* Tables                                                                    *)

Seg(id, byte, mask) ==
    [id |-> id, cpld |-> TRUE, byte |-> byte, selectMask |-> mask]
NotCpld(id) == [Seg(id, 132, 1) EXCEPT !.cpld = FALSE]
Record(type, size, count, segs) ==
    [type |-> type, size |-> size, count |-> count, segments |-> segs]
Engine(segs) == Record("engine", 5 + 2 * Len(segs), Len(segs), segs)
TableHeader == Record("table", 7, 0, <<>>)
OtherRecord == Record("other", 3, 0, <<>>)
EndRecord == Record("end", 2, 0, <<>>)

MCChannels == (<<0, 1>> :> 39) @@ (<<1, 2>> :> 40)

Whole == <<TableHeader, OtherRecord,
           Engine(<<Seg(51, 132, 1), Seg(52, 133, 2)>>), EndRecord>>

Tables ==
    {Whole,
     \* segments given twice, in one record and in two; not behind the CPLD
     <<TableHeader, Engine(<<Seg(51, 132, 1), Seg(51, 133, 2), NotCpld(52)>>),
       OtherRecord, Engine(<<NotCpld(51), Seg(53, 133, 2)>>),
       Engine(<<Seg(53, 132, 1), Seg(52, 131, 1), Seg(52, 133, 1)>>)>>,
     \* a count that is too large, and one that is too small
     <<TableHeader, Record("engine", 7, 3, <<Seg(51, 132, 1)>>),
       Record("engine", 9, 1, <<Seg(52, 133, 2), Seg(51, 133, 2)>>)>>,
     \* an engine too short for its fixed fields, a record without a size, one
     \* that is longer than the table, a table that is not of Gen11
     <<TableHeader, Record("engine", 3, 1, <<>>), Engine(<<Seg(51, 132, 1)>>)>>,
     <<TableHeader, Record("other", 0, 0, <<>>), Engine(<<Seg(51, 132, 1)>>)>>,
     <<TableHeader, Engine(<<Seg(51, 132, 1)>>), Record("engine", 40, 1, <<>>)>>,
     <<Record("table", 6, 0, <<>>), Engine(<<Seg(51, 132, 1)>>)>>,
     <<TableHeader, EndRecord, Engine(<<Seg(51, 132, 1)>>)>>}

Bytes(t) == Total(RecordSizes(t))

Packed(t) ==
    [zlib |-> TRUE, compressedSize |-> PlatDefTableData + 300, stream |-> 300,
     totalSize |-> Bytes(t) - PlatDefTableData,
     inflated |-> Bytes(t) - PlatDefTableData, intact |-> TRUE, records |-> t]

\* The last record but one cannot be whole when the table is this short.
Short(t) == [Packed(t) EXCEPT !.totalSize = 320, !.inflated = 320]

Blobs ==
    {Packed(t) : t \in Tables}
    \cup {[Packed(Whole) EXCEPT !.zlib = FALSE],
          [Packed(Whole) EXCEPT !.intact = FALSE],
          [Packed(Whole) EXCEPT !.compressedSize = 100],
          [Packed(Whole) EXCEPT !.compressedSize = 2000],
          [Packed(Whole) EXCEPT !.compressedSize = 400],
          [Packed(Whole) EXCEPT !.totalSize = 0],
          [Packed(Whole) EXCEPT !.totalSize = 100],
          [Packed(Whole) EXCEPT !.totalSize = 600 * 1024],
          [Packed(Whole) EXCEPT !.totalSize = 500 * 1024,
                                !.inflated = 500 * 1024],
          Short(<<TableHeader, Engine(<<Seg(51, 132, 1)>>),
                  Record("engine", 13, 4, <<Seg(51, 133, 2)>>)>>)}

-----------------------------------------------------------------------------
(* Images                                                                    *)

\* A volume in front, of each kind, and of lengths that are aligned up.
Fronts ==
    {Vol(0, kind, length, <<>>) :
        kind \in {"foreign", "plain", "other", "apml"},
        length \in {Block, Block + 1}}

Sound ==
    {Image(4, {Vol(0, "apml", 2 * Block, l)}, "raw", Packed(Whole)) :
        l \in FileLists}
    \cup {Image(4, {f, Vol(2, "apml", Block, l)}, "guidDefined", Packed(Whole)) :
            f \in Fronts, l \in {<<OtherFile(93), TableFile(TRUE)>>, <<>>}}
    \cup {Image(2, {Vol(1, "apml", Block, <<TableFile(TRUE)>>)}, "other",
                Packed(Whole)),
          Image(3, {Vol(0, "apml", Block, <<TableFile(FALSE)>>),
                    Vol(1, "apml", Block, <<TableFile(TRUE)>>)}, "raw",
                Packed(Whole))}

Table1 == Image(2, {Vol(0, "apml", Block, <<TableFile(TRUE)>>)}, "raw",
                Packed(Whole))
F1 == Aligned(FirstAt)

\* Headers that cannot be: no length; a length past the end of the image; an
\* extended header there, or one so long that the offset wraps; a file shorter
\* than its header, or past the end; a section with nothing in it.
Unsound ==
    {Image(2, {Vol(0, k, length, <<TableFile(TRUE)>>)}, "raw", Packed(Whole)) :
        k \in {"apml", "other"}, length \in {0, 5, 9 * Block}}
    \cup {[Table1 EXCEPT !.volume[0].extHeaderOffset = 2 * Block - 4],
          [Table1 EXCEPT !.name[ExtAt].extHeaderSize = MCWrap - 64],
          [Table1 EXCEPT !.file[F1].size = 12],
          [Table1 EXCEPT !.file[F1].size = 3 * Block],
          [Table1 EXCEPT !.file[F1].size = 24],
          [Table1 EXCEPT !.file[F1].size = 24 + 20,
                         !.section[F1 + 24] = "guidDefined"],
          Image(1, {Vol(0, "apml", Block, <<OtherFile(0)>>)}, "raw",
                Packed(Whole)),
          [Table1 EXCEPT !.size = F1 + 26],
          [Table1 EXCEPT !.size = Block + 60]}

\* A length with which the scan comes back to where it was.
Wrapping ==
    Image(2, {Vol(1, "other", 15 * Block, <<>>)}, "raw", Packed(Whole))

MCImages ==
    Sound \cup Unsound \cup {Wrapping}
    \cup {[Table1 EXCEPT !.blob = (F1 + 28 :> b)] : b \in Blobs}

-----------------------------------------------------------------------------
Transfer(segment, address, writeLen, readLen) ==
    [command |-> "i2c", short |-> FALSE, available |-> 2, address |-> address,
     segment |-> segment, writeLen |-> writeLen, readLen |-> readLen,
     value |-> v1]

MCI2cRequests ==
    {Transfer(s, 160, 2, 2) : s \in {51, 52, 99}}
    \cup {Transfer(51, 672, 0, 2), Transfer(51, 160, 2, 0),
          Transfer(51, 160, 0, 0), Transfer(51, 160, 3, 2),
          Transfer(51, 160, 2, 33),
          [Transfer(51, 160, 2, 2) EXCEPT !.short = TRUE]}

MCValues == {v1, v2}
=============================================================================

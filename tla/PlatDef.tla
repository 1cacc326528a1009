------------------------------- MODULE PlatDef -------------------------------
(***************************************************************************)
(* What the chif daemon does before it serves the host: it finds the        *)
(* platform definition in the host's BIOS flash, unpacks it, walks its      *)
(* records for the I2C segments the BIOS knows, and maps each to a bus of   *)
(* the BMC's kernel (platdef_extract.cpp, called by main.cpp).  The buses   *)
(* behind the CPLD's multiplexers are registered by the kernel on its own.  *)
(***************************************************************************)
EXTENDS UefiFv, Sequences, FiniteSetsExt, Sums

CONSTANT Channels    \* channels the kernel registers: <<mux, channel>> -> bus

VARIABLES
    step,           \* where main() is: "mtd", "scan", "records", "map", "serve"
    platDef,        \* the unpacked table: its size and its records
    pos, next,      \* where the walk is, and at which record
    segments,       \* what it found: segment -> multiplexer register, channel
    topology,       \* the channels the kernel has registered
    segmentBusMap,  \* the result: segment -> bus
    scanned         \* the channels found in sysfs when the map was built

walkVars == <<platDef, pos, next, segments>>
mapVars == <<topology, segmentBusMap, scanned>>
platVars == <<fvVars, step, walkVars, mapVars>>

PlatDefBundleHeader == 32
PlatDefRecordHeader == 32
PlatDefTableData == 112
PlatDefI2CEngineFixed == 48
PlatDefI2CSegment == 32

\* A segment of an engine's record, controlled by the CPLD or otherwise; a
\* record, its size in units of 16 bytes, with the segments it has and the
\* number it says it has; and the file, whose records are packed or not.
Segment == [id : 0..255, cpld : BOOLEAN, byte : 0..255, selectMask : 0..255]
PlatDefRecord ==
    [type : {"table", "engine", "end", "other"}, size : 0..255, count : 0..255,
     segments : Seq(Segment)]
IsBlob(b) ==
    /\ b.zlib \in BOOLEAN /\ b.intact \in BOOLEAN
    /\ {b.compressedSize, b.totalSize, b.stream, b.inflated}
          \subseteq 0..(Wrap - 1)
    /\ b.records \in Seq(PlatDefRecord)

\* Where in an image there is a file that starts with the bundle's signature.
ASSUME PlatDefAssumption ==
    /\ \A i \in Images : \A o \in DOMAIN i.blob : IsBlob(i.blob[o])
    /\ \A c \in DOMAIN Channels : c \in (0..255) \X (0..255)

NoPlatDef == [size |-> 0, records |-> <<>>]
NoSegments == [s \in {} |-> 0]

PlatInit ==
    /\ FvInit
    /\ step = "mtd"
    /\ platDef = NoPlatDef /\ pos = 0 /\ next = 1 /\ segments = NoSegments
    /\ topology = NoSegments
    /\ segmentBusMap = NoSegments /\ scanned = {}

-----------------------------------------------------------------------------
(* Finding and unpacking the table                                          *)

\* The partition "host-prime" is missing, cannot be opened, or has no size.
NoRom ==
    /\ step = "mtd" /\ step' = "serve"
    /\ UNCHANGED <<fvVars, walkVars, mapVars>>

OpenRom ==
    /\ step = "mtd" /\ step' = "scan"
    /\ UNCHANGED <<fvVars, walkVars, mapVars>>

Scan ==
    /\ step = "scan" /\ FvStep
    /\ UNCHANGED <<step, walkVars, mapVars>>

FlashError ==
    /\ step = "scan" /\ MediaError
    /\ UNCHANGED <<step, walkVars, mapVars>>

\* Mutant of Capacity: a table too large is cut where the limit is.
CapacityCut(b) == IF b.totalSize > 1024 THEN 1024 ELSE b.totalSize

\* The room for the records: what the header says, if that is reasonable.
Capacity(b) ==
    IF b.totalSize = 0 \/ b.totalSize > 512 * 1024 THEN 256 * 1024
    ELSE b.totalSize

\* uncompress() has all of the stream and room for what it holds.
Inflates(b) ==
    /\ b.intact
    /\ b.stream <= b.compressedSize - PlatDefTableData
    /\ b.inflated <= Capacity(b)

\* decompressPlatDef: no signature, no table, a size that cannot be, or a
\* stream that does not inflate give an empty table.
Decompressed(raw) ==
    IF raw.size < PlatDefBundleHeader + PlatDefTableData
       \/ raw.offset \notin DOMAIN rom.blob
    THEN NoPlatDef
    ELSE LET b == rom.blob[raw.offset] IN
         CASE ~b.zlib ->
                [size    |-> raw.size - PlatDefBundleHeader,
                 records |-> b.records]
           [] b.zlib /\ b.compressedSize >= PlatDefTableData
                     /\ (PlatDefBundleHeader + b.compressedSize) % Wrap
                            <= raw.size
                     /\ Inflates(b) ->
                [size    |-> PlatDefTableData + b.inflated,
                 records |-> b.records]
           [] OTHER -> NoPlatDef

\* The first record must be the table's own header, as on Gen11.
Gen11(t) ==
    /\ t.size >= PlatDefRecordHeader
    /\ t.records # <<>> /\ t.records[1].size * 16 = PlatDefTableData

Inflate ==
    /\ step = "scan" /\ pc = "done"
    /\ platDef' = Decompressed(data)
    /\ step' = CASE platDef' = NoPlatDef -> "serve"
                 [] platDef' # NoPlatDef /\ ~Gen11(platDef') -> "map"
                 [] OTHER -> "records"
    /\ UNCHANGED <<fvVars, pos, next, segments, mapVars>>

-----------------------------------------------------------------------------
(* parseI2cSegments, a record at a time.  What follows the last record of   *)
(* the table is padding, which has no size or the type of its end.          *)

RecordAt == platDef.records[next]
RecordBytes == RecordAt.size * 16
FixedEnd == pos + PlatDefRecordHeader + PlatDefI2CEngineFixed

\* There is another record, and it is whole.
AtRecord ==
    /\ next <= Len(platDef.records)
    /\ pos + PlatDefRecordHeader <= platDef.size
    /\ RecordAt.type # "end" /\ RecordAt.size # 0
    /\ pos + RecordBytes <= platDef.size
    /\ RecordAt.type = "engine" => FixedEnd <= platDef.size

\* The segments of record r that the walk takes: as many as it says it has, up
\* to the first that is not inside the record.
Taken(r) ==
    {i \in DOMAIN r.segments :
        /\ i <= r.count
        /\ PlatDefRecordHeader + PlatDefI2CEngineFixed + i * PlatDefI2CSegment
              <= r.size * 16}

\* Mutant of Naming: the first segment of an id stays.
NamingFirst(r, id) ==
    {i \in Taken(r) : r.segments[i].id = id /\ r.segments[i].cpld
                        /\ id \notin DOMAIN segments}

\* Those for segment id that have a multiplexer of the CPLD.
Naming(r, id) == {i \in Taken(r) : r.segments[i].id = id /\ r.segments[i].cpld}

Mapping(r, i) == [cpldRegister |-> r.segments[i].byte,
                  channelValue |-> r.segments[i].selectMask]

\* result[seg.id] = ...: the last one stays.
WithSegments(r) ==
    LET ids == {r.segments[i].id : i \in {j \in Taken(r) : r.segments[j].cpld}}
    IN  [id \in ids \cup DOMAIN segments |->
            IF Naming(r, id) # {} THEN Mapping(r, Max(Naming(r, id)))
            ELSE segments[id]]

NextRecord ==
    /\ step = "records" /\ AtRecord
    /\ segments' = IF RecordAt.type = "engine" THEN WithSegments(RecordAt)
                   ELSE segments
    /\ pos' = pos + RecordBytes /\ next' = next + 1
    /\ UNCHANGED <<fvVars, step, platDef, mapVars>>

LastRecord ==
    /\ step = "records" /\ ~AtRecord
    /\ step' = "map"
    /\ UNCHANGED <<fvVars, walkVars, mapVars>>

-----------------------------------------------------------------------------
(* The map                                                                  *)

cpldRegisterBase == 132     \* 0x84

\* Mutant of MuxChannel: the register is not looked at.
MuxChannelFirst(m) == <<0, m.channelValue>>

MuxChannel(m) == <<m.cpldRegister - cpldRegisterBase, m.channelValue>>

BusMap(seen) ==
    [id \in {s \in DOMAIN segments :
                /\ segments[s].cpldRegister >= cpldRegisterBase
                /\ MuxChannel(segments[s]) \in seen} |->
        topology[MuxChannel(segments[id])]]

\* scanMuxTopology sees the channels that are registered, or fewer: it stops at
\* the first error, and a channel may come while the directory is read.
BuildMap ==
    /\ step = "map" /\ step' = "serve"
    /\ \E seen \in SUBSET DOMAIN topology :
          /\ scanned' = seen
          /\ segmentBusMap' = BusMap(seen)
    /\ UNCHANGED <<fvVars, walkVars, topology>>

\* The kernel registers another channel.
Register ==
    /\ \E c \in DOMAIN Channels \ DOMAIN topology :
          topology' = [d \in DOMAIN topology \cup {c} |-> Channels[d]]
    /\ UNCHANGED <<fvVars, step, walkVars, segmentBusMap, scanned>>

Startup ==
    \/ NoRom \/ OpenRom \/ Scan \/ Inflate
    \/ NextRecord \/ LastRecord \/ BuildMap

PlatNext == Startup \/ FlashError \/ Register

PlatSpec == PlatInit /\ [][PlatNext]_platVars
FairPlatSpec == PlatSpec /\ WF_platVars(Startup)

-----------------------------------------------------------------------------
(* Properties                                                               *)

PlatTypeOK ==
    /\ FvTypeOK
    /\ step \in {"mtd", "scan", "records", "map", "serve"}
    /\ pos \in Nat /\ next \in Nat
    /\ \A s \in DOMAIN segments :
          s \in 0..255 /\ segments[s].cpldRegister \in 0..255
                       /\ segments[s].channelValue \in 0..255
    /\ \A c \in DOMAIN topology : topology[c] = Channels[c]

CpldOf(r) == {j \in DOMAIN r.segments : r.segments[j].cpld}

\* The CPLD segments of a table in the order they are in, as <<record, place>>,
\* of which the last one for an id counts.
Listed(t) ==
    UNION {{<<i, j>> : j \in CpldOf(t[i])} :
              i \in {k \in DOMAIN t : t[k].type = "engine"}}
Before(p, q) == p[1] < q[1] \/ (p[1] = q[1] /\ p[2] < q[2])

SegmentAt(t, p) == t[p[1]].segments[p[2]]

RecordSizes(t) == [i \in DOMAIN t |-> t[i].size * 16]

\* A table whose records are all whole and say what they hold, the last of them
\* its end.
WholeTable(t) ==
    /\ Gen11(t)
    /\ Total(RecordSizes(t.records)) <= t.size
    /\ \A i \in DOMAIN t.records :
          /\ t.records[i].size >= 2
          /\ t.records[i].type = "end" => i = Len(t.records)
          /\ t.records[i].type = "engine" =>
                /\ t.records[i].count = Len(t.records[i].segments)
                /\ PlatDefRecordHeader + PlatDefI2CEngineFixed
                     + t.records[i].count * PlatDefI2CSegment
                       <= t.records[i].size * 16

\* The bus of segment s of the table in the flash, among channels.
BusOf(t, s, channels) ==
    {channels[<<SegmentAt(t, p).byte - cpldRegisterBase,
                SegmentAt(t, p).selectMask>>] :
        p \in {q \in Listed(t) :
                  /\ SegmentAt(t, q).id = s
                  /\ \A r \in Listed(t) :
                        SegmentAt(t, r).id = s => ~Before(q, r)
                  /\ <<SegmentAt(t, q).byte - cpldRegisterBase,
                       SegmentAt(t, q).selectMask>> \in DOMAIN channels}}

\* Once the daemon serves, it knows a segment of a whole table in a sound image
\* if the channel the table's last entry names for it was there when the map
\* was built, and as the bus of that channel; it knows no other.
MapFaithful ==
    step = "serve" /\ WholeTable(platDef) =>
        \A s \in DOMAIN segmentBusMap
               \cup {SegmentAt(platDef.records, p).id :
                       p \in Listed(platDef.records)} :
            LET bus == BusOf(platDef.records, s,
                             [c \in scanned |-> Channels[c]])
            IN  IF s \in DOMAIN segmentBusMap THEN bus = {segmentBusMap[s]}
                ELSE bus = {}

\* A table that was put whole into the first file of its name, within the limits
\* of the format, is unpacked.
TableUnpacked ==
    step # "scan" /\ step # "mtd" /\ pc = "done" /\ data # Empty
        /\ data.offset \in DOMAIN rom.blob =>
        LET b == rom.blob[data.offset]
        IN  b.zlib /\ b.intact /\ b.inflated = b.totalSize
                /\ 0 < b.totalSize /\ b.totalSize <= 512 * 1024
                /\ b.compressedSize = PlatDefTableData + b.stream
                /\ data.size >= PlatDefBundleHeader + b.compressedSize
            => platDef = [size    |-> PlatDefTableData + b.totalSize,
                          records |-> b.records]

\* The daemon comes to serve the host, whatever is in the flash, as long as no
\* header makes size_t wrap around.
Serves == NoWrap(rom) ~> step = "serve"
=============================================================================

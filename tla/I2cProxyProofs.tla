---------------------------- MODULE I2cProxyProofs ----------------------------
(***************************************************************************)
(* For every flash image, every wiring of the multiplexers and every        *)
(* request: a transfer is done on the bus the platform definition names, it *)
(* does what the answer says, and no answer holds a part of another.        *)
(*                                                                          *)
(* RightBus relates an ioctl to the flash.  Between them are the unpacked   *)
(* table (Unpacked), the segments of the walk, each of which is the last of *)
(* a record and so one of the table's (Traced), and the map, whose buses    *)
(* are those of the channels the kernel registered (Mapped).  Each of the   *)
(* three holds from the step of main() on that makes it.                    *)
(***************************************************************************)
EXTENDS I2cProxy, UefiFvProofs

Unpacked ==
    /\ rom \in Images
    /\ platDef.records \in Seq(PlatDefRecord)
    /\ step \in {"mtd", "scan"} => platDef.records = <<>>
    /\ platDef.records # <<>> =>
          data.offset \in DOMAIN rom.blob /\ platDef.records = Table

\* Segment s of a table, with mapping m.
From(t, s, m) ==
    \E i \in DOMAIN t :
        /\ t[i].type = "engine"
        /\ \E j \in CpldOf(t[i]) :
              /\ t[i].segments[j].id = s
              /\ t[i].segments[j].byte = m.cpldRegister
              /\ t[i].segments[j].selectMask = m.channelValue

Traced ==
    /\ next \in Nat \ {0}
    /\ \A s \in DOMAIN segments : From(platDef.records, s, segments[s])

Registered ==
    /\ DOMAIN topology \subseteq DOMAIN Channels
    /\ \A c \in DOMAIN topology : topology[c] = Channels[c]

Mapped ==
    /\ step # "serve" => DOMAIN segmentBusMap = {}
    /\ \A s \in DOMAIN segmentBusMap :
          /\ s \in DOMAIN segments
          /\ MuxChannel(segments[s]) \in DOMAIN Channels
          /\ segmentBusMap[s] = Channels[MuxChannel(segments[s])]

PlatInv == Unpacked /\ Traced /\ Registered /\ Mapped

\* No transfer before the daemon serves.
Idle == step # "serve" => transfer = NoTransfer

DeviceType == device \in [Buses \X Addresses -> Values]

ProxyInv == PlatInv /\ Idle /\ DeviceType /\ RightBus /\ NothingStale

-----------------------------------------------------------------------------
(* The greatest member of a set                                             *)

\* A bounded set of naturals that is not empty has a greatest member, since the
\* distances from the bound have a least.
LEMMA MaxIn ==
  ASSUME NEW n \in Nat, NEW S, S \subseteq 1..n, S # {}
  PROVE  Max(S) \in S /\ \A j \in S : j <= Max(S)
<1> DEFINE T == {n - i : i \in S}
<1>1. T \subseteq Nat /\ T # {}
  <2>1. \A i \in S : n - i \in Nat
    OBVIOUS
  <2>2. T \subseteq Nat
    BY <2>1
  <2>3. PICK i \in S : TRUE
    OBVIOUS
  <2>4. n - i \in T
    OBVIOUS
  <2> QED
    BY <2>2, <2>4
<1>2. PICK x \in T : \A y \in T : <<y, x>> \notin Below
  BY <1>1, BelowWellFounded, WFMin, Zenon
<1>3. PICK i \in S : x = n - i
  OBVIOUS
<1>4. \A j \in S : i >= j
  <2> TAKE j \in S
  <2>1. n - j \in Nat /\ n - i \in Nat /\ j \in Nat /\ i \in Nat
    OBVIOUS
  <2>2. ~(n - j < n - i)
    BY <1>2, <1>3, <2>1 DEF Below
  <2> QED
    BY <2>1, <2>2
<1>5. Max(S) \in S /\ \A j \in S : Max(S) >= j
  BY <1>4 DEF Max
<1>6. \A j \in S : j \in Nat
  OBVIOUS
<1> QED
  BY <1>5, <1>6

-----------------------------------------------------------------------------
(* The table                                                                *)

LEMMA BlobRecords ==
  ASSUME rom \in Images, data.offset \in DOMAIN rom.blob
  PROVE  Table \in Seq(PlatDefRecord)
  BY PlatDefAssumption DEF IsBlob, Table

\* What is unpacked is what the image has where the file was found.
LEMMA DecompressedIsTable ==
  ASSUME rom \in Images
  PROVE  /\ Decompressed(data).records \in Seq(PlatDefRecord)
         /\ Decompressed(data).records # <<>> =>
               /\ data.offset \in DOMAIN rom.blob
               /\ Decompressed(data).records = Table
<1> DEFINE b == rom.blob[data.offset]
           nothing == \/ data.size < PlatDefBundleHeader + PlatDefTableData
                      \/ data.offset \notin DOMAIN rom.blob
           fits == /\ b.compressedSize >= PlatDefTableData
                   /\ (PlatDefBundleHeader + b.compressedSize) % Wrap
                          <= data.size
                   /\ Inflates(b)
<1>1. NoPlatDef.records = <<>> /\ <<>> \in Seq(PlatDefRecord)
  BY DEF NoPlatDef
<1>2. CASE nothing
  BY <1>1, <1>2 DEF Decompressed
<1>3. CASE ~nothing
  <2>1. data.offset \in DOMAIN rom.blob /\ Table \in Seq(PlatDefRecord)
    BY <1>3, BlobRecords
  <2>2. b.zlib \in BOOLEAN /\ b.records = Table
    BY <2>1, PlatDefAssumption DEF IsBlob, Table
  <2>3. CASE ~b.zlib
    <3>1. Decompressed(data).records = b.records
      BY <1>3, <2>3 DEF Decompressed
    <3> QED
      BY <2>1, <2>2, <3>1
  <2>4. CASE b.zlib /\ fits
    <3>1. Decompressed(data).records = b.records
      BY <1>3, <2>4 DEF Decompressed
    <3> QED
      BY <2>1, <2>2, <3>1
  <2>5. CASE b.zlib /\ ~fits
    <3>1. Decompressed(data) = NoPlatDef
      BY <1>3, <2>5 DEF Decompressed
    <3> QED
      BY <1>1, <3>1
  <2> QED
    BY <2>2, <2>3, <2>4, <2>5
<1> QED
  BY <1>2, <1>3

\* A segment of the table as RightBus has it.
LEMMA FromListed ==
  ASSUME NEW t, NEW s, NEW m, From(t, s, m)
  PROVE  \E p \in Listed(t) :
            /\ SegmentAt(t, p).id = s
            /\ SegmentAt(t, p).byte = m.cpldRegister
            /\ SegmentAt(t, p).selectMask = m.channelValue
<1>1. PICK i \in DOMAIN t :
         /\ t[i].type = "engine"
         /\ \E j \in CpldOf(t[i]) :
               /\ t[i].segments[j].id = s
               /\ t[i].segments[j].byte = m.cpldRegister
               /\ t[i].segments[j].selectMask = m.channelValue
  BY DEF From
<1>2. PICK j \in CpldOf(t[i]) :
         /\ t[i].segments[j].id = s
         /\ t[i].segments[j].byte = m.cpldRegister
         /\ t[i].segments[j].selectMask = m.channelValue
  BY <1>1
<1>3. <<i, j>> \in Listed(t)
  BY <1>1, <1>2 DEF Listed
<1>4. SegmentAt(t, <<i, j>>) = t[i].segments[j]
  BY DEF SegmentAt
<1> QED
  BY <1>2, <1>3, <1>4

\* What a record adds to the segments is in the record.
LEMMA WithSegmentsFrom ==
  ASSUME NEW r \in PlatDefRecord, NEW s \in DOMAIN WithSegments(r)
  PROVE  \/ /\ s \in DOMAIN segments
            /\ WithSegments(r)[s] = segments[s]
         \/ \E j \in CpldOf(r) :
               /\ r.segments[j].id = s
               /\ WithSegments(r)[s] = Mapping(r, j)
<1> DEFINE ids == {r.segments[i].id : i \in {j \in Taken(r) : r.segments[j].cpld}}
           n == Len(r.segments)
<1>1. r.segments \in Seq(Segment)
  BY DEF PlatDefRecord
<1>2. n \in Nat /\ DOMAIN r.segments = 1..n
  BY <1>1
<1>3. s \in ids \cup DOMAIN segments
  BY DEF WithSegments
<1>4. WithSegments(r)[s] =
         IF Naming(r, s) # {} THEN Mapping(r, Max(Naming(r, s))) ELSE segments[s]
  BY <1>3 DEF WithSegments
<1>5. CASE Naming(r, s) # {}
  <2>1. Naming(r, s) \subseteq 1..n
    BY <1>2 DEF Naming, Taken
  <2>2. Max(Naming(r, s)) \in Naming(r, s)
    BY <1>2, <1>5, <2>1, MaxIn
  <2>3. Max(Naming(r, s)) \in CpldOf(r) /\ r.segments[Max(Naming(r, s))].id = s
    BY <2>2 DEF Naming, Taken, CpldOf
  <2> QED
    BY <1>4, <1>5, <2>3
<1>6. CASE Naming(r, s) = {}
  <2>1. s \notin ids
    BY <1>6 DEF Naming
  <2> QED
    BY <1>3, <1>4, <1>6, <2>1
<1> QED
  BY <1>5, <1>6

-----------------------------------------------------------------------------
(* The start-up keeps its invariant                                         *)

LEMMA PlatInitEstablishes == PlatInit => PlatInv
<1> SUFFICES ASSUME PlatInit PROVE PlatInv
  OBVIOUS
<1>1. rom \in Images /\ step = "mtd" /\ platDef.records = <<>> /\ next = 1
  BY DEF PlatInit, FvInit, NoPlatDef
<1>2. DOMAIN NoSegments = {}
  BY DEF NoSegments
<1>3. DOMAIN segments = {} /\ DOMAIN topology = {} /\ DOMAIN segmentBusMap = {}
  BY <1>2 DEF PlatInit
<1>4. <<>> \in Seq(PlatDefRecord)
  OBVIOUS
<1> QED
  BY <1>1, <1>3, <1>4 DEF PlatInv, Unpacked, Traced, Registered, Mapped

\* The search does not change the image.
LEMMA SameRom == FvStep \/ MediaError => rom' = rom
  BY DEF FvStep, MediaError, VolumesEnd, SkipBlock, SkipVolume, EnterVolume,
         FilesEnd, SkipFile, TakeFile, Return

\* Steps that leave the table, the segments and the map alone.
LEMMA StepAlone ==
  ASSUME PlatInv, rom' = rom, UNCHANGED <<walkVars, mapVars>>,
         step \in {"mtd", "scan"} \/ data' = data,
         step' \in {"mtd", "scan"} => step \in {"mtd", "scan"},
         step = "serve" => step' = "serve"
  PROVE  PlatInv'
<1>1. /\ UNCHANGED <<platDef, segments, next, topology, segmentBusMap>>
  BY DEF walkVars, mapVars
<1>2. Unpacked'
  <2>1. CASE platDef.records = <<>>
    BY <1>1, <2>1 DEF PlatInv, Unpacked
  <2>2. CASE platDef.records # <<>>
    BY <1>1, <2>2 DEF PlatInv, Unpacked, Table
  <2> QED
    BY <2>1, <2>2
<1>3. Traced' /\ Registered'
  BY <1>1 DEF PlatInv, Traced, Registered
<1>4. Mapped'
  BY <1>1 DEF PlatInv, Mapped
<1> QED
  BY <1>2, <1>3, <1>4 DEF PlatInv

LEMMA InflateKeeps == PlatInv /\ Inflate => PlatInv'
<1> SUFFICES ASSUME PlatInv, Inflate PROVE PlatInv'
  OBVIOUS
<1>1. /\ UNCHANGED <<rom, data, next, segments, topology, segmentBusMap>>
      /\ platDef' = Decompressed(data) /\ step = "scan"
  BY DEF Inflate, fvVars, mapVars
<1>2. step' \in {"serve", "map", "records"}
  BY DEF Inflate
<1>3. platDef.records = <<>> /\ rom \in Images
  BY <1>1 DEF PlatInv, Unpacked
<1>4. Unpacked'
  BY <1>1, <1>2, <1>3, DecompressedIsTable DEF Unpacked, Table
<1>5. DOMAIN segments = {}
  BY <1>3 DEF PlatInv, Traced, From
<1>6. Traced' /\ Registered'
  BY <1>1, <1>5 DEF PlatInv, Traced, Registered
<1>7. DOMAIN segmentBusMap = {}
  BY <1>1 DEF PlatInv, Mapped
<1>8. Mapped'
  BY <1>1, <1>7 DEF Mapped
<1> QED
  BY <1>4, <1>6, <1>8 DEF PlatInv

LEMMA NextRecordKeeps == PlatInv /\ NextRecord => PlatInv'
<1> SUFFICES ASSUME PlatInv, NextRecord PROVE PlatInv'
  OBVIOUS
<1>1. /\ UNCHANGED <<rom, data, step, platDef, topology, segmentBusMap>>
      /\ next' = next + 1 /\ step = "records"
      /\ next <= Len(platDef.records)
      /\ segments' = IF RecordAt.type = "engine" THEN WithSegments(RecordAt)
                     ELSE segments
  BY DEF NextRecord, AtRecord, fvVars, mapVars
<1>2. Unpacked' /\ Registered'
  BY <1>1 DEF PlatInv, Unpacked, Registered, Table
<1>3. Mapped'
  BY <1>1 DEF PlatInv, Mapped
<1>4. next \in DOMAIN platDef.records /\ RecordAt \in PlatDefRecord
  BY <1>1 DEF PlatInv, Unpacked, Traced, RecordAt
<1>5. ASSUME NEW s \in DOMAIN segments'
      PROVE  From(platDef.records, s, segments'[s])
  <2>1. CASE RecordAt.type # "engine"
    BY <1>1, <2>1 DEF PlatInv, Traced
  <2>2. CASE RecordAt.type = "engine"
    <3>1. segments' = WithSegments(RecordAt)
      BY <1>1, <2>2
    <3>2. CASE s \in DOMAIN segments /\ segments'[s] = segments[s]
      BY <3>2 DEF PlatInv, Traced
    <3>3. ASSUME NEW j \in CpldOf(RecordAt), RecordAt.segments[j].id = s,
                 segments'[s] = Mapping(RecordAt, j)
          PROVE  From(platDef.records, s, segments'[s])
      <4>1. /\ segments'[s].cpldRegister = RecordAt.segments[j].byte
            /\ segments'[s].channelValue = RecordAt.segments[j].selectMask
        BY <3>3 DEF Mapping
      <4> QED
        BY <1>4, <2>2, <3>3, <4>1 DEF From, RecordAt
    <3> QED
      BY <1>4, <3>1, <3>2, <3>3, WithSegmentsFrom
  <2> QED
    BY <2>1, <2>2
<1>6. Traced'
  BY <1>1, <1>5 DEF PlatInv, Traced
<1> QED
  BY <1>2, <1>3, <1>6 DEF PlatInv

LEMMA BuildMapKeeps == PlatInv /\ BuildMap => PlatInv'
<1> SUFFICES ASSUME PlatInv, BuildMap PROVE PlatInv'
  OBVIOUS
<1>1. UNCHANGED <<rom, data, platDef, next, segments, topology>>
      /\ step' = "serve" /\ step = "map"
  BY DEF BuildMap, fvVars, walkVars
<1>2. Unpacked' /\ Traced' /\ Registered'
  BY <1>1 DEF PlatInv, Unpacked, Traced, Registered, Table
<1>3. PICK seen \in SUBSET DOMAIN topology : segmentBusMap' = BusMap(seen)
  BY DEF BuildMap
<1>4. ASSUME NEW s \in DOMAIN segmentBusMap'
      PROVE  /\ s \in DOMAIN segments
             /\ MuxChannel(segments[s]) \in DOMAIN Channels
             /\ segmentBusMap'[s] = Channels[MuxChannel(segments[s])]
  <2>1. s \in DOMAIN segments /\ MuxChannel(segments[s]) \in seen
    BY <1>3 DEF BusMap
  <2>2. segmentBusMap'[s] = topology[MuxChannel(segments[s])]
    BY <1>3 DEF BusMap
  <2> QED
    BY <2>1, <2>2 DEF PlatInv, Registered
<1>5. Mapped'
  BY <1>1, <1>4 DEF Mapped
<1> QED
  BY <1>2, <1>5 DEF PlatInv

LEMMA RegisterKeeps == PlatInv /\ Register => PlatInv'
<1> SUFFICES ASSUME PlatInv, Register PROVE PlatInv'
  OBVIOUS
<1>1. UNCHANGED <<rom, data, step, platDef, next, segments, segmentBusMap>>
  BY DEF Register, fvVars, walkVars
<1>2. Unpacked' /\ Traced' /\ Mapped'
  BY <1>1 DEF PlatInv, Unpacked, Traced, Mapped, Table
<1>3. Registered'
  BY DEF Register, PlatInv, Registered
<1> QED
  BY <1>2, <1>3 DEF PlatInv

LEMMA PlatStepKeeps == PlatInv /\ [PlatNext]_platVars => PlatInv'
<1> SUFFICES ASSUME PlatInv, [PlatNext]_platVars PROVE PlatInv'
  OBVIOUS
<1>1. CASE NoRom \/ OpenRom
  BY <1>1, StepAlone DEF NoRom, OpenRom, fvVars
<1>2. CASE Scan \/ FlashError
  BY <1>2, StepAlone, SameRom DEF Scan, FlashError
<1>3. CASE LastRecord
  BY <1>3, StepAlone DEF LastRecord, fvVars
<1>4. CASE UNCHANGED platVars
  BY <1>4, StepAlone DEF platVars, fvVars
<1> QED
  BY <1>1, <1>2, <1>3, <1>4, InflateKeeps, NextRecordKeeps, BuildMapKeeps,
     RegisterKeeps DEF PlatNext, Startup

-----------------------------------------------------------------------------
(* The steps of the proxy                                                   *)

LEMMA ErrorCodes ==
  /\ i2cGeneralError # 0 /\ i2cBusTimeout # 0
  /\ i2cAddressNack # 0 /\ i2cSegmentNotFound # 0
  /\ i2cSegmentNotFound \notin {i2cGeneralError, i2cBusTimeout, i2cAddressNack}
  BY DEF i2cGeneralError, i2cBusTimeout, i2cAddressNack, i2cSegmentNotFound

LEMMA RequestFields ==
  ASSUME NEW r \in I2cRequests
  PROVE  r.command = "i2c" /\ r.address \in Nat /\ r.value \in Values
<1>1. r \in I2cRequest
  BY ProxyAssumption
<1>2. r.command \in {"i2c"} /\ r.address \in 0..(2^16 - 1) /\ r.value \in Values
  BY <1>1 DEF I2cRequest
<1> QED
  BY <1>2

\* The bus of a segment is one of the channels of the table's entry for it.
LEMMA BusTraced ==
  ASSUME PlatInv, NEW s \in DOMAIN segmentBusMap
  PROVE  /\ segmentBusMap[s] \in Buses
         /\ data.offset \in DOMAIN rom.blob
         /\ \E p \in Listed(Table) :
               /\ SegmentAt(Table, p).id = s
               /\ \E c \in DOMAIN Channels :
                     /\ segmentBusMap[s] = Channels[c]
                     /\ c[1] + cpldRegisterBase = SegmentAt(Table, p).byte
                     /\ c[2] = SegmentAt(Table, p).selectMask
<1> DEFINE m == segments[s]
           c == MuxChannel(m)
<1>1. /\ s \in DOMAIN segments /\ c \in DOMAIN Channels
      /\ segmentBusMap[s] = Channels[c]
  BY DEF PlatInv, Mapped
<1>2. segmentBusMap[s] \in Buses
  BY <1>1 DEF Buses
<1>3. From(platDef.records, s, m)
  BY <1>1 DEF PlatInv, Traced
<1>4. platDef.records # <<>>
  BY <1>3 DEF From
<1>5. /\ data.offset \in DOMAIN rom.blob
      /\ platDef.records = Table
  BY <1>4 DEF PlatInv, Unpacked
<1>6. PICK p \in Listed(Table) :
         /\ SegmentAt(Table, p).id = s
         /\ SegmentAt(Table, p).byte = m.cpldRegister
         /\ SegmentAt(Table, p).selectMask = m.channelValue
  BY <1>3, <1>5, FromListed
<1>7. SegmentAt(Table, p).byte \in Int
  <2>1. PICK i \in DOMAIN Table : \E j \in CpldOf(Table[i]) : p = <<i, j>>
    BY DEF Listed
  <2>2. PICK j \in CpldOf(Table[i]) : p = <<i, j>>
    BY <2>1
  <2>3. Table \in Seq(PlatDefRecord)
    BY <1>5 DEF PlatInv, Unpacked
  <2>4. Table[i] \in PlatDefRecord
    BY <2>3
  <2>5. Table[i].segments \in Seq(Segment) /\ j \in DOMAIN Table[i].segments
    BY <2>2, <2>4 DEF PlatDefRecord, CpldOf
  <2>6. Table[i].segments[j] \in Segment
    BY <2>5
  <2>7. Table[i].segments[j].byte \in 0..255
    BY <2>6 DEF Segment
  <2> QED
    BY <2>2, <2>7 DEF SegmentAt
<1>8. /\ c[1] + cpldRegisterBase = SegmentAt(Table, p).byte
      /\ c[2] = SegmentAt(Table, p).selectMask
  BY <1>6, <1>7 DEF MuxChannel, cpldRegisterBase
<1> QED
  BY <1>1, <1>2, <1>5, <1>6, <1>8

\* Where a request that comes to a bus is done.
LEMMA PlaceOf ==
  ASSUME PlatInv, NEW r \in I2cRequests, Possible(r)
  PROVE  At(r) \in Buses \X Addresses /\ Bus(r) \in Buses
<1>1. Bus(r) \in Buses
  BY BusTraced DEF Possible, Bus
<1>2. DeviceAddress(r.address) \in Addresses
  BY DEF Addresses
<1> QED
  BY <1>1, <1>2 DEF At

LEMMA WrittenType ==
  ASSUME PlatInv, DeviceType, NEW r \in I2cRequests, Possible(r)
  PROVE  Written(r) \in [Buses \X Addresses -> Values]
<1>1. r.value \in Values
  BY RequestFields
<1> QED
  BY <1>1, PlaceOf DEF Written, DeviceType

\* An answer that shows only what it echoes.
LEMMA EchoOnly ==
  ASSUME NEW r \in I2cRequests
  PROVE  /\ Echo(r).data = None /\ Echo(r).address = r.address
         /\ Echo(r).segment = r.segment
         /\ NoFields.data = None /\ NoFields.address = 0
         /\ NoFields.segment = 0
         /\ r.command = "i2c"
  BY RequestFields DEF Echo, NoFields

\* A transfer that was done, as RightBus has it.
LEMMA TransferRight ==
  ASSUME PlatInv, NEW r \in I2cRequests, Possible(r),
         request' = r, transfer' = Transferred(r), UNCHANGED platVars
  PROVE  RightBus'
<1>1. UNCHANGED <<rom, data, segmentBusMap>>
  BY DEF platVars, fvVars, mapVars
<1>2. Table' = Table
  BY <1>1 DEF Table
<1>3. r.segment \in DOMAIN segmentBusMap
  BY DEF Possible
<1>4. /\ transfer'.bus = segmentBusMap[r.segment]
      /\ transfer'.address = DeviceAddress(r.address)
      /\ transfer'.writeLen = r.writeLen /\ transfer'.readLen = r.readLen
  BY DEF Transferred, Bus
<1>5. r.address \in Nat
  BY RequestFields
<1>6. r.address < 512 => DeviceAddress(r.address) = r.address \div 2
  BY <1>5 DEF DeviceAddress
<1>7. /\ data.offset \in DOMAIN rom.blob
      /\ \E p \in Listed(Table) :
            /\ SegmentAt(Table, p).id = r.segment
            /\ \E c \in DOMAIN Channels :
                  /\ transfer'.bus = Channels[c]
                  /\ c[1] + cpldRegisterBase = SegmentAt(Table, p).byte
                  /\ c[2] = SegmentAt(Table, p).selectMask
  BY <1>3, <1>4, BusTraced
<1> QED
  BY <1>1, <1>2, <1>4, <1>6, <1>7 DEF RightBus

LEMMA HandleOtherKeeps ==
  ASSUME ProxyInv, NEW r \in OtherRequest, HandleOther(r)
  PROVE  Idle' /\ DeviceType' /\ RightBus' /\ NothingStale'
<1>1. transfer' = NoTransfer /\ device' = device
  BY DEF HandleOther
<1>2. SeenFields' = NoFields
  <2>1. r.command \in {"evState", "evAuthStatus", "platDef", "other"}
    BY DEF OtherRequest
  <2>2. CASE r.command = "evState"
    BY <2>2 DEF HandleOther, Answer, SeenFields, evStateRespSize
  <2>3. CASE r.command = "evAuthStatus"
    BY <2>3 DEF HandleOther, Answer, SeenFields
  <2>4. CASE r.command = "platDef"
    BY <2>4 DEF HandleOther, Answer, SeenFields
  <2>5. CASE r.command = "other"
    BY <2>5 DEF HandleOther, SimpleResponse, Answer, SeenFields,
                simpleRespSize, evStateRespSize
  <2> QED
    BY <2>1, <2>2, <2>3, <2>4, <2>5
<1>3. NothingStale'
  BY <1>2 DEF NothingStale, NoFields
<1>4. Idle' /\ DeviceType' /\ RightBus'
  BY <1>1 DEF ProxyInv, Idle, DeviceType, RightBus
<1> QED
  BY <1>3, <1>4

\* An answer without data, to a request that came to no bus or failed there.
LEMMA NoDataKeeps ==
  ASSUME ProxyInv, NEW r \in I2cRequests, request' = r,
         transfer' = NoTransfer, device' \in [Buses \X Addresses -> Values],
         response'.fields \in {NoFields, Echo(r)}
  PROVE  Idle' /\ DeviceType' /\ RightBus' /\ NothingStale'
<1>1. SeenFields' \in {NoFields, Echo(r)}
  BY DEF SeenFields
<1>2. NothingStale'
  <2>1. /\ SeenFields'.data = None
        /\ SeenFields'.address \in {0, r.address}
        /\ SeenFields'.segment \in {0, r.segment}
    BY <1>1, EchoOnly
  <2> QED
    BY <2>1, EchoOnly DEF NothingStale
<1> QED
  BY <1>2 DEF Idle, DeviceType, RightBus

LEMMA HandleI2cKeeps ==
  ASSUME ProxyInv, NEW r \in I2cRequests, HandleI2cProxy(r)
  PROVE  Idle' /\ DeviceType' /\ RightBus' /\ NothingStale'
<1>1. /\ request' = r /\ UNCHANGED platVars /\ step = "serve"
      /\ PlatInv /\ DeviceType
  BY DEF HandleI2cProxy, ProxyInv
<1>2. CASE Refused(r) /\ UNCHANGED device /\ transfer' = NoTransfer
  <2>1. response'.fields \in {NoFields, Echo(r)}
    BY <1>2 DEF Refused, Answer
  <2> QED
    BY <1>1, <1>2, <2>1, NoDataKeeps DEF DeviceType
<1>3. CASE /\ Possible(r) /\ OpenFails(r)
           /\ UNCHANGED device /\ transfer' = NoTransfer
  <2>1. response'.fields \in {NoFields, Echo(r)}
    BY <1>3 DEF OpenFails, Answer
  <2> QED
    BY <1>1, <1>3, <2>1, NoDataKeeps DEF DeviceType
<1>4. CASE I2cTransferFails(r)
  <2>1. response'.fields \in {NoFields, Echo(r)} /\ transfer' = NoTransfer
    BY <1>4 DEF I2cTransferFails, Answer
  <2>2. device' \in [Buses \X Addresses -> Values]
    BY <1>1, <1>4, WrittenType DEF I2cTransferFails, DeviceType
  <2> QED
    BY <1>1, <2>1, <2>2, NoDataKeeps
<1>5. CASE I2cTransfer(r)
  <2>1. Possible(r) /\ device' = Written(r) /\ transfer' = Transferred(r)
    BY <1>5 DEF I2cTransfer
  <2>2. DeviceType'
    BY <1>1, <2>1, WrittenType DEF DeviceType
  <2>3. Idle'
    BY <1>1 DEF platVars, Idle
  <2>4. RightBus'
    BY <1>1, <2>1, TransferRight
  <2>5. response'.fields =
           [Echo(r) EXCEPT
               !.readLen = r.readLen,
               !.data = IF r.readLen > 0 THEN device'[At(r)] ELSE None]
    BY <1>5 DEF I2cTransfer, Answer
  <2>6. /\ response'.fields.data # None => r.readLen > 0
        /\ response'.fields.address = r.address
        /\ response'.fields.segment = r.segment
    BY <2>5 DEF Echo, NoFields
  <2>7. transfer' # NoTransfer /\ transfer'.readLen = r.readLen
    BY <2>1 DEF Transferred, NoTransfer
  <2>8. NothingStale'
    <3>1. SeenFields' \in {NoFields, response'.fields}
      BY DEF SeenFields
    <3>2. /\ SeenFields'.data # None => r.readLen > 0
          /\ SeenFields'.address \in {0, r.address}
          /\ SeenFields'.segment \in {0, r.segment}
      BY <2>6, <3>1, EchoOnly
    <3> QED
      BY <1>1, <2>7, <3>2, EchoOnly DEF NothingStale
  <2> QED
    BY <2>2, <2>3, <2>4, <2>8
<1> QED
  BY <1>2, <1>3, <1>4, <1>5 DEF HandleI2cProxy

\* Steps of the start-up and the kernel, and of other masters.
LEMMA OthersKeep ==
  ASSUME ProxyInv, [StartupStep \/ Environment \/ OtherMaster]_allVars
  PROVE  Idle' /\ DeviceType' /\ RightBus' /\ NothingStale'
<1>1. UNCHANGED <<request, transfer, response>>
  BY DEF StartupStep, Environment, OtherMaster, allVars, proxyVars
<1>2. NothingStale'
  BY <1>1 DEF ProxyInv, NothingStale, SeenFields
<1>3. DeviceType'
  BY DEF ProxyInv, DeviceType, StartupStep, Environment, OtherMaster, allVars,
         proxyVars
<1>4. step = "serve" => UNCHANGED <<step, rom, data>>
  BY DEF StartupStep, Environment, OtherMaster, allVars, platVars, fvVars,
         Startup, NoRom, OpenRom, Scan, Inflate, NextRecord, LastRecord,
         BuildMap, FlashError, Register
<1>5. Idle'
  BY <1>1, <1>4 DEF ProxyInv, Idle
<1>6. RightBus'
  <2>1. CASE step # "serve"
    BY <1>1, <2>1 DEF ProxyInv, Idle, RightBus
  <2>2. CASE step = "serve"
    BY <1>1, <1>4, <2>2 DEF ProxyInv, RightBus, Table
  <2> QED
    BY <2>1, <2>2
<1> QED
  BY <1>2, <1>3, <1>5, <1>6

LEMMA ProxyInitEstablishes == ProxyInit => ProxyInv
<1> SUFFICES ASSUME ProxyInit PROVE ProxyInv
  OBVIOUS
<1>1. PlatInv
  BY PlatInitEstablishes DEF ProxyInit
<1>2. transfer = NoTransfer /\ response.size = 0 /\ DeviceType
  BY DEF ProxyInit, DeviceType
<1>3. SeenFields = NoFields
  BY <1>2 DEF SeenFields, evStateRespSize
<1>4. NothingStale
  BY <1>3 DEF NothingStale, NoFields
<1> QED
  BY <1>1, <1>2, <1>4 DEF ProxyInv, Idle, RightBus

LEMMA ProxyStepKeeps == ProxyInv /\ [ProxyNext]_allVars => ProxyInv'
<1> SUFFICES ASSUME ProxyInv, [ProxyNext]_allVars PROVE ProxyInv'
  OBVIOUS
<1>1. [PlatNext]_platVars
  BY DEF ProxyNext, StartupStep, Environment, OtherMaster, HandleI2cProxy,
         HandleOther, PlatNext, allVars
<1>2. PlatInv'
  BY <1>1, PlatStepKeeps DEF ProxyInv
<1>3. Idle' /\ DeviceType' /\ RightBus' /\ NothingStale'
  BY HandleI2cKeeps, HandleOtherKeeps, OthersKeep DEF ProxyNext
<1> QED
  BY <1>2, <1>3 DEF ProxyInv

LEMMA ProxyInvariance == ProxySpec => []ProxyInv
  BY ProxyInitEstablishes, ProxyStepKeeps, PTL DEF ProxySpec

\* For any flash image and any wiring, a transfer is done only on the bus that
\* the platform definition in the flash names for the segment, at the address
\* and with the lengths that were asked for (from extractPlatDef to
\* handleI2cProxy's ioctl).
THEOREM TransfersOnTheRightBus == ProxySpec => []RightBus
  BY ProxyInvariance, PTL DEF ProxyInv

\* For any requests in any order, no answer in the shared response buffer shows
\* what an earlier one left there (handleI2cProxy and the fixed commands).
THEOREM NeverStale == ProxySpec => []NothingStale
  BY ProxyInvariance, PTL DEF ProxyInv

\* What is answered with success was done, and what was told to have no segment
\* was not (handleI2cProxy).
THEOREM AnswersTrue == ProxySpec => TransfersAsAnswered
<1>1. ASSUME ProxyInv, NEW r \in I2cRequests, HandleI2cProxy(r)
      PROVE  /\ response'.error = 0 /\ ~NothingToDo(r) =>
                   /\ r.writeLen > 0 => device'[At(r)] = r.value
                   /\ r.readLen > 0 => response'.fields.data = device'[At(r)]
                   /\ \A d \in DOMAIN device \ {At(r)} : device'[d] = device[d]
             /\ response'.error = i2cSegmentNotFound => device' = device
  <2>1. CASE Refused(r) /\ UNCHANGED device /\ transfer' = NoTransfer
    BY <2>1, ErrorCodes DEF Refused, Answer
  <2>2. CASE /\ Possible(r) /\ OpenFails(r)
             /\ UNCHANGED device /\ transfer' = NoTransfer
    BY <2>2, ErrorCodes DEF OpenFails, Answer
  <2>3. CASE I2cTransferFails(r)
    BY <2>3, ErrorCodes DEF I2cTransferFails, Answer
  <2>4. CASE I2cTransfer(r)
    <3>1. At(r) \in DOMAIN device
      BY <1>1, <2>4, PlaceOf DEF ProxyInv, DeviceType, I2cTransfer
    <3>2. response'.error = 0 /\ device' = Written(r)
      BY <2>4 DEF I2cTransfer, Answer
    <3>3. r.readLen > 0 => response'.fields.data = device'[At(r)]
      BY <2>4 DEF I2cTransfer, Answer, Echo, NoFields
    <3>4. r.writeLen > 0 => device'[At(r)] = r.value
      BY <1>1, <3>1, <3>2 DEF Written, ProxyInv, DeviceType
    <3>5. \A d \in DOMAIN device \ {At(r)} : device'[d] = device[d]
      BY <1>1, <3>2 DEF Written, ProxyInv, DeviceType
    <3> QED
      BY <3>2, <3>3, <3>4, <3>5, ErrorCodes
  <2> QED
    BY <1>1, <2>1, <2>2, <2>3, <2>4 DEF HandleI2cProxy
<1>2. ProxyInv /\ [ProxyNext]_allVars =>
         [\A r \in I2cRequests :
             /\ HandleI2cProxy(r) /\ response'.error = 0 /\ ~NothingToDo(r) =>
                   /\ r.writeLen > 0 => device'[At(r)] = r.value
                   /\ r.readLen > 0 => response'.fields.data = device'[At(r)]
                   /\ \A d \in DOMAIN device \ {At(r)} : device'[d] = device[d]
             /\ HandleI2cProxy(r) /\ response'.error = i2cSegmentNotFound =>
                   device' = device]_allVars
  BY <1>1
<1> QED
  BY <1>2, ProxyInvariance, PTL DEF ProxySpec, TransfersAsAnswered

-----------------------------------------------------------------------------
(* The types                                                                *)

\* The types beside those of the search, of the segments and of the device.
Rest ==
    /\ step \in {"mtd", "scan", "records", "map", "serve"}
    /\ pos \in Nat
    /\ response.size \in {0, simpleRespSize, evStateRespSize, i2cRespSize,
                          evAuthRespSize, platDefRespSize}
    /\ response.error \in {0, platDefNoMoreRecords, i2cGeneralError,
                           i2cBusTimeout, i2cSegmentNotFound, i2cAddressNack}

LEMMA RestInit == ProxyInit => Rest
  BY DEF ProxyInit, PlatInit, Rest

LEMMA RestKept ==
  ASSUME ProxyInv, Rest, [ProxyNext]_allVars
  PROVE  Rest'
<1>1. CASE StartupStep
  <2>1. UNCHANGED response
    BY <1>1 DEF StartupStep, proxyVars
  <2>2. CASE NoRom \/ OpenRom \/ Scan \/ LastRecord \/ BuildMap
    BY <2>1, <2>2 DEF NoRom, OpenRom, Scan, LastRecord, BuildMap, walkVars, Rest
  <2>3. CASE Inflate
    BY <2>1, <2>3 DEF Inflate, Rest
  <2>4. CASE NextRecord
    <3>1. RecordAt \in PlatDefRecord
      BY <2>4 DEF NextRecord, AtRecord, ProxyInv, PlatInv, Unpacked, Traced,
                  RecordAt
    <3>2. RecordAt.size \in 0..255
      BY <3>1 DEF PlatDefRecord
    <3>3. pos' \in Nat
      BY <2>4, <3>2 DEF NextRecord, RecordBytes, Rest
    <3> QED
      BY <2>1, <2>4, <3>3 DEF NextRecord, Rest
  <2> QED
    BY <1>1, <2>2, <2>3, <2>4 DEF StartupStep, Startup
<1>2. CASE Environment \/ OtherMaster \/ UNCHANGED allVars
  BY <1>2 DEF Environment, OtherMaster, FlashError, Register, allVars, platVars,
              proxyVars, walkVars, Rest
<1>3. ASSUME NEW r \in I2cRequests, HandleI2cProxy(r)
      PROVE  Rest'
  <2>1. UNCHANGED <<step, pos>>
    BY <1>3 DEF HandleI2cProxy, platVars, walkVars
  <2>2. /\ response'.size = i2cRespSize
        /\ response'.error \in {0, i2cGeneralError, i2cBusTimeout,
                                i2cSegmentNotFound, i2cAddressNack}
    BY <1>3 DEF HandleI2cProxy, Refused, OpenFails, I2cTransfer,
                I2cTransferFails, Answer
  <2> QED
    BY <2>1, <2>2 DEF Rest
<1>4. ASSUME NEW r \in OtherRequest, HandleOther(r)
      PROVE  Rest'
  <2>1. UNCHANGED <<step, pos>>
    BY <1>4 DEF HandleOther, platVars, walkVars
  <2>2. r.command \in {"evState", "evAuthStatus", "platDef", "other"}
    BY DEF OtherRequest
  <2>3. /\ response'.size \in {simpleRespSize, evStateRespSize,
                               evAuthRespSize, platDefRespSize}
        /\ response'.error \in {0, platDefNoMoreRecords}
    <3>1. CASE r.command = "evState"
      BY <1>4, <3>1 DEF HandleOther, Answer
    <3>2. CASE r.command = "evAuthStatus"
      BY <1>4, <3>2 DEF HandleOther, Answer
    <3>3. CASE r.command = "platDef"
      BY <1>4, <3>3 DEF HandleOther, Answer
    <3>4. CASE r.command = "other"
      BY <1>4, <3>4 DEF HandleOther, SimpleResponse, Answer
    <3> QED
      BY <2>2, <3>1, <3>2, <3>3, <3>4
  <2> QED
    BY <2>1, <2>3 DEF Rest
<1> QED
  BY <1>1, <1>2, <1>3, <1>4 DEF ProxyNext

\* What the walk finds has the types of the table's fields.
LEMMA SegmentTypes ==
  ASSUME PlatInv, NEW s \in DOMAIN segments
  PROVE  /\ s \in 0..255 /\ segments[s].cpldRegister \in 0..255
         /\ segments[s].channelValue \in 0..255
<1> DEFINE t == platDef.records
<1>1. From(t, s, segments[s]) /\ t \in Seq(PlatDefRecord)
  BY DEF PlatInv, Traced, Unpacked
<1>2. PICK i \in DOMAIN t : \E j \in CpldOf(t[i]) :
         /\ t[i].segments[j].id = s
         /\ t[i].segments[j].byte = segments[s].cpldRegister
         /\ t[i].segments[j].selectMask = segments[s].channelValue
  BY <1>1 DEF From
<1>6. PICK j \in CpldOf(t[i]) :
         /\ t[i].segments[j].id = s
         /\ t[i].segments[j].byte = segments[s].cpldRegister
         /\ t[i].segments[j].selectMask = segments[s].channelValue
  BY <1>2
<1>3. t[i] \in PlatDefRecord
  BY <1>1
<1>4. t[i].segments[j] \in Segment
  BY <1>3 DEF PlatDefRecord, CpldOf
<1>5. /\ t[i].segments[j].id \in 0..255
      /\ t[i].segments[j].byte \in 0..255
      /\ t[i].segments[j].selectMask \in 0..255
  BY <1>4 DEF Segment
<1> QED
  BY <1>5, <1>6

\* The search is a part of the start-up.
LEMMA SearchInside == [ProxyNext]_allVars => [FvNext]_fvVars
  BY DEF ProxyNext, StartupStep, Environment, OtherMaster, HandleI2cProxy,
         HandleOther, Startup, NoRom, OpenRom, Scan, Inflate, NextRecord,
         LastRecord, BuildMap, FlashError, Register, FvNext, allVars, platVars

\* What is proved of the search by itself holds of the one the daemon makes
\* while it starts: to the search the rest of the daemon is stuttering
\* (extractPlatDef calls extractFfsFile).
THEOREM DaemonSearches == ProxySpec => FvSpec /\ MovesOn /\ []FindsFile
<1>1. ProxyInit => FvInit
  BY DEF ProxyInit, PlatInit
<1> QED
  BY <1>1, SearchInside, SearchMovesOn, FindsTheFile, PTL DEF ProxySpec, FvSpec

\* The type invariant of the daemon from its start to its answers, whatever is
\* in the flash and on the buses.
THEOREM ProxyTypeCorrect == ProxySpec => []ProxyTypeOK
<1> DEFINE Inv == ProxyInv /\ IInv /\ Rest
<1>1. ProxyInit => Inv
  BY ProxyInitEstablishes, InitEstablishes, RestInit DEF ProxyInit, PlatInit
<1>2. Inv /\ [ProxyNext]_allVars => Inv'
  BY ProxyStepKeeps, StepKeeps, RestKept, SearchInside
<1>3. Inv => ProxyTypeOK
  <2> SUFFICES ASSUME Inv PROVE ProxyTypeOK
    OBVIOUS
  <2>1. FvTypeOK
    BY DEF IInv
  <2>2. PlatTypeOK
    BY <2>1, SegmentTypes
    DEF PlatTypeOK, ProxyInv, PlatInv, Traced, Registered, Rest
  <2> QED
    BY <2>2 DEF ProxyTypeOK, ProxyInv, DeviceType, Rest
<1> QED
  BY <1>1, <1>2, <1>3, PTL DEF ProxySpec

-----------------------------------------------------------------------------
(* A table within the limits of the format is unpacked                      *)

\* The search has not begun before the flash is opened, and once it has ended
\* the table is what it found.
Inflated ==
    /\ step \in {"mtd", "scan", "records", "map", "serve"}
    /\ step = "mtd" => pc = "volumes"
    /\ step \notin {"mtd", "scan"} /\ pc = "done" =>
          platDef = Decompressed(data)

LEMMA InflatedKept ==
  ASSUME Inflated, [PlatNext]_platVars
  PROVE  Inflated'
<1>1. CASE NoRom \/ OpenRom \/ Register \/ LastRecord \/ BuildMap
           \/ NextRecord \/ UNCHANGED platVars
  <2>1. UNCHANGED <<rom, data, pc, platDef>>
    BY <1>1 DEF NoRom, OpenRom, Register, LastRecord, BuildMap, NextRecord,
                platVars, fvVars, walkVars
  <2>2. Decompressed(data)' = Decompressed(data)
    BY <2>1 DEF Decompressed, Inflates, Capacity
  <2>3. /\ step' \in {"mtd", "scan", "records", "map", "serve"}
        /\ step' = "mtd" => step = "mtd"
        /\ step' \notin {"mtd", "scan"} =>
              step = "mtd" \/ step \notin {"mtd", "scan"}
    BY <1>1 DEF NoRom, OpenRom, Register, LastRecord, BuildMap, NextRecord,
                platVars, Inflated
  <2> QED
    BY <2>1, <2>2, <2>3 DEF Inflated
<1>2. CASE Scan \/ FlashError
  BY <1>2 DEF Scan, FlashError, Inflated
<1>3. CASE Inflate
  <2>1. UNCHANGED <<rom, data, pc>> /\ platDef' = Decompressed(data)
    BY <1>3 DEF Inflate, fvVars
  <2>2. Decompressed(data)' = Decompressed(data)
    BY <2>1 DEF Decompressed, Inflates, Capacity
  <2>3. step' \in {"records", "map", "serve"}
    BY <1>3 DEF Inflate
  <2> QED
    BY <2>1, <2>2, <2>3 DEF Inflated
<1> QED
  BY <1>1, <1>2, <1>3 DEF PlatNext, Startup

\* A number is not smaller than what is left of it.
LEMMA ModBelow ==
  ASSUME NEW x \in Nat
  PROVE  x % Wrap <= x
<1>1. x % Wrap \in 0..(Wrap - 1) /\ Wrap \in Nat
  BY ModRange, UefiFvAssumption
<1>2. CASE x < Wrap
  BY <1>1, <1>2, ModSmall
<1>3. CASE ~(x < Wrap)
  BY <1>1, <1>3
<1> QED
  BY <1>2, <1>3

LEMMA WithinLimits ==
  ASSUME rom \in Images, data.size \in Nat, data.offset \in DOMAIN rom.blob,
         NEW b, b = rom.blob[data.offset],
         b.zlib, b.intact, b.inflated = b.totalSize,
         0 < b.totalSize, b.totalSize <= 512 * 1024,
         b.compressedSize = PlatDefTableData + b.stream,
         data.size >= PlatDefBundleHeader + b.compressedSize
  PROVE  Decompressed(data) = [size    |-> PlatDefTableData + b.totalSize,
                               records |-> b.records]
<1>1. IsBlob(b)
  BY PlatDefAssumption
<1>2. b.stream \in Nat /\ b.totalSize \in Nat
  <2>1. b.stream \in 0..(Wrap - 1) /\ b.totalSize \in 0..(Wrap - 1)
    BY <1>1 DEF IsBlob
  <2> QED
    BY <2>1, UefiFvAssumption
<1>3. b.compressedSize \in Nat /\ b.compressedSize >= PlatDefTableData
      /\ b.compressedSize - PlatDefTableData = b.stream
  BY <1>2 DEF PlatDefTableData
<1>4. Inflates(b)
  <2>1. Capacity(b) = b.totalSize
    BY <1>2 DEF Capacity
  <2> QED
    BY <1>2, <1>3, <2>1 DEF Inflates
<1>5. ~(data.size < PlatDefBundleHeader + PlatDefTableData)
  BY <1>3 DEF PlatDefBundleHeader, PlatDefTableData
<1>6. (PlatDefBundleHeader + b.compressedSize) % Wrap <= data.size
  <2> DEFINE x == PlatDefBundleHeader + b.compressedSize
  <2>1. x \in Nat
    BY <1>3 DEF PlatDefBundleHeader
  <2>2. x % Wrap <= x
    BY <2>1, ModBelow
  <2>3. x % Wrap \in 0..(Wrap - 1)
    BY <2>1, ModRange
  <2> HIDE DEF x
  <2>4. x <= data.size
    BY DEF x
  <2>5. x % Wrap <= data.size
    BY <2>1, <2>2, <2>3, <2>4, UefiFvAssumption
  <2> QED
    BY <2>5 DEF x
<1>7. Decompressed(data) = [size    |-> PlatDefTableData + b.inflated,
                            records |-> b.records]
  BY <1>3, <1>4, <1>5, <1>6 DEF Decompressed
<1> QED
  BY <1>7

\* Any table that was put whole into the file found, within the limits of the
\* format, is unpacked as it was put there (decompressPlatDef).
THEOREM WholeTablesUnpacked == ProxySpec => []TableUnpacked
<1> DEFINE Inv == IInv /\ Inflated
<1>1. ProxyInit => Inv
  BY InitEstablishes DEF ProxyInit, PlatInit, FvInit, Inflated
<1>2. [ProxyNext]_allVars => [PlatNext]_platVars
  BY DEF ProxyNext, StartupStep, Environment, OtherMaster, HandleI2cProxy,
         HandleOther, PlatNext, allVars
<1>3. Inv /\ [ProxyNext]_allVars => Inv'
  BY <1>2, StepKeeps, SearchInside, InflatedKept
<1>4. Inv => TableUnpacked
  <2> SUFFICES ASSUME Inv, step # "scan", step # "mtd", pc = "done",
                      data.offset \in DOMAIN rom.blob,
                      NEW b, b = rom.blob[data.offset],
                      b.zlib, b.intact, b.inflated = b.totalSize,
                      0 < b.totalSize, b.totalSize <= 512 * 1024,
                      b.compressedSize = PlatDefTableData + b.stream,
                      data.size >= PlatDefBundleHeader + b.compressedSize
               PROVE  platDef = [size    |-> PlatDefTableData + b.totalSize,
                                 records |-> b.records]
    BY DEF TableUnpacked
  <2>1. platDef = Decompressed(data)
    BY DEF Inflated
  <2>2. rom \in Images /\ data.size \in Nat
    BY DEF IInv, FvTypeOK
  <2> QED
    BY <2>1, <2>2, WithinLimits
<1> QED
  BY <1>1, <1>3, <1>4, PTL DEF ProxySpec

-----------------------------------------------------------------------------
(* The map is the table's                                                    *)

\* The entry at p is the last for segment s among those of the first records of
\* a table, up to the one before n.
LastFor(t, n, s, p) ==
    /\ p[1] < n /\ SegmentAt(t, p).id = s
    /\ \A r \in Listed(t) :
          r[1] < n /\ SegmentAt(t, r).id = s => ~Before(p, r)

\* The walk over a whole table: it is behind the records it has taken, knows the
\* segments they list, and those only, by the last entry for each; once it has
\* ended nothing that is listed is left.
Walked ==
    LET t == platDef.records IN
    step \in {"records", "map", "serve"} /\ WholeTable(platDef) =>
        /\ next - 1 \in 0..Len(t)
        /\ pos = Partial(RecordSizes(t))[next - 1]
        /\ \A s \in DOMAIN segments :
              \E p \in Listed(t) :
                     /\ LastFor(t, next, s, p)
                     /\ segments[s].cpldRegister = SegmentAt(t, p).byte
                     /\ segments[s].channelValue = SegmentAt(t, p).selectMask
        /\ \A p \in Listed(t) :
              p[1] < next => SegmentAt(t, p).id \in DOMAIN segments
        /\ step # "records" => \A p \in Listed(t) : p[1] < next

\* The map that was built from the walk, and before it the walk not begun.
Built ==
    /\ step \in {"mtd", "scan"} =>
          pos = 0 /\ next = 1 /\ DOMAIN segments = {}
    /\ step = "mtd" => platDef = NoPlatDef
    /\ platDef.size \in Int
    /\ step = "serve" /\ WholeTable(platDef) =>
          /\ scanned \subseteq DOMAIN Channels
          /\ DOMAIN segmentBusMap =
                {s \in DOMAIN segments :
                    /\ segments[s].cpldRegister >= cpldRegisterBase
                    /\ MuxChannel(segments[s]) \in scanned}

MapInv == Walked /\ Built

\* What Listed says of an entry.
LEMMA ListedEntry ==
  ASSUME NEW t, NEW p
  PROVE  p \in Listed(t) <=>
            /\ p = <<p[1], p[2]>> /\ p[1] \in DOMAIN t
            /\ t[p[1]].type = "engine" /\ p[2] \in CpldOf(t[p[1]])
<1>1. ASSUME p \in Listed(t)
      PROVE  /\ p = <<p[1], p[2]>> /\ p[1] \in DOMAIN t
             /\ t[p[1]].type = "engine" /\ p[2] \in CpldOf(t[p[1]])
  <2>1. PICK i \in {k \in DOMAIN t : t[k].type = "engine"} :
           p \in {<<i, j>> : j \in CpldOf(t[i])}
    BY <1>1 DEF Listed
  <2> QED
    BY <2>1
<1>2. ASSUME p = <<p[1], p[2]>>, p[1] \in DOMAIN t,
             t[p[1]].type = "engine", p[2] \in CpldOf(t[p[1]])
      PROVE  p \in Listed(t)
  BY <1>2 DEF Listed
<1> QED
  BY <1>1, <1>2

\* Where records lie in a table, and that a whole table has room for each.
LEMMA RecordPlaces ==
  ASSUME NEW t \in Seq(PlatDefRecord)
  PROVE  /\ Partial(RecordSizes(t)) \in [0..Len(t) -> Nat]
         /\ Partial(RecordSizes(t))[0] = 0
         /\ \A k \in 1..Len(t) :
               /\ t[k].size \in 0..255
               /\ Partial(RecordSizes(t))[k] =
                     Partial(RecordSizes(t))[k - 1] + t[k].size * 16
         /\ \A k \in 0..Len(t) :
               Partial(RecordSizes(t))[k] <= Total(RecordSizes(t))
         /\ Total(RecordSizes(t)) \in Nat
<1> DEFINE u == RecordSizes(t)
           n == Len(t)
<1>1. n \in Nat /\ DOMAIN t = 1..n
  OBVIOUS
<1>2. \A k \in 1..n : t[k].size \in 0..255
  <2> TAKE k \in 1..n
  <2>1. t[k] \in PlatDefRecord
    BY <1>1
  <2> QED
    BY <2>1 DEF PlatDefRecord
<1>3. \A k \in 1..n : t[k].size * 16 \in Nat
  <2> TAKE k \in 1..n
  <2> DEFINE x == t[k].size
  <2>1. x \in 0..255
    BY <1>2
  <2> HIDE DEF x
  <2>2. x * 16 \in Nat
    BY <2>1
  <2> QED
    BY <2>2 DEF x
<1>4. u \in [1..n -> Nat] /\ \A k \in 1..n : u[k] = t[k].size * 16
  BY <1>1, <1>3 DEF RecordSizes
<1> HIDE DEF u
<1>5. u \in Seq(Nat) /\ Len(u) = n
  BY <1>1, <1>4
<1>6. Adds(Partial(u), u, n)
  BY <1>5, PartialAdds
<1>7. ASSUME NEW k \in 0..n
      PROVE  Partial(u)[k] <= Total(u)
  <2> DEFINE v == [i \in 1..k |-> u[i]]
  <2>1. k \in Nat /\ k <= n /\ v \in [1..k -> Nat]
    BY <1>1, <1>4
  <2>2. v \in Seq(Nat) /\ Len(v) = k
    BY <2>1
  <2>3. Prefix(v, u)
    BY <1>5, <2>1, <2>2 DEF Prefix
  <2> HIDE DEF v
  <2>4. Total(v) = Partial(u)[Len(v)] /\ Total(v) <= Total(u)
    BY <1>5, <2>2, <2>3, TotalPrefix
  <2> QED
    BY <2>2, <2>4
<1>8. Total(u) \in Nat
  BY <1>5, TotalType
<1> QED
  BY <1>2, <1>4, <1>6, <1>7, <1>8 DEF Adds, u

\* The walk takes all that a record of a whole table lists.
LEMMA AllTaken ==
  ASSUME NEW t, t.records \in Seq(PlatDefRecord), WholeTable(t),
         NEW i \in DOMAIN t.records, t.records[i].type = "engine"
  PROVE  Taken(t.records[i]) = DOMAIN t.records[i].segments
<1> DEFINE r == t.records[i]
           n == Len(r.segments)
<1>1. r \in PlatDefRecord
  OBVIOUS
<1>2. r.segments \in Seq(Segment) /\ r.size \in 0..255
  BY <1>1 DEF PlatDefRecord
<1>3. n \in Nat /\ DOMAIN r.segments = 1..n
  BY <1>2
<1>4. r.count = n /\ 80 + n * 32 <= r.size * 16
  BY DEF WholeTable, PlatDefRecordHeader, PlatDefI2CEngineFixed,
         PlatDefI2CSegment
<1>5. \A j \in 1..n : j <= r.count /\ 80 + j * 32 <= r.size * 16
  <2> TAKE j \in 1..n
  <2> DEFINE x == r.size
  <2> HIDE DEF n, x
  <2>1. x \in 0..255 /\ 80 + n * 32 <= x * 16
    BY <1>2, <1>4 DEF x
  <2>2. j <= n /\ 80 + j * 32 <= x * 16
    BY <1>3, <2>1
  <2> QED
    BY <1>4, <2>2 DEF x
<1> QED
  BY <1>3, <1>5
  DEF Taken, PlatDefRecordHeader, PlatDefI2CEngineFixed, PlatDefI2CSegment

\* What a whole record adds: for an id it lists, its last entry for it.
EntriesFor(r, s) == {j \in CpldOf(r) : r.segments[j].id = s}

Extended(r) ==
    /\ DOMAIN WithSegments(r) =
          DOMAIN segments \cup {r.segments[j].id : j \in CpldOf(r)}
    /\ \A s \in DOMAIN WithSegments(r) :
          /\ EntriesFor(r, s) = {} => WithSegments(r)[s] = segments[s]
          /\ EntriesFor(r, s) # {} =>
                \E j \in EntriesFor(r, s) :
                   /\ \A k \in EntriesFor(r, s) : k <= j
                   /\ WithSegments(r)[s] = Mapping(r, j)

LEMMA WithSegmentsLast ==
  ASSUME NEW t, t.records \in Seq(PlatDefRecord), WholeTable(t),
         NEW i \in DOMAIN t.records, t.records[i].type = "engine"
  PROVE  Extended(t.records[i])
<1> DEFINE r == t.records[i]
           n == Len(r.segments)
<1>1. r.segments \in Seq(Segment)
  <2>1. r \in PlatDefRecord
    OBVIOUS
  <2> QED
    BY <2>1 DEF PlatDefRecord
<1>2. n \in Nat /\ DOMAIN r.segments = 1..n
  BY <1>1
<1>3. Taken(r) = DOMAIN r.segments
  BY AllTaken
<1> HIDE DEF r
<1>4. \A s : Naming(r, s) = EntriesFor(r, s)
  BY <1>3 DEF Naming, CpldOf, EntriesFor
<1>5. {j \in Taken(r) : r.segments[j].cpld} = CpldOf(r)
  BY <1>3 DEF CpldOf
<1>6. DOMAIN WithSegments(r) =
         DOMAIN segments \cup {r.segments[j].id : j \in CpldOf(r)}
  BY <1>5 DEF WithSegments
<1>7. ASSUME NEW s \in DOMAIN WithSegments(r)
      PROVE  /\ EntriesFor(r, s) = {} => WithSegments(r)[s] = segments[s]
             /\ EntriesFor(r, s) # {} =>
                   \E j \in EntriesFor(r, s) :
                      /\ \A k \in EntriesFor(r, s) : k <= j
                      /\ WithSegments(r)[s] = Mapping(r, j)
  <2> DEFINE named == EntriesFor(r, s)
  <2>1. WithSegments(r)[s] =
           IF named # {} THEN Mapping(r, Max(named)) ELSE segments[s]
    <3>1. WithSegments(r)[s] =
             IF Naming(r, s) # {} THEN Mapping(r, Max(Naming(r, s)))
             ELSE segments[s]
      BY DEF WithSegments
    <3> QED
      BY <1>4, <3>1
  <2>2. named \subseteq 1..n
    BY <1>2 DEF CpldOf, EntriesFor
  <2>3. CASE named # {}
    <3>1. /\ Max(named) \in named
          /\ \A k \in named : k <= Max(named)
      <4> HIDE DEF named, n
      <4> QED  BY <1>2, <2>2, <2>3, MaxIn
    <3> QED
      BY <2>1, <2>3, <3>1
  <2> QED
    BY <2>1, <2>3
<1> QED
  BY <1>6, <1>7 DEF r, Extended

\* A whole table has another record, or all that it lists has been taken.
LEMMA WalkGoesOn ==
  ASSUME PlatInv, MapInv, step = "records", WholeTable(platDef)
  PROVE  IF AtRecord THEN next \in DOMAIN platDef.records
         ELSE \A p \in Listed(platDef.records) : p[1] < next
<1> DEFINE t == platDef.records
           n == Len(t)
           f == Partial(RecordSizes(t))
           total == Total(RecordSizes(t))
           size == platDef.size
<1>1. t \in Seq(PlatDefRecord) /\ next \in Nat \ {0}
  BY DEF PlatInv, Unpacked, Traced
<1>2. n \in Nat /\ DOMAIN t = 1..n
  BY <1>1
<1>3. next \in 1..(n + 1)
  BY <1>1, <1>2 DEF MapInv, Walked
<1>4. pos = f[next - 1] /\ size \in Int /\ total <= size
  BY DEF MapInv, Walked, Built, WholeTable
<1>5. CASE AtRecord
  BY <1>2, <1>3, <1>5 DEF AtRecord
<1>6. CASE ~AtRecord
  <2> SUFFICES ASSUME NEW p \in Listed(t) PROVE p[1] < next
    BY <1>6
  <2>1. p[1] \in 1..n /\ t[p[1]].type = "engine"
    BY <1>2, ListedEntry
  <2>2. CASE next = n + 1
    BY <1>2, <1>3, <2>1, <2>2
  <2>3. CASE next \in 1..n
    <3> DEFINE x == t[next].size  before == f[next - 1]  after == f[next]
               fixed == t[next].count * PlatDefI2CSegment
    <3>1. /\ before \in Nat /\ after \in Nat /\ x \in 0..255 /\ total \in Nat
          /\ after = before + x * 16 /\ after <= total
      <4>1. next - 1 \in 0..n /\ next \in 0..n
        BY <1>2, <2>3
      <4>2. /\ \A k \in 1..n : f[k] = f[k - 1] + t[k].size * 16
                               /\ t[k].size \in 0..255
            /\ \A k \in 0..n : f[k] \in Nat /\ f[k] <= total
            /\ total \in Nat
        <5>1. /\ f \in [0..n -> Nat] /\ total \in Nat
              /\ \A k \in 0..n : f[k] <= total
          BY <1>1, RecordPlaces
        <5>2. \A k \in 1..n : f[k] = f[k - 1] + t[k].size * 16
                              /\ t[k].size \in 0..255
          BY <1>1, RecordPlaces
        <5> QED
          BY <5>1, <5>2
      <4> HIDE DEF f, n, total
      <4> QED
        BY <2>3, <4>1, <4>2
    <3>2. x >= 2 /\ (t[next].type = "end" => next = n)
          /\ (t[next].type = "engine" => 80 + fixed <= x * 16)
      BY <1>2, <2>3
      DEF WholeTable, PlatDefRecordHeader, PlatDefI2CEngineFixed
    <3>3. fixed \in Nat
      <4>1. t[next] \in PlatDefRecord
        BY <1>1, <2>3
      <4>2. t[next].count \in 0..255
        BY <4>1 DEF PlatDefRecord
      <4> QED
        BY <4>2 DEF PlatDefI2CSegment
    <3> HIDE DEF x, before, after, fixed, total, size
    <3>4. /\ before + 32 <= size /\ x # 0 /\ before + x * 16 <= size
          /\ t[next].type = "engine" => before + 80 <= size
      <4>1. before + x * 16 <= size
        BY <1>4, <3>1
      <4>2. 32 <= x * 16 /\ x # 0
        BY <3>1, <3>2
      <4>3. t[next].type = "engine" => 80 <= x * 16
        BY <3>1, <3>2, <3>3
      <4> QED
        BY <1>4, <3>1, <4>1, <4>2, <4>3
    <3>5. t[next].type = "end"
      <4>1. /\ pos + PlatDefRecordHeader <= size /\ RecordAt.size # 0
            /\ pos + RecordBytes <= size
            /\ RecordAt.type = "engine" => FixedEnd <= size
        <5>1. FixedEnd = before + 80
          BY <1>4, <3>1
          DEF before, FixedEnd, PlatDefRecordHeader, PlatDefI2CEngineFixed
        <5> QED
          BY <1>4, <3>4, <5>1
          DEF before, x, RecordAt, RecordBytes, PlatDefRecordHeader
      <4>2. next <= n
        BY <2>3
      <4> QED
        BY <1>6, <4>1, <4>2 DEF AtRecord, RecordAt, size
    <3>6. next = n /\ p[1] # next
      BY <2>1, <3>2, <3>5
    <3> QED
      BY <2>1, <3>6
  <2> QED
    BY <1>2, <1>3, <2>2, <2>3
<1> QED
  BY <1>5, <1>6

\* A record more: the entries it lists come behind those before it.
LEMMA LastMoves ==
  ASSUME PlatInv, MapInv, NextRecord, WholeTable(platDef),
         NEW s \in DOMAIN segments'
  PROVE  \E p \in Listed(platDef.records) :
            /\ LastFor(platDef.records, next + 1, s, p)
            /\ segments'[s].cpldRegister = SegmentAt(platDef.records, p).byte
            /\ segments'[s].channelValue =
                  SegmentAt(platDef.records, p).selectMask
<1> DEFINE t == platDef.records
           r == t[next]
           named == EntriesFor(r, s)
<1>1. /\ step = "records" /\ AtRecord /\ next \in DOMAIN t
      /\ next \in Nat /\ t \in Seq(PlatDefRecord)
      /\ segments' = IF r.type = "engine" THEN WithSegments(r) ELSE segments
  BY WalkGoesOn DEF NextRecord, PlatInv, Unpacked, Traced, RecordAt
<1>2. r.type = "engine" => Extended(r)
  BY <1>1, WithSegmentsLast
<1>3. \A p \in Listed(t) : p[1] \in Nat /\ p[2] \in Nat
  <2> TAKE p \in Listed(t)
  <2>1. p[1] \in DOMAIN t /\ p[2] \in DOMAIN t[p[1]].segments
    BY ListedEntry DEF CpldOf
  <2>2. t[p[1]] \in PlatDefRecord
    BY <1>1, <2>1
  <2>3. t[p[1]].segments \in Seq(Segment)
    BY <2>2 DEF PlatDefRecord
  <2> QED
    BY <1>1, <2>1, <2>3
<1>4. CASE r.type = "engine" /\ named # {}
  <2>1. PICK j \in named : /\ \A k \in named : k <= j
                           /\ segments'[s] = Mapping(r, j)
    BY <1>1, <1>4, <1>2 DEF Extended
  <2> DEFINE p == <<next, j>>
  <2>2. p \in Listed(t) /\ SegmentAt(t, p) = r.segments[j]
    BY <1>1, <1>4, ListedEntry DEF SegmentAt, EntriesFor
  <2>3. LastFor(t, next + 1, s, p)
    <3>1. ASSUME NEW q \in Listed(t), q[1] < next + 1,
                 SegmentAt(t, q).id = s, Before(p, q)
          PROVE  FALSE
      <4>1. q[1] \in Nat /\ q[2] \in Nat /\ j \in Nat
        BY <1>3, <2>2
      <4>2. q[1] = next /\ j < q[2]
        BY <1>1, <3>1, <4>1 DEF Before
      <4>3. q[2] \in named
        BY <3>1, <4>2, ListedEntry DEF SegmentAt, EntriesFor
      <4>4. q[2] <= j
        BY <2>1, <4>3
      <4> QED
        BY <4>1, <4>2, <4>4
    <3>2. p[1] < next + 1 /\ SegmentAt(t, p).id = s
      BY <1>1, <2>2 DEF EntriesFor
    <3> QED
      BY <3>1, <3>2 DEF LastFor
  <2>4. /\ segments'[s].cpldRegister = SegmentAt(t, p).byte
        /\ segments'[s].channelValue = SegmentAt(t, p).selectMask
    BY <2>1, <2>2 DEF Mapping
  <2> QED
    BY <2>2, <2>3, <2>4
<1>5. CASE r.type # "engine" \/ named = {}
  <2>1. s \in DOMAIN segments /\ segments'[s] = segments[s]
    <3>1. CASE r.type # "engine"
      BY <1>1, <3>1
    <3>2. CASE r.type = "engine" /\ named = {}
      <4>1. s \in DOMAIN segments
        BY <1>1, <1>2, <3>2 DEF Extended, EntriesFor
      <4> QED
        BY <1>1, <1>2, <3>2, <4>1 DEF Extended
    <3> QED
      BY <1>5, <3>1, <3>2
  <2>2. PICK p \in Listed(t) :
           /\ LastFor(t, next, s, p)
           /\ segments[s].cpldRegister = SegmentAt(t, p).byte
           /\ segments[s].channelValue = SegmentAt(t, p).selectMask
    BY <1>1, <2>1 DEF MapInv, Walked
  <2>3. ASSUME NEW q \in Listed(t), q[1] < next + 1, SegmentAt(t, q).id = s
        PROVE  ~Before(p, q)
    <3>1. q[1] # next
      <4> SUFFICES ASSUME q[1] = next PROVE FALSE
        OBVIOUS
      <4>1. r.type = "engine" /\ q[2] \in named
        BY <2>3, ListedEntry DEF SegmentAt, EntriesFor
      <4> QED
        BY <1>5, <4>1
    <3>2. q[1] < next
      BY <1>1, <1>3, <2>3, <3>1
    <3> QED
      BY <2>2, <2>3, <3>2 DEF LastFor
  <2>4. LastFor(t, next + 1, s, p)
    BY <1>1, <1>3, <2>2, <2>3 DEF LastFor
  <2> QED
    BY <2>1, <2>2, <2>4
<1> QED
  BY <1>4, <1>5

LEMMA NextRecordMaps == PlatInv /\ MapInv /\ NextRecord => MapInv'
<1> SUFFICES ASSUME PlatInv, MapInv, NextRecord PROVE MapInv'
  OBVIOUS
<1> DEFINE t == platDef.records
           n == Len(t)
           f == Partial(RecordSizes(t))
<1>1. /\ UNCHANGED <<rom, data, step, platDef, topology, segmentBusMap, scanned>>
      /\ next' = next + 1 /\ pos' = pos + RecordBytes
      /\ step = "records" /\ AtRecord
      /\ segments' = IF t[next].type = "engine" THEN WithSegments(t[next])
                     ELSE segments
  BY DEF NextRecord, fvVars, mapVars, RecordAt
<1>2. Built'
  BY <1>1 DEF MapInv, Built
<1>3. Walked'
  <2> SUFFICES ASSUME WholeTable(platDef)
               PROVE  /\ next' - 1 \in 0..n
                      /\ pos' = f[next' - 1]
                      /\ \A s \in DOMAIN segments' :
                            \E p \in Listed(t) :
                               /\ LastFor(t, next', s, p)
                               /\ segments'[s].cpldRegister = SegmentAt(t, p).byte
                               /\ segments'[s].channelValue =
                                     SegmentAt(t, p).selectMask
                      /\ \A p \in Listed(t) :
                            p[1] < next' => SegmentAt(t, p).id \in DOMAIN segments'
    BY <1>1 DEF Walked
  <2>1. t \in Seq(PlatDefRecord) /\ next \in DOMAIN t
    BY <1>1, WalkGoesOn DEF PlatInv, Unpacked
  <2>2. n \in Nat /\ next \in 1..n
    BY <2>1
  <2>3. next' - 1 = next /\ next' - 1 \in 0..n
    BY <1>1, <2>2
  <2>4. pos' = f[next' - 1]
    <3>1. f[next] = f[next - 1] + t[next].size * 16
      BY <2>1, <2>2, RecordPlaces
    <3>2. pos = f[next - 1]
      BY <1>1 DEF MapInv, Walked
    <3> QED
      BY <1>1, <2>3, <3>1, <3>2 DEF RecordBytes, RecordAt
  <2>5. t[next].type = "engine" => Extended(t[next])
    BY <2>1, WithSegmentsLast
  <2>6. ASSUME NEW p \in Listed(t), p[1] < next + 1
        PROVE  SegmentAt(t, p).id \in DOMAIN segments'
    <3>1. p[1] \in DOMAIN t /\ t[p[1]].type = "engine" /\ p[2] \in CpldOf(t[p[1]])
      BY ListedEntry
    <3>2. CASE p[1] = next
      <4>1. segments' = WithSegments(t[next])
        BY <1>1, <3>1, <3>2
      <4>2. SegmentAt(t, p).id \in {t[next].segments[j].id : j \in CpldOf(t[next])}
        BY <3>1, <3>2 DEF SegmentAt
      <4> QED
        BY <2>5, <3>1, <3>2, <4>1, <4>2 DEF Extended
    <3>3. CASE p[1] # next
      <4>1. p[1] < next
        BY <2>1, <2>2, <2>6, <3>1, <3>3
      <4>2. SegmentAt(t, p).id \in DOMAIN segments
        BY <1>1, <4>1 DEF MapInv, Walked
      <4>3. DOMAIN segments \subseteq DOMAIN segments'
        <5>1. CASE t[next].type = "engine"
          BY <1>1, <2>5, <5>1 DEF Extended
        <5> QED
          BY <1>1, <5>1
      <4> QED
        BY <4>2, <4>3
    <3> QED
      BY <3>2, <3>3
  <2> QED
    BY <1>1, <2>3, <2>4, <2>6, LastMoves
<1> QED
  BY <1>2, <1>3 DEF MapInv

LEMMA LastRecordMaps == PlatInv /\ MapInv /\ LastRecord => MapInv'
<1> SUFFICES ASSUME PlatInv, MapInv, LastRecord PROVE MapInv'
  OBVIOUS
<1>1. /\ UNCHANGED <<platDef, pos, next, segments>>
      /\ step = "records" /\ step' = "map" /\ ~AtRecord
  BY DEF LastRecord, walkVars
<1>2. Built'
  BY <1>1 DEF MapInv, Built
<1>3. WholeTable(platDef) => \A p \in Listed(platDef.records) : p[1] < next
  BY <1>1, WalkGoesOn
<1>4. Walked'
  BY <1>1, <1>3 DEF MapInv, Walked
<1> QED
  BY <1>2, <1>4 DEF MapInv

\* What is unpacked has a size.
LEMMA DecompressedSize ==
  ASSUME rom \in Images, data.size \in Nat
  PROVE  Decompressed(data).size \in Int
<1> DEFINE b == rom.blob[data.offset]
           nothing == \/ data.size < PlatDefBundleHeader + PlatDefTableData
                      \/ data.offset \notin DOMAIN rom.blob
           fits == /\ b.compressedSize >= PlatDefTableData
                   /\ (PlatDefBundleHeader + b.compressedSize) % Wrap
                          <= data.size
                   /\ Inflates(b)
<1>1. NoPlatDef.size = 0
  BY DEF NoPlatDef
<1>2. CASE nothing
  BY <1>1, <1>2 DEF Decompressed
<1>3. CASE ~nothing
  <2>1. IsBlob(b)
    BY <1>3, PlatDefAssumption
  <2>2. b.zlib \in BOOLEAN /\ b.inflated \in 0..(Wrap - 1) /\ Wrap \in Nat
    BY <2>1, UefiFvAssumption DEF IsBlob
  <2>3. CASE ~b.zlib
    <3>1. Decompressed(data).size = data.size - PlatDefBundleHeader
      BY <1>3, <2>3 DEF Decompressed
    <3> QED
      BY <3>1 DEF PlatDefBundleHeader
  <2>4. CASE b.zlib /\ fits
    <3>1. Decompressed(data).size = PlatDefTableData + b.inflated
      BY <1>3, <2>4 DEF Decompressed
    <3> QED
      BY <2>2, <3>1 DEF PlatDefTableData
  <2>5. CASE b.zlib /\ ~fits
    <3>1. Decompressed(data) = NoPlatDef
      BY <1>3, <2>5 DEF Decompressed
    <3> QED
      BY <1>1, <3>1
  <2> QED
    BY <2>2, <2>3, <2>4, <2>5
<1> QED
  BY <1>2, <1>3

LEMMA EmptyNotWhole == ~WholeTable(NoPlatDef)
  BY DEF WholeTable, Gen11, NoPlatDef

LEMMA InflateMaps ==
  ASSUME IInv, PlatInv, MapInv, Inflate
  PROVE  MapInv'
<1> DEFINE t == platDef'.records
<1>1. /\ UNCHANGED <<rom, data, pos, next, segments, segmentBusMap, scanned>>
      /\ platDef' = Decompressed(data) /\ step = "scan"
      /\ step' \in {"serve", "map", "records"}
      /\ step' = "serve" => platDef' = NoPlatDef
      /\ step' = "map" => ~Gen11(platDef')
  BY DEF Inflate, fvVars, mapVars
<1>2. rom \in Images /\ data.size \in Nat
  BY DEF IInv, FvTypeOK
<1>3. pos = 0 /\ next = 1 /\ DOMAIN segments = {}
  BY <1>1 DEF MapInv, Built
<1>4. t \in Seq(PlatDefRecord) /\ platDef'.size \in Int
  BY <1>1, <1>2, DecompressedIsTable, DecompressedSize
<1>5. step' # "records" => ~WholeTable(platDef')
  BY <1>1, EmptyNotWhole DEF WholeTable
<1>6. Built'
  BY <1>1, <1>4, <1>5 DEF Built
<1>7. Walked'
  <2>1. \A p \in Listed(t) : ~(p[1] < 1)
    <3> TAKE p \in Listed(t)
    <3>1. p[1] \in DOMAIN t
      BY ListedEntry
    <3> QED
      BY <1>4, <3>1
  <2>2. Len(t) \in Nat /\ Partial(RecordSizes(t))[0] = 0
    BY <1>4, RecordPlaces
  <2>3. next' - 1 = 0 /\ 0 \in 0..Len(t)
    BY <1>1, <1>3, <2>2
  <2> QED
    BY <1>1, <1>3, <1>5, <2>1, <2>2, <2>3 DEF Walked
<1> QED
  BY <1>6, <1>7 DEF MapInv

LEMMA BuildMapMaps == PlatInv /\ MapInv /\ BuildMap => MapInv'
<1> SUFFICES ASSUME PlatInv, MapInv, BuildMap PROVE MapInv'
  OBVIOUS
<1>1. /\ UNCHANGED <<platDef, pos, next, segments>>
      /\ step = "map" /\ step' = "serve"
  BY DEF BuildMap, walkVars
<1>2. Walked'
  BY <1>1 DEF MapInv, Walked
<1>3. PICK seen \in SUBSET DOMAIN topology :
         scanned' = seen /\ segmentBusMap' = BusMap(seen)
  BY DEF BuildMap
<1>4. scanned' \subseteq DOMAIN Channels
  BY <1>3 DEF PlatInv, Registered
<1>5. DOMAIN segmentBusMap' =
         {s \in DOMAIN segments :
             /\ segments[s].cpldRegister >= cpldRegisterBase
             /\ MuxChannel(segments[s]) \in scanned'}
  BY <1>3 DEF BusMap
<1>6. Built'
  BY <1>1, <1>4, <1>5 DEF MapInv, Built, MuxChannel
<1> QED
  BY <1>2, <1>6 DEF MapInv

LEMMA MapStepKeeps ==
  ASSUME IInv, PlatInv, MapInv, [PlatNext]_platVars
  PROVE  MapInv'
<1>1. CASE NoRom
  <2>1. /\ UNCHANGED <<platDef, pos, next, segments>>
        /\ step = "mtd" /\ step' = "serve"
    BY <1>1 DEF NoRom, walkVars
  <2>2. platDef' = NoPlatDef /\ ~WholeTable(platDef')
    BY <2>1, EmptyNotWhole DEF MapInv, Built
  <2> QED
    BY <2>1, <2>2 DEF MapInv, Walked, Built
<1>2. CASE OpenRom \/ Scan \/ FlashError
  <2>1. /\ UNCHANGED <<platDef, pos, next, segments>>
        /\ step \in {"mtd", "scan"} /\ step' = "scan"
    BY <1>2 DEF OpenRom, Scan, FlashError, walkVars
  <2> QED
    BY <2>1 DEF MapInv, Walked, Built
<1>3. CASE Register \/ UNCHANGED platVars
  <2>1. UNCHANGED <<step, platDef, pos, next, segments, segmentBusMap, scanned>>
    BY <1>3 DEF Register, platVars, walkVars, mapVars
  <2>2. Walked'
    BY <2>1 DEF MapInv, Walked
  <2>3. Built'
    BY <2>1 DEF MapInv, Built, MuxChannel
  <2> QED
    BY <2>2, <2>3 DEF MapInv
<1> QED
  BY <1>1, <1>2, <1>3, InflateMaps, NextRecordMaps, LastRecordMaps, BuildMapMaps
  DEF PlatNext, Startup

\* The last entry for a segment is the only one.
LEMMA OneLast ==
  ASSUME NEW t \in Seq(PlatDefRecord), NEW p \in Listed(t), NEW q \in Listed(t),
         ~Before(p, q), ~Before(q, p)
  PROVE  p = q
<1>1. ASSUME NEW x \in Listed(t)
      PROVE  x = <<x[1], x[2]>> /\ x[1] \in Nat /\ x[2] \in Nat
  <2>1. x = <<x[1], x[2]>> /\ x[1] \in DOMAIN t /\ x[2] \in DOMAIN t[x[1]].segments
    BY <1>1, ListedEntry DEF CpldOf
  <2>2. t[x[1]] \in PlatDefRecord
    BY <2>1
  <2>3. t[x[1]].segments \in Seq(Segment)
    BY <2>2 DEF PlatDefRecord
  <2> QED
    BY <2>1, <2>3
<1>2. p[1] = q[1] /\ p[2] = q[2]
  <2>1. p[1] \in Nat /\ p[2] \in Nat /\ q[1] \in Nat /\ q[2] \in Nat
    BY <1>1
  <2> QED
    BY <2>1 DEF Before
<1> QED
  BY <1>1, <1>2

\* When the daemon serves, the map has for a segment of a whole table the bus of
\* the last entry for it, if its channel was there.
LEMMA MapIsTables ==
  ASSUME PlatInv, MapInv, step = "serve", WholeTable(platDef),
         NEW s \in DOMAIN segmentBusMap
               \cup {SegmentAt(platDef.records, p).id :
                       p \in Listed(platDef.records)}
  PROVE  LET bus == BusOf(platDef.records, s, [c \in scanned |-> Channels[c]])
         IN  IF s \in DOMAIN segmentBusMap THEN bus = {segmentBusMap[s]}
             ELSE bus = {}
<1> DEFINE t == platDef.records
           ch == [c \in scanned |-> Channels[c]]
           at(p) == <<SegmentAt(t, p).byte - cpldRegisterBase,
                      SegmentAt(t, p).selectMask>>
           lasts == {q \in Listed(t) :
                       /\ SegmentAt(t, q).id = s
                       /\ \A r \in Listed(t) :
                             SegmentAt(t, r).id = s => ~Before(q, r)
                       /\ at(q) \in DOMAIN ch}
<1>1. t \in Seq(PlatDefRecord)
  BY DEF PlatInv, Unpacked
<1>2. \A p \in Listed(t) : p[1] < next
  BY DEF MapInv, Walked
<1>3. s \in DOMAIN segments
  <2>1. \A p \in Listed(t) : SegmentAt(t, p).id \in DOMAIN segments
    BY <1>2 DEF MapInv, Walked
  <2>2. \A x \in DOMAIN segmentBusMap : x \in DOMAIN segments
    BY DEF PlatInv, Mapped
  <2> QED
    BY <2>1, <2>2
<1>4. PICK p \in Listed(t) :
         /\ LastFor(t, next, s, p)
         /\ segments[s].cpldRegister = SegmentAt(t, p).byte
         /\ segments[s].channelValue = SegmentAt(t, p).selectMask
  BY <1>3 DEF MapInv, Walked
<1>5. /\ SegmentAt(t, p).id = s
      /\ \A r \in Listed(t) : SegmentAt(t, r).id = s => ~Before(p, r)
  BY <1>2, <1>4 DEF LastFor
<1>6. at(p) = MuxChannel(segments[s])
  BY <1>4 DEF MuxChannel
<1>7. BusOf(t, s, ch) = {ch[at(q)] : q \in lasts}
  BY DEF BusOf
<1>8. \A q \in lasts : q = p
  <2> TAKE q \in lasts
  <2>1. ~Before(p, q) /\ ~Before(q, p)
    BY <1>4, <1>5
  <2> QED
    BY <1>1, <1>4, <2>1, OneLast
<1>9. DOMAIN ch = scanned /\ scanned \subseteq DOMAIN Channels
  BY DEF MapInv, Built
<1>10. CASE at(p) \in scanned
  <2>1. segments[s].cpldRegister >= cpldRegisterBase
    <3>1. at(p) \in (0..255) \X (0..255)
      BY <1>9, <1>10, PlatDefAssumption
    <3>2. SegmentAt(t, p).byte - cpldRegisterBase \in 0..255
      BY <3>1
    <3>3. segments[s].cpldRegister \in 0..255
      BY <1>3, SegmentTypes
    <3> QED
      BY <1>4, <3>2, <3>3 DEF cpldRegisterBase
  <2>2. s \in DOMAIN segmentBusMap
    BY <1>3, <1>6, <1>10, <2>1 DEF MapInv, Built
  <2>3. segmentBusMap[s] = ch[at(p)]
    BY <1>6, <1>9, <1>10, <2>2 DEF PlatInv, Mapped
  <2>4. lasts = {p}
    BY <1>4, <1>5, <1>8, <1>9, <1>10
  <2>5. BusOf(t, s, ch) = {ch[at(p)]}
    <3> HIDE DEF lasts, at
    <3> QED  BY <1>7, <2>4
  <2> QED
    BY <2>2, <2>3, <2>5
<1>11. CASE at(p) \notin scanned
  <2>1. s \notin DOMAIN segmentBusMap
    BY <1>6, <1>11 DEF MapInv, Built
  <2>2. lasts = {}
    BY <1>8, <1>9, <1>11
  <2>3. BusOf(t, s, ch) = {}
    <3> HIDE DEF lasts, at
    <3> QED  BY <1>7, <2>2
  <2> QED
    BY <2>1, <2>3
<1> QED
  BY <1>10, <1>11

\* For any flash image and any wiring, and whatever the kernel had registered
\* when the map was built, the daemon serves with the map that a whole table
\* gives: the bus of the last entry of each segment, and nothing else
\* (parseI2cSegments, scanMuxTopology and main()'s loop over them).
THEOREM MapIsFaithful == ProxySpec => []MapFaithful
<1> DEFINE Inv == IInv /\ PlatInv /\ MapInv
<1>1. ProxyInit => Inv
  <2> SUFFICES ASSUME ProxyInit PROVE Inv
    OBVIOUS
  <2>1. IInv /\ PlatInv
    BY InitEstablishes, PlatInitEstablishes DEF ProxyInit, PlatInit
  <2>2. /\ step = "mtd" /\ pos = 0 /\ next = 1 /\ DOMAIN segments = {}
        /\ platDef = NoPlatDef
    BY DEF ProxyInit, PlatInit, NoSegments
  <2>3. MapInv
    BY <2>2 DEF MapInv, Walked, Built, NoPlatDef
  <2> QED
    BY <2>1, <2>3
<1>2. [ProxyNext]_allVars => [PlatNext]_platVars
  BY DEF ProxyNext, StartupStep, Environment, OtherMaster, HandleI2cProxy,
         HandleOther, PlatNext, allVars
<1>3. Inv /\ [ProxyNext]_allVars => Inv'
  BY <1>2, StepKeeps, SearchInside, PlatStepKeeps, MapStepKeeps
<1>4. Inv => MapFaithful
  BY MapIsTables DEF MapFaithful
<1> QED
  BY <1>1, <1>3, <1>4, PTL DEF ProxySpec
=============================================================================

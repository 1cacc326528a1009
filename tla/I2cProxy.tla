------------------------------ MODULE I2cProxy ------------------------------
(***************************************************************************)
(* SmifService's proxy for the I2C buses of the BMC (smif_service.cpp): the *)
(* host asks for a write, a read, or both, on a segment of its own naming,  *)
(* and the daemon does the transfer on the bus its map has for the segment. *)
(* Beside it the other fixed commands of the service, since all of them     *)
(* answer in the one response buffer of the daemon, which keeps what the    *)
(* last answer left in it.  The buses have other masters, and devices that  *)
(* do not answer.                                                           *)
(***************************************************************************)
EXTENDS PlatDef

CONSTANTS
    I2cRequests,    \* bound: the transfers the host asks for
    Values          \* what a device's register holds

VARIABLES
    device,     \* the register of the device at a bus and an address
    request,    \* the last request; NoRequest before the first
    transfer,   \* what was done on a bus for it
    response    \* the response buffer, and how many bytes of it were sent

proxyVars == <<device, request, transfer, response>>
allVars == <<platVars, proxyVars>>

i2cMaxLength == 32

\* A request is too short for the fixed fields, or has `available' data bytes
\* behind them.
I2cRequest ==
    [command : {"i2c"}, short : BOOLEAN, available : Nat,
     address : 0..(2^16 - 1), segment : 0..255,
     writeLen : 0..255, readLen : 0..255, value : Values]
OtherRequest == [command : {"evState", "evAuthStatus", "platDef", "other"}]

ASSUME ProxyAssumption == I2cRequests \subseteq I2cRequest

Buses == {Channels[c] : c \in DOMAIN Channels}
\* static_cast<uint8_t>(address >> 1)
DeviceAddress(a) == (a \div 2) % 256
Addresses == {DeviceAddress(r.address) : r \in I2cRequests}

None == "none"      \* no value, or zeroed bytes
NoRequest == [command |-> None]
NoTransfer == [bus |-> None]

\* The part of the buffer that holds an answer's fields beyond the error code.
NoFields == [address |-> 0, segment |-> 0, readLen |-> 0, data |-> None]

\* Sizes with the header of 8 bytes; the simple response has only the code.
simpleRespSize == 12
evStateRespSize == 16
i2cRespSize == 57
evAuthRespSize == 132
platDefRespSize == 4032

ProxyInit ==
    /\ PlatInit
    /\ device \in [Buses \X Addresses -> Values]
    /\ request = NoRequest /\ transfer = NoTransfer
    /\ response = [size |-> 0, error |-> 0, fields |-> NoFields]

-----------------------------------------------------------------------------
(* Answers                                                                  *)

\* fill_n over the whole answer, then the header and the code.
Answer(size, error, fields) ==
    response' = [size |-> size, error |-> error, fields |-> fields]

\* buildSimpleResponse: the rest of the buffer stays as it was, and is not sent.
SimpleResponse(error) == Answer(simpleRespSize, error, response.fields)

platDefNoMoreRecords == 6
i2cGeneralError == 101
i2cBusTimeout == 105
i2cSegmentNotFound == 108
i2cAddressNack == 116

\* Mutant of HandleOther: the buffer is not cleared.
HandleOtherUncleared(r) ==
    /\ step = "serve" /\ request' = r
    /\ Answer(platDefRespSize, 0, response.fields)
    /\ transfer' = NoTransfer
    /\ UNCHANGED <<platVars, device>>

\* handleEvState, handleGetEvAuthStatus, handlePlatDefDownload and the stub for
\* every other command; the response buffer has room for each of them.
HandleOther(r) ==
    /\ step = "serve" /\ request' = r
    /\ CASE r.command = "evState"      -> Answer(evStateRespSize, 0, NoFields)
         [] r.command = "evAuthStatus" -> Answer(evAuthRespSize, 0, NoFields)
         [] r.command = "platDef"      ->
                Answer(platDefRespSize, platDefNoMoreRecords, NoFields)
         [] r.command = "other"        -> SimpleResponse(0)
    /\ transfer' = NoTransfer
    /\ UNCHANGED <<platVars, device>>

-----------------------------------------------------------------------------
(* handleI2cProxy                                                           *)

Echo(r) == [NoFields EXCEPT !.address = r.address, !.segment = r.segment]

NothingToDo(r) == ~r.short /\ r.writeLen = 0 /\ r.readLen = 0
TooLong(r) == r.writeLen > i2cMaxLength \/ r.readLen > i2cMaxLength

\* The requests that are answered without a bus.
Refused(r) ==
    \/ r.short /\ Answer(i2cRespSize, i2cGeneralError, NoFields)
    \/ NothingToDo(r) /\ Answer(i2cRespSize, 0, Echo(r))
    \/ /\ ~r.short /\ TooLong(r)
       /\ Answer(i2cRespSize, i2cGeneralError, Echo(r))
    \/ /\ ~r.short /\ ~NothingToDo(r) /\ ~TooLong(r)
       /\ r.segment \notin DOMAIN segmentBusMap
       /\ Answer(i2cRespSize, i2cSegmentNotFound, Echo(r))

\* The bus cannot be opened, or the data of the write is not all there.
OpenFails(r) ==
    /\ r.segment \in DOMAIN segmentBusMap
    /\ Answer(i2cRespSize, i2cGeneralError, Echo(r))

Bus(r) == segmentBusMap[r.segment]
At(r) == <<Bus(r), DeviceAddress(r.address)>>
Possible(r) ==
    /\ ~r.short /\ ~NothingToDo(r) /\ ~TooLong(r)
    /\ r.segment \in DOMAIN segmentBusMap

Written(r) ==
    IF r.writeLen > 0 THEN [device EXCEPT ![At(r)] = r.value] ELSE device

\* The messages of the transfer: a write, then a read, with no stop between.
Transferred(r) ==
    [bus |-> Bus(r), address |-> DeviceAddress(r.address),
     writeLen |-> r.writeLen, readLen |-> r.readLen]

\* Mutant of I2cTransfer: the read comes before the write.
I2cTransferReadFirst(r) ==
    /\ Possible(r) /\ r.available >= r.writeLen
    /\ device' = Written(r) /\ transfer' = Transferred(r)
    /\ Answer(i2cRespSize, 0,
              [Echo(r) EXCEPT
                  !.readLen = r.readLen,
                  !.data = IF r.readLen > 0 THEN device[At(r)] ELSE None])

I2cTransfer(r) ==
    /\ Possible(r) /\ r.available >= r.writeLen
    /\ device' = Written(r) /\ transfer' = Transferred(r)
    /\ Answer(i2cRespSize, 0,
              [Echo(r) EXCEPT
                  !.readLen = r.readLen,
                  !.data = IF r.readLen > 0 THEN device'[At(r)] ELSE None])

\* The ioctl fails: nobody answers to the address (ENXIO), the bus hangs
\* (ETIMEDOUT), or anything else; the write may have been done all the same.
I2cTransferFails(r) ==
    /\ Possible(r) /\ r.available >= r.writeLen
    /\ \E error \in {i2cAddressNack, i2cBusTimeout, i2cGeneralError} :
          Answer(i2cRespSize, error, Echo(r))
    /\ device' \in {device, Written(r)}
    /\ transfer' = NoTransfer

HandleI2cProxy(r) ==
    /\ step = "serve" /\ request' = r
    /\ \/ Refused(r) /\ UNCHANGED device /\ transfer' = NoTransfer
       \/ /\ Possible(r) /\ OpenFails(r)
          /\ UNCHANGED device /\ transfer' = NoTransfer
       \/ I2cTransfer(r)
       \/ I2cTransferFails(r)
    /\ UNCHANGED platVars

\* Another master, such as a sensor daemon of the BMC.
OtherMaster ==
    /\ step = "serve"
    /\ \E d \in DOMAIN device, v \in Values :
          device' = [device EXCEPT ![d] = v]
    /\ UNCHANGED <<platVars, request, transfer, response>>

StartupStep == Startup /\ UNCHANGED proxyVars
Environment == (FlashError \/ Register) /\ UNCHANGED proxyVars

ProxyNext ==
    \/ StartupStep \/ Environment \/ OtherMaster
    \/ \E r \in I2cRequests : HandleI2cProxy(r)
    \/ \E r \in OtherRequest : HandleOther(r)

\* The daemon starts as fast as it can; the host need not ask anything.
ProxySpec == ProxyInit /\ [][ProxyNext]_allVars /\ WF_allVars(StartupStep)

-----------------------------------------------------------------------------
(* Properties                                                               *)

ProxyTypeOK ==
    /\ PlatTypeOK
    /\ device \in [Buses \X Addresses -> Values]
    /\ response.size \in {0, simpleRespSize, evStateRespSize, i2cRespSize,
                          evAuthRespSize, platDefRespSize}
    /\ response.error \in {0, platDefNoMoreRecords, i2cGeneralError,
                           i2cBusTimeout, i2cSegmentNotFound, i2cAddressNack}

\* The table in the flash, as far as the daemon can have read it.
Table == rom.blob[data.offset].records

\* A transfer is done only on the bus that the platform definition in the flash
\* names for the segment, end to end from the records in the firmware volume to
\* the adapter, at the address that was asked for, with the lengths that were.
RightBus ==
    transfer # NoTransfer =>
        /\ data.offset \in DOMAIN rom.blob
        /\ \E p \in Listed(Table) :
              /\ SegmentAt(Table, p).id = request.segment
              /\ \E c \in DOMAIN Channels :
                    /\ transfer.bus = Channels[c]
                    /\ c[1] + cpldRegisterBase = SegmentAt(Table, p).byte
                    /\ c[2] = SegmentAt(Table, p).selectMask
        /\ request.address < 512 => transfer.address = request.address \div 2
        /\ transfer.writeLen = request.writeLen
        /\ transfer.readLen = request.readLen

\* A write answered with success is in the device, and a read returns what the
\* device held after it; a request that never came to a bus, or was told that its
\* segment is unknown, has changed no device.
TransfersAsAnswered ==
    [][\A r \in I2cRequests :
          /\ HandleI2cProxy(r) /\ response'.error = 0 /\ ~NothingToDo(r) =>
                /\ r.writeLen > 0 => device'[At(r)] = r.value
                /\ r.readLen > 0 => response'.fields.data = device'[At(r)]
                /\ \A d \in DOMAIN device \ {At(r)} : device'[d] = device[d]
          /\ HandleI2cProxy(r) /\ response'.error = i2cSegmentNotFound =>
                device' = device]_allVars

\* What the host sees of the buffer beyond the code.
SeenFields ==
    IF response.size > evStateRespSize THEN response.fields ELSE NoFields

\* No answer holds anything of an earlier one: data only where this request read
\* some, an address and a segment only where it named them.
NothingStale ==
    /\ SeenFields.data # None =>
          request.command = "i2c" /\ transfer # NoTransfer
                                  /\ transfer.readLen > 0
    /\ SeenFields.address # 0 =>
          request.command = "i2c" /\ request.address = SeenFields.address
    /\ SeenFields.segment # 0 =>
          request.command = "i2c" /\ request.segment = SeenFields.segment
=============================================================================

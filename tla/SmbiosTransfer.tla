--------------------------- MODULE SmbiosTransfer ---------------------------
(***************************************************************************)
(* The transfer of the SMBIOS tables: the BIOS sends begin, blobs of        *)
(* records and end to RomService (rom_service.cpp), SmbiosWriter            *)
(* (smbios_writer.cpp) collects the records and writes the file smbios2,    *)
(* and MdrBridge (mdr_bridge.cpp) tells smbios-mdr to read it.  The host    *)
(* repeats a command whose answer is late or lost and may reboot at any     *)
(* time; the daemon may die between any two steps.                          *)
(*                                                                          *)
(* A record is known by the boot and the step it was sent in and its        *)
(* number; what SmbiosWriter looks at is its size.                          *)
(***************************************************************************)
EXTENDS Sums

CONSTANTS
    Blobs,          \* what a boot sends: a sequence of blobs
    RecSize,        \* bytes of each record; 0 for one that is cut off
    MaxRecords,     \* maxRecordsPerBlob
    MaxData,        \* maxSmbiosDataSize
    VersionMod,     \* 2^8, the range of directoryVersion_
    MaxBoots,       \* bound: boots of the host
    MaxRetries,     \* bound: commands the host repeats
    MaxCrashes,     \* bound: deaths of the daemon
    DiskErrors,     \* may a file operation of finalize fail
    FlushErrors     \* may the write of a buffered file fail when it is closed

\* A blob has a declared record count and the numbers of its records.
Records == DOMAIN RecSize
Blob == [count : Nat, records : Seq(Records)]

ASSUME TransferAssumption ==
    /\ Blobs \in Seq(Blob)
    /\ RecSize \in Seq(Nat)
    /\ {MaxRecords, MaxData, MaxRetries, MaxCrashes} \subseteq Nat
    /\ MaxBoots \in Nat \ {0}
    /\ VersionMod \in Nat \ {0}
    /\ {DiskErrors, FlushErrors} \subseteq BOOLEAN

VARIABLES
    \* the host: its boot, its place in the script, whether it waits
    boot, step, waits, retries,
    \* the channel to and from the daemon
    request, answer,
    \* RomService's thread, SmbiosWriter's members
    pc, handling, records, directoryVersion, crashes,
    \* the directory /var/lib/smbios, and smbios-mdr
    temp, final, kicked, mdr

hostVars   == <<boot, step, waits, retries>>
chanVars   == <<request, answer>>
writerVars == <<records, directoryVersion>>
threadVars == <<pc, handling, crashes>>
fileVars   == <<temp, final>>
mdrVars    == <<kicked, mdr>>
vars == <<hostVars, chanVars, writerVars, threadVars, fileVars, mdrVars>>

\* Step 0 of a boot is begin, step End is end, those between send the blobs.
End   == Len(Blobs) + 1
Steps == 0..End
Nothing == [boot |-> 0, step |-> 0]
Absent  == [version |-> 0, records |-> <<>>, whole |-> FALSE]

Init ==
    /\ boot = 1 /\ step = 0 /\ waits = FALSE /\ retries = 0
    /\ request = Nothing /\ answer = Nothing
    /\ pc = "idle" /\ handling = Nothing /\ crashes = 0
    /\ records = <<>> /\ directoryVersion = 0
    /\ temp = Absent /\ final = Absent
    /\ kicked = FALSE /\ mdr = Absent

-----------------------------------------------------------------------------
(* The host (outside the repository)                                        *)

Command == [boot |-> boot, step |-> step]

HostSend ==
    /\ ~waits /\ request = Nothing
    /\ waits' = TRUE
    /\ request' = Command
    /\ UNCHANGED <<boot, step, retries, answer, writerVars, threadVars,
                   fileVars, mdrVars>>

HostRetry ==
    /\ waits /\ request = Nothing /\ retries < MaxRetries
    /\ retries' = retries + 1
    /\ request' = Command
    /\ UNCHANGED <<boot, step, waits, answer, writerVars, threadVars, fileVars,
                   mdrVars>>

\* An answer to another command is dropped; after the answer to end the boot
\* has no more to send.
HostReceive ==
    /\ answer # Nothing
    /\ answer' = Nothing
    /\ IF waits /\ answer = Command /\ step # End
       THEN step' = step + 1 /\ waits' = FALSE
       ELSE UNCHANGED <<step, waits>>
    /\ UNCHANGED <<boot, retries, request, writerVars, threadVars, fileVars,
                   mdrVars>>

HostReboot ==
    /\ boot < MaxBoots
    /\ boot' = boot + 1
    /\ step' = 0 /\ waits' = FALSE
    /\ UNCHANGED <<retries, chanVars, writerVars, threadVars, fileVars, mdrVars>>

-----------------------------------------------------------------------------
(* SmbiosWriter::addRecord                                                  *)

Sizes(rs) == [i \in 1..Len(rs) |-> RecSize[rs[i].number]]

Bytes(rs) == Total(Sizes(rs))

\* Mutant of Capped: the loop ends one record early.
CappedShort(b) == IF b.count > MaxRecords THEN MaxRecords - 1 ELSE b.count - 1

Capped(b) == IF b.count > MaxRecords THEN MaxRecords ELSE b.count

Labelled(b, k) ==
    [i \in 1..k |-> [boot |-> handling.boot, step |-> handling.step,
                     number |-> b.records[i]]]

\* The first k records of the blob are taken: the declared count, the end of
\* the packet, a cut-off record or the size limit ends the loop.
Taken(b, k) ==
    /\ k <= Capped(b) /\ k <= Len(b.records)
    /\ \A i \in 1..k :
          /\ RecSize[b.records[i]] > 0
          /\ Bytes(records \o Labelled(b, i)) <= MaxData

AddRecord(b) ==
    \E k \in 0..Len(b.records) :
        /\ Taken(b, k) /\ ~Taken(b, k + 1)
        /\ records' = records \o Labelled(b, k)

-----------------------------------------------------------------------------
(* RomService::handle                                                       *)

Handle ==
    /\ pc = "idle" /\ request # Nothing
    /\ handling' = request
    /\ request' = Nothing
    /\ pc' = "command"
    /\ UNCHANGED <<hostVars, answer, writerVars, crashes, fileVars, mdrVars>>

\* Mutant of HandleBegin: the records of the session before are kept.
HandleBeginKeeps ==
    /\ pc = "command" /\ handling.step = 0
    /\ pc' = "respond"
    /\ UNCHANGED <<hostVars, chanVars, writerVars, handling, crashes,
                   fileVars, mdrVars>>

HandleBegin ==
    /\ pc = "command" /\ handling.step = 0
    /\ records' = <<>>
    /\ pc' = "respond"
    /\ UNCHANGED <<hostVars, chanVars, directoryVersion, handling, crashes,
                   fileVars, mdrVars>>

HandleRecord ==
    /\ pc = "command" /\ handling.step \in 1..Len(Blobs)
    /\ AddRecord(Blobs[handling.step])
    /\ pc' = "respond"
    /\ UNCHANGED <<hostVars, chanVars, directoryVersion, handling, crashes,
                   fileVars, mdrVars>>

HandleEnd ==
    /\ pc = "command" /\ handling.step = End
    /\ pc' = "finalize"
    /\ UNCHANGED <<hostVars, chanVars, writerVars, handling, crashes,
                   fileVars, mdrVars>>

(* SmbiosWriter::finalize, whose result decides whether MdrBridge is called *)

Finalize(from, to) ==
    /\ pc = from /\ pc' = to
    /\ UNCHANGED <<hostVars, chanVars, records, handling, crashes, mdrVars>>

\* No records, or no directory.
FinalizeRefused ==
    /\ records = <<>> \/ DiskErrors
    /\ Finalize("finalize", "respond")
    /\ UNCHANGED <<directoryVersion, fileVars>>

\* Mutant of FinalizeOpen: the version does not wrap at 2^8.
FinalizeOpenWide ==
    /\ records # <<>>
    /\ directoryVersion' = directoryVersion + 1
    /\ temp' = [Absent EXCEPT !.version = directoryVersion']
    /\ Finalize("finalize", "write")
    /\ UNCHANGED final

\* Mutant of FinalizeOpen: the version is not counted.
FinalizeOpenSame ==
    /\ records # <<>>
    /\ temp' = [Absent EXCEPT !.version = 1]
    /\ Finalize("finalize", "write")
    /\ UNCHANGED <<directoryVersion, final>>

\* The version is counted before the temporary file is opened.
FinalizeOpen ==
    /\ records # <<>>
    /\ directoryVersion' = (directoryVersion + 1) % VersionMod
    /\ \/ /\ temp' = [Absent EXCEPT !.version = directoryVersion']
          /\ Finalize("finalize", "write")
       \/ DiskErrors /\ Finalize("finalize", "respond") /\ UNCHANGED temp
    /\ UNCHANGED final

\* Mutant of FinalizeWrite: renamed while the stream is still open.
FinalizeWriteRenames ==
    /\ temp' = [temp EXCEPT !.records = records]
    /\ Finalize("write", "rename")
    /\ UNCHANGED <<directoryVersion, final>>

\* out.write: an error it sees is reported; small data only reach the buffer.
FinalizeWrite ==
    /\ \/ temp' = [temp EXCEPT !.records = records] /\ Finalize("write", "close")
       \/ DiskErrors /\ Finalize("write", "respond") /\ UNCHANGED temp
    /\ UNCHANGED <<directoryVersion, final>>

\* The stream's destructor flushes the buffer; nobody looks at the result.
FinalizeClose ==
    /\ Finalize("close", "rename")
    /\ \E whole \in BOOLEAN :
          /\ ~whole => FlushErrors
          /\ temp' = [temp EXCEPT !.whole = whole]
    /\ UNCHANGED <<directoryVersion, final>>

\* Mutant of FinalizeRename: the error of rename is not looked at.
FinalizeRenameUnseen ==
    /\ \/ final' = temp /\ temp' = Absent
       \/ DiskErrors /\ UNCHANGED fileVars
    /\ Finalize("rename", "synchronize")
    /\ UNCHANGED directoryVersion

FinalizeRename ==
    /\ \/ /\ final' = temp /\ temp' = Absent
          /\ Finalize("rename", "synchronize")
       \/ DiskErrors /\ Finalize("rename", "respond") /\ UNCHANGED fileVars
    /\ UNCHANGED directoryVersion

\* MdrBridge::synchronize: a call without reply, or an error that is logged.
Synchronize ==
    /\ pc = "synchronize" /\ pc' = "respond"
    /\ kicked' \in {TRUE, kicked}
    /\ UNCHANGED <<hostVars, chanVars, writerVars, handling, crashes, fileVars,
                   mdr>>

\* The daemon writes the response; the driver may lose it (-EIO).
Respond ==
    /\ pc = "respond"
    /\ answer' \in {handling, answer}
    /\ pc' = "idle" /\ handling' = Nothing
    /\ UNCHANGED <<hostVars, request, writerVars, crashes, fileVars, mdrVars>>

Crash ==
    /\ pc # "down" /\ crashes < MaxCrashes
    /\ crashes' = crashes + 1
    /\ pc' = "down" /\ handling' = Nothing
    /\ records' = <<>> /\ directoryVersion' = 0
    /\ UNCHANGED <<hostVars, chanVars, fileVars, mdrVars>>

Restart ==
    /\ pc = "down"
    /\ pc' = "idle"
    /\ UNCHANGED <<hostVars, chanVars, writerVars, handling, crashes,
                   fileVars, mdrVars>>

\* smbios-mdr (outside the repository) reads the file it was told of.
MdrRead ==
    /\ kicked
    /\ kicked' = FALSE
    /\ mdr' = final
    /\ UNCHANGED <<hostVars, chanVars, writerVars, threadVars, fileVars>>

Next ==
    \/ HostSend \/ HostRetry \/ HostReceive \/ HostReboot
    \/ Handle \/ HandleBegin \/ HandleRecord \/ HandleEnd
    \/ FinalizeRefused \/ FinalizeOpen \/ FinalizeWrite \/ FinalizeClose
    \/ FinalizeRename \/ Synchronize \/ Respond
    \/ Crash \/ Restart \/ MdrRead

Spec == Init /\ [][Next]_vars

-----------------------------------------------------------------------------
(* Properties                                                               *)

Label == [boot : 1..MaxBoots, step : Steps, number : Records]
SmbiosFile == [version : 0..(VersionMod - 1), records : Seq(Label),
               whole : BOOLEAN]

\* Type correctness: what is accumulated, written and read are records sent in
\* some boot, and the directory version stays a byte.
TypeOK ==
    /\ {request, answer, handling} \subseteq [boot : 0..MaxBoots, step : Steps]
    /\ <<boot, step>> \in (1..MaxBoots) \X Steps
    /\ directoryVersion \in 0..(VersionMod - 1)
    /\ records \in Seq(Label)
    /\ {temp, final, mdr} \subseteq SmbiosFile

\* All of one boot, and no blob before one that was sent before it.
InOrder(rs) ==
    \A i, j \in DOMAIN rs :
        /\ rs[i].boot = rs[j].boot
        /\ i <= j => rs[i].step <= rs[j].step

\* The file smbios2 never mixes the records of two boots, and keeps the order
\* of their blobs, whatever is repeated, lost or cut off by a reboot or a
\* restart (handleBegin, addRecord, finalize).  A blob that is repeated is in it
\* as often as it was handled.
OneSession == InOrder(final.records) /\ InOrder(mdr.records)

Numbers(rs) == {rs[i].number : i \in DOMAIN rs}

\* The records that a blob carries: as many as it announces, up to the limit on
\* them, and none from a cut-off one on.
Carried(b) ==
    {b.records[j] : j \in {j \in DOMAIN b.records :
        j <= b.count /\ j <= MaxRecords
        /\ \A i \in 1..j : RecSize[b.records[i]] > 0}}

\* There is room left for any record, so that none was refused for its size.
RoomLeft(rs) == \A r \in Records : Bytes(rs) + RecSize[r] <= MaxData

\* Whatever was repeated or answered late, and whichever file operation failed
\* before: once finalize returns true for this boot, in a daemon that did not
\* die, the file holds every record that this boot's blobs carry.
NoRecordLost ==
    pc = "synchronize" /\ handling.boot = boot /\ crashes = 0
            /\ RoomLeft(records) =>
        /\ Numbers(final.records) = UNION {Carried(Blobs[i]) : i \in DOMAIN Blobs}
        /\ \A i \in DOMAIN final.records : final.records[i].boot = boot

\* smbios-mdr tells a new file from the one it knows by the directory version:
\* while the daemon lives, two consecutive files never have the same one, also
\* when attempts in between failed, as long as those are fewer than VersionMod - 1.
VersionChanges ==
    [][final' # final /\ final # Absent /\ crashes = 0
          => final'.version # final.version]_vars

\* smbios-mdr never reads a file whose data did not all reach the disk, also
\* when it reads while the daemon writes the next one or after a crash.
MdrSeesWhole == mdr = Absent \/ mdr.whole

\* finalize: "Returns true on success": when it returned true, the file holds
\* the records of the session, all of them written.
TrueMeansWritten ==
    pc = "synchronize" => final.records = records /\ final.whole
=============================================================================

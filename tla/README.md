# TLA+ models of OCP-Canopy-openBMC

OCP-Canopy-openBMC is an OpenBMC layer for HPE GXP baseboard management
controllers.  Most of it configures other projects.  What it implements itself
is the **CHIF daemon** (C++, `gxp-chif-service`) and a set of **Linux drivers**
that it carries as kernel patches.  The models here follow the path a BIOS
request takes: shared memory, doorbell interrupt, `/dev/chif24`, the daemon's
loop, its services, their files and buses, and the answer back; then the start of
the daemon, which reads the platform definition from the BIOS flash; and then the
drivers that power the host and tell others about it.

Short names below:

    CHIF/    src/meta-canopy/meta-hpe/meta-common/recipes-hpe/gxp-chif-service/gxp-chif-service/src/
    KERNEL/  src/meta-canopy/meta-hpe/meta-gxp/recipes-kernel/linux/linux-stable-6.18/

## 1. Inventory

| Component | State | Operations | Talks to |
|---|---|---|---|
| CHIF kernel driver (`KERNEL/0027`, `0041`) | shared control block, 2 FIFOs of entries, queue of received packets (`head`, `tail`, `size`, `max_size`), `waiting` flag, wait queue | probe, doorbell interrupt (`chif_irq_handle`, `consume_packet`, `get_occupied_entry`), `chif_open`, `chif_read`, `chif_write`, queue push and pop | host by shared memory and doorbells; daemon by read/write |
| Packet loop (`CHIF/chif_daemon.cpp`, `main.cpp`, `packet.hpp`) | `running_`, error counters | `run`, `stop` from a signal handler, dispatch by service, back-off | driver; services by call |
| EvStorage (`CHIF/ev_storage.cpp`) | `entries_`, file `evs.dat` | `load`, `set`, `del`, `deleteAll`, `save`, `getByIndex`, `getByName`, sizes | SmifService by call; file system |
| SmifService (`CHIF/smif_service.cpp`) | the map of segments to buses, fixed once at start; it answers in the response buffer the daemon shares among all services | EV commands, I2C proxy, PlatDef download (always "no more records"), fixed answers | EvStorage, `/dev/i2c-*` |
| RomService, SmbiosWriter, MdrBridge | `records_`, `directoryVersion_`, file `smbios2` | begin, record, blob, end; `addRecord`, `finalize`; `synchronize` | smbios-mdr over D-Bus |
| HealthService | none | answers every packet | loop |
| PlatDef extraction (`platdef_extract.cpp`, `uefi_fv.cpp`) | none that outlives it (reads the BIOS flash at start) | walk of firmware volumes and files, inflation of the table, its I2C records, scan of the multiplexers, map of segments to buses | MTD, sysfs; SmifService |
| FN2 system events (`KERNEL/0013`) | latched events, the line of PGOOD shared by two drivers | interrupt handler, acknowledgement | power controller, regulator |
| Host power controller (`KERNEL/0018`, 0020, 0024, 0025, 0042, 0047, 0082) | none of its own: the CPLD's registers are its state | power button, power-good interrupt with the acknowledgement of a shutdown and the re-arming of the gate, warm reset | CPLD registers, x86-power-control |
| CPLD host-power regulator (`KERNEL/0031`, 0048, 0064) | debounce work | interrupt, notifier (enable and disable do nothing) | fan, PECI, SB-TSI consumers |
| PECI controller (`KERNEL/0050`-`0063`) | device list, transfer in flight | transfer, rescan and removal on regulator events | regulator |
| Fan controller, PSU (`KERNEL/0016`, 0029-0037, 0059-0062, 0066) | PWM registers | set speed, shutdown and panic hooks | regulator |
| UMAC Ethernet (`KERNEL/0010`, 0038) | descriptor rings | transmit, NAPI, stop | network stack |
| VUART, GPIO, NVMEM, KCS, I2C passthrough, video, USB device (`KERNEL/0007`, 0013, 0014, 0022, 0072, 0075, 0076, 0078) | registers | framework callbacks | kernel frameworks |
| Device trees, kernel configuration, recipes, CI | - | - | - |

### What is hard, and what correctness means

**CHIF driver.**  One CPU, no lock: the interrupt handler preempts the reader
between any two memory accesses, and both update the same queue.  `chif_read`
tests, announces itself and sleeps in separate steps.  `chif_queue_pop` hands
out a pointer to a slot it has released.  The host runs beside both, gives up
requests, repeats them, and resets.  *Correct*: no request is lost in the queue,
repeated or overwritten; a reply is what its length says and answers something
the host asked; every entry comes back; a sleeping reader can be woken; the host
gets an answer in the end.

**Packet loop.**  A signal at any instruction; reads that fail for hours; answers
that the driver drops.  *Correct*: every packet that is due an answer gets its
own, in order; a lasting fault never becomes a busy loop; `stop()` ends the loop.

**EvStorage with the EV commands.**  Memory is changed before the file and the
file is copied over in place, so failures and deaths leave the two apart.
*Correct*: one entry per name; the file never exceeds what `load` accepts; what
the host was told is what it reads back, also after a restart.

**SMBIOS transfer.**  Commands are repeated, hosts reboot, daemons restart in the
middle, and smbios-mdr reads whenever it likes.  *Correct*: a file holds records
of one boot in order; the answer to end means all of them; smbios-mdr sees whole
files only; a new file has a new version.

**PlatDef extraction.**  Every offset, length and count comes from the flash, is
added in a 32-bit `size_t`, and steers a loop the daemon must get out of before it
serves; multiplexer channels register while the map is built, once for all.
*Correct*: the walk moves on and finds the file there is; a table within the limits
is unpacked; a segment leads to the bus its last entry names, or to none.

**I2C proxy.**  All services answer in one buffer that nobody clears.  *Correct*: a
transfer happens on the bus and at the address the host and the table name; success
means what it says; nothing of one answer is seen in another.

**Host power.**  The PGOOD thread and the caller of the power button write the same
CPLD registers without a lock; the level is read, not the edge; FN2's latches are
cleared together; PGOOD bounces; the BMC restarts anywhere while the CPLD and the
host go on.  *Correct*: a host that is off can be powered again, its shutdown is
acknowledged, it never runs with the wrong flash, and consumers hear a settled level
that is true in the end.

**PECI** (not modelled).  Devices come and go with the regulator's events while
transfers run.  Read and listed here only: the works of removal and rescan are two, so
that quick events may have them overlap (`0058`:47-74); a transfer that completes
after its timeout leaves its status to the next one (`0053`:145-188); an event between
the creation of the controller and the registration of the notifier is missed
(`0058`:91-106).

`PROJECT.json` lists the hazards line by line, each with the properties that
would catch it.

## 2. Modules

| Module | Models | About |
|---|---|---|
| `ChifDriver` | `gxp-chif.c` after `0027` and `0041`, and the host as its client | one action per memory access that an interrupt can separate |
| `ChifDriverProofs` | - | theorems `SleeperIsRegistered`, `TypeCorrect`; for a host that sends one request at a time `QueueStaysExact`, `RepliesIntact`, `RepliesMatch`, `ReadInOrder` |
| `ChifDaemon` | `chif_daemon.cpp`, `main.cpp`, the headers of `packet.hpp` | the loop, with `Stop` between any two steps |
| `ChifDaemonProofs` | - | theorems `TypeCorrect`, `NeverSpins`, `AnswersInOrder` |
| `Sums`, `SumsTheorems` | - | sums over sequences, added up from the front, and what they are after an append, a prefix, a replacement and a removal |
| `EvStore` | - | abstract: a map, what is recoverable of it, and when success may be answered |
| `EvStorage` | `ev_storage.cpp` | operations as steps, `save` piece by piece, crash and power loss |
| `SmifEv` | EV commands of `smif_service.cpp` | composes with `EvStorage` (EXTENDS): its storage calls *are* EvStorage's actions, conjoined with the reply and with what the host may now believe |
| `EvStorageProofs` | - | of `EvStorage`: `TypeCorrect`, `NamesUnique`, `LimitKept`, `Implements`; of `SmifEv`: `CommandsUseStore`, `WritesAreRead`, `WritesSurvive`, `SuccessDurable` |
| `SmbiosTransfer` | `rom_service.cpp`, `smbios_writer.cpp`, `mdr_bridge.cpp` | the transfer, `finalize` file operation by file operation |
| `SmbiosTransferProofs` | - | theorems `TypeCorrect`, `SessionsApart`, `NothingLost`, `WholeFilesOnly`, `SuccessIsWritten`, `VersionsAdvance`, `VersionsGrow` |
| `UefiFv` | `uefi_fv.cpp` | the search of a flash image for one file, volume by volume and file by file, in arithmetic modulo `Wrap` |
| `PlatDef` | `platdef_extract.cpp`, the start of `main.cpp` | EXTENDS `UefiFv`, whose search is its second step: open the flash, unpack, walk the records, scan the multiplexers, build the map |
| `I2cProxy` | I2C proxy and fixed commands of `smif_service.cpp` | EXTENDS `PlatDef`: a daemon serves with the map that it built, in a buffer shared by its answers |
| `UefiFvProofs` | - | theorems `TypeCorrect`, `SearchMovesOn`, `FindsTheFile` |
| `I2cProxyProofs` | - | of `PlatDef`: `WholeTablesUnpacked`, `MapIsFaithful`; of `I2cProxy`: `ProxyTypeCorrect`, `TransfersOnTheRightBus`, `NeverStale`, `AnswersTrue`, `DaemonSearches` |
| `HostPower` | `gxp-fn2`, `gxp-power-ctrl`, `gxp-cpld-regulator` as the patches leave them | two threads, a caller, a work and the interrupt handler against the CPLD |
| `HostPowerProofs` | - | its invariants and `Debounced` |
| `MC*` | - | constants for TLC |

### How state and actions correspond to the code

*ChifDriver.*  `size`, `head`, `tail`, `maxSize`, `slot` are `struct chif_queue`;
`waiting` and `queued` the flag and the wait-queue entry; `ccb`, `sq`, `rq` the
shared memory.  A packet is the number of the request in it, 0 for one that holds
none.  `irq` walks through `chif_irq_handle`; while it is not `"off"` the thread
is stopped (`Step`), as on the single Cortex-A9 of the GXP, and it begins only
between two steps of the thread.  `pc` walks through `chif_read` and
`chif_write`.  The pop's `size--` is two steps: the load into `reg` (`PopLoad`, which also tests for
empty, or `PopReload`, since the compiler may load again) and the store (`PopStore`).  `ReadCopy` is separate from the pop because the slot is already free.
The daemon's handling of a packet between read and write changes nothing here.

*EvStorage.*  `entries` is `entries_`; `file` is `evs.dat` as the kernel shows it
and `flash` what would survive a power loss.  A file is its header ("none",
"magic", "count") and the entries behind it.  `Mutate` changes the vector and
goes to `"save"`; `CopyOpen` truncates `evs.dat`, `CopyWrite` appends a piece,
`CopyFails` leaves it there.  The temporary file that is copied is never read
back, so it is no variable: failing to write it is `SaveRefused`.  `Room` keeps
the three different size checks of `set`.

*SmifEv.*  A request is its flags, how far its payload reaches, whether its name
is terminated, and its length class.  `known`, `unsure` and `synced` are what a
host that reads the replies may conclude: the value it was last told, the names a
refusal or a death left open, and whether memory and file agree.

*SmbiosTransfer.*  A record is labelled with the boot and the step it was sent in
and its number; the writer looks at its size.  `temp` and `final` are the files of
`/var/lib/smbios`, `whole` says whether the data reached the file.

*ChifDaemon.*  A packet is its size class, its service and its command; `stopAt`
remembers where the loop was when the signal came; `spins` counts failing reads
since the last pause.

*UefiFv.*  An image is the partial functions from offsets to what a program that reads
there finds: volume headers, extended headers, file headers, sections.  What lies
where nothing is defined reads as something of no interest.  `pc` and the two offsets
are those of the nested loops, and `Readable` with `failed` the stream's failbit,
which nobody clears.  `FvStep` is one iteration.

*PlatDef.*  A stored table is its sizes, whether its stream is intact, and its records;
`Decompressed` keeps every size check between the flash and the records and abstracts
the inflation.  `pos` walks in bytes, `next` in records.  `Register` (the kernel)
may come between `BuildMap` and all that precedes it; `scanned` remembers what the
scan saw.

*I2cProxy.*  `device` is the register of each device, with `OtherMaster` writing too.
`response` has the size that is sent, the code, and the fields behind the code,
which `SimpleResponse` leaves as they were.  `transfer` is what was done on a bus for
`request`.

*HostPower.*  `Acknowledging` and `Preparing` are the register writes of the PGOOD
thread and of the power button (or `probe`), one step each.  `latched` is FN2's event
register, `events` the value the handler has read; `told` and `event` are what
x86-power-control and the regulator's consumers heard last.  `missed` says that the
acknowledgement of PERST cleared an edge of PGOOD nobody had read.  `unacked` is the
CPLD's memory of a shutdown whose `soc_release` was not cycled.  The CPLD starts in
any state that fits a host that is off, or on; with the gate open the flash has been
selected, since only `Preparing` opens a gate the first time.

## 3. Runs

Twelve runs.  Eight show properties that hold; each of these properties has a
mutant of the code, kept in the module, that violates it.  Four check one
statement of the repository each that the code does not keep.

| Run | Shows |
|---|---|
| `chif_sync` | with a host that waits for each answer, two entries, two queue slots, three requests, oversized packets in between and one death of the daemon: queue indices agree, every request is delivered once and in order, replies are intact and belong to a request the host waits for - in every interleaving with the interrupt |
| `chif_faults` | one slot and one entry, requests repeated, one death of the daemon, one reset of the host: a sleeping reader is registered; every entry is handed back; every request is answered in the end |
| `chif_wakeup` (violation) | without retries a packet can stay in the queue beside a sleeping reader |
| `ev_storage` | two good names and a bad one, three values (the largest too large), a limit that fits two entries unless both are of the second size: invariants, and refinement of `EvStore` |
| `ev_atomic` (violation) | a death inside `save` leaves a part of the variables |
| `smif_ev` | every well-formed request and those with one thing wrong, failing saves, deaths, power losses: read-your-writes, in memory and on disk, and success only for what is on disk |
| `smbios` | two boots, repeated commands, late and lost answers, daemon deaths, failing file operations and the size limit: one session per file, whole files only, true means written, nothing lost, versions differ |
| `smbios_flush` (violation) | an error of the flush at close is unseen and the incomplete file is renamed |
| `daemon` | one packet of every kind, 35 failing reads, a failing write, a signal anywhere: answers, no busy loop, `stop()` works but for two windows |
| `daemon_stop` (violation) | those two windows |
| `i2c` | sound and broken flash images and tables, a read error anywhere, channels that register at any time, nine transfers: the search ends and finds the file, the table is unpacked, the map is faithful, transfers are done where and as they are answered, and the daemon comes to serve |
| `host_power` | edges of PGOOD that bounce, a PCIe reset, a restart of the BMC, the power button: the gate ends open, a shutdown is acknowledged, the flash is selected, the level that is told has settled and is true in the end |

### Bounds, and why they are enough

`ChifDriver`: the faults of a ring buffer appear when it is empty, when it is full
and when an index wraps; with one or two slots and three requests all of them
happen.  Two entries make the selection by sequence number matter.  `WaitTries` of 1
and 2 cover the entry that becomes free before, on and after the last poll.  One
crash and, in `chif_faults`, one reset may fall on every step, in either order.  What
the invariants of `chif_sync` say is proved for every value of these bounds.

`EvStorage`: the size checks differ between append, grow, shrink and delete; two
names and sizes 1 and 2 around a limit of 6 (header 1, overhead 1) reach every
branch on both sides of its comparison.  Nothing bounds the length of a
behaviour.  `SmifEv`: two names so that a refusal about one leaves the other known; the names are
interchangeable, and the run, which checks invariants only, uses that symmetry.

`SmbiosTransfer`: two blobs with five records in all, one count that announces more than
there is and one above `maxRecordsPerBlob`; two boots, so that a session can be
cut off; `VersionMod` = 4 lets the version wrap.  Sizes 1, 3, 1, and 0
for a record that ends its blob: under the limit
of 9 a transfer without repeats fits, and a blob that was repeated is cut while a later
one is not.  Two repeats and two deaths may fall on any command.

`ChifDaemon`: `maxConsecutiveErrors` = 2 and `errorBackoffMaxDelay` = 3 instead of
10 and 30 - both only compared with the counters - but 35 failing reads, past the
32nd back-off where 2^n leaves `int`.  The conversion instruction of the ARM
build saturates; `PowerOfTwo` does so too, and the mutant shows what x86 would do.

`I2cProxy`: images of one to four 64 KB blocks: what a volume, a file or an aligned
length can do to the next one happens with two of each.  The file lists have odd sizes
before the wanted file, the file stored raw, freeform, large, twice and not at all;
the fronts every kind of volume with a length that is a block or one byte more; the
broken images a length of zero, short or past the end, headers past the end, and a
section without contents.  The tables repeat segments in one record and in two, name
some behind the CPLD and some not, and break each check of the walk.  `MCWrap` is 16
blocks instead of 65536: it is only compared with sums of offsets, and the images
stay below it but for `Wrapping` and an extended header close to it.

`HostPower`: three edges are an off, an on and an off again, or a bounce, after each
start; one PCIe reset may clear the latch of any of them; one restart may fall on every
step.  `Debounce` = 1 is enough for the timer to start anew before, at and after its end;
the proofs hold for every value.

### Deadlock

`CHECK_DEADLOCK FALSE` stands in the runs of `ChifDriver`, `SmbiosTransfer`,
`ChifDaemon` and `HostPower`: their hosts may have nothing more to ask once the bounds
are used up, the daemon really ends after `stop()`, and a host that stays on leaves the
power drivers nothing to do.  EvStorage, SmifEv and I2cProxy can always go on, and
their runs check it.

### Fairness

* `SF(ProbeQueue)`, `SF(Thread)`: a process runs whenever the CPU is not in the
  interrupt handler; the handler may take it away again and again, so weak
  fairness would say nothing.  `WF(Irq)`: a pending handler runs.
* The host (external): it starts, rings after posting, takes replies, offers its
  receive entry again and reclaims its entries (weak); its timeout repeats a
  request that has no answer whenever an entry is free (strong).  `Answered` and
  `EntriesReturned` rest on this; `Notified` has no retries, which is its point.
* `WF(StartupStep)` in `I2cProxy`: `main` runs on, and nothing can disable the step it is
  at.  `Serves` rests on it.
* `HostPower`: weak fairness of the interrupt handler, of the PGOOD thread, of a call of
  `set` or `probe` that is under way, and of the regulator's thread, timer and work: the
  kernel runs what is runnable.  None for the hardware, the button and the daemon:
  `TruthTold` must hold beside a host that does nothing.
* `WF` of the daemon's own steps in `ChifDaemon`.  Failing reads and writes and
  the host's packets are not fair: nothing forces a fault, or a next packet.

### Conditions worth knowing

* `chif_sync` is the host that calls and waits, as a BIOS does: `OneAtATime` in
  `ChifDriverProofs` says that it has one request outstanding, repeats none, posts no
  empty packets, and is not reset.  What the interrupt picks between two of the reader's
  accesses are then packets that do not fit.  The daemon may die any number of times.
  The driver depends on such a host; TLC shows what each condition is for.  With
  `Outstanding = 2`, `QueueExact` is violated: a packet pushed between the load and
  the store of the pop's `size--` is counted out again, and stays in the slots of a
  queue whose `size` says 0; and so are `ReplyIntact` and `DeliveredInOrder`, the latter
  also because `get_occupied_entry` may take the later of two requests first.  Retries,
  empty packets, or a reset of the host violate all four properties, `ReplyMatches`
  too: what is left of a request given up is answered as if it were the next one's.
  `chif_faults`, where retries push while the reader pops, therefore checks what
  survives this: every request is answered in the end.
* `NoRecordLost` is stated without daemon deaths: a daemon that restarts in the
  middle of a transfer writes the rest only, and the file is then incomplete.
* `OneSession` allows a blob that the host repeats to be in the file twice: that
  is what `addRecord` does with it.
* `NoRecordLost` holds while there is room for a whole record (`RoomLeft`).
* `VersionChanges` holds while the daemon lives; the version starts again at 0 with it.
  It is counted up by attempts that fail too, so that as many failures in a row as the
  byte has values lead back to the same version.  It is proved without disk errors for
  any number of transfers, and with them while `MaxBoots + MaxRetries <= VersionMod`.
* `MdrSeesWhole` and `TrueMeansWritten` are checked, and proved, where closing a file
  loses nothing (`FlushErrors`); `smbios_flush` is the other case.
* `SuccessIsDurable` leaves out a set of length zero: section 4.
* `MovesOn` and `Serves` are stated for images whose sums do not wrap around
  (`NoWrap`); the run has one that does.
* `FindsFile` is about a well-formed image: every volume is as long as it says and in
  the image, its files lie in it one behind the other, and an extended header ends
  within its volume.  The last condition came from the proof: the length of an extended
  header is taken from the flash as 32 bits and added without a check, and one that makes
  the sum wrap leads the walk to files in front of the volume's own.
* `MapFaithful` is about a segment whose channel was there when the map was built.  A
  channel that comes later leaves its segment unknown until the daemon restarts.
* `RightBus` claims the address below 512: from there on the code cuts it to 8 bits.
* The properties of `HostPower` except an edge that the acknowledgement of PERST has
  cleared (`missed`) before the handler read it.

## 4. Where code and text disagree

1. `chif_wakeup`: `chif_read` tests the queue, registers, announces itself and
   calls `schedule()` without testing again.  A packet queued in between, with its
   doorbell handled, notifies nobody until the next doorbell.
2. `ev_atomic`: `ev_storage.hpp:35` promises an atomic write by rename; `save` uses
   `copy_file(overwrite_existing)`, which truncates `evs.dat` first.
3. `smbios_flush`: `finalize` tests the stream before it is closed.
4. `daemon_stop`: `run()` sets `running_` after the signal handlers are installed,
   and a signal between the test of `running_` and the system call does not
   interrupt the read.

Seen while modelling and not run: `rom_service.hpp:29` says that the response to
end precedes `finalize`; `handleEnd` calls `finalize` and `synchronize` first.  At
the size limit `addRecord` logs "discarding further records" and ends the blob, but
smaller records of later blobs are still taken.  A set of length zero answers success
whatever `del` returned (`smif_service.cpp:181`).  A volume length close to 2^32 makes
the offset wrap and the scan of the flash loop for ever, so that the daemon never
serves.  The I2C proxy reads `errno` after it has closed the bus, and cuts the address
to 8 bits.  The acknowledgement of the PERST event writes all latches of FN2
(`0013`:541-548, 597-604), so that an edge of PGOOD between the reading and that write is
lost.  The PGOOD thread reads the level once and then writes: its acknowledgement can
hit a host that has come up again in between.  The regulator may notify the same
level twice in a row.

## 5. Proofs

All theorems are checked by TLAPS (SMT, Zenon, and LS4 for the temporal steps).

* `EvStorageProofs!TypeCorrect`, `NamesUnique` (from `Invariance`).  Assumes
  `EvAssumption` only (sizes are naturals, `NoValue` is no value).  `UniqueNames` is
  not inductive alone: while a copy is under way the file grows out of `entries`,
  so its uniqueness follows only if what is written so far is a prefix of
  `entries`.  The invariant is `IInv == TypeOK /\ UniqueNames /\ CopyPrefix`.  `Set`
  appends only when no entry has the name; `Del` removes one entry and renumbers the
  rest (a lemma); `load` keeps a prefix.
* `EvStorageProofs!LimitKept`: `Spec => []WithinLimit`.  `SumsTheorems` carries it: the
  size of a list is the recursive function `Partial`, and what is needed is what becomes
  of a sum when an element is appended, replaced or removed, or when only a prefix is
  kept.  Induction is taken over the set of the indices for which a statement fails:
  were it not empty it would have a least member, by the well-foundedness of `<` on the
  naturals (`WFMin`), which takes sets only and no operator as parameter.  The
  inductive invariant (`WithinInv`) bounds the vector and the bodies of both files; the
  three checks of `set` (append, grow, shrink) then each bound the sum that results.
* `EvStorageProofs!Implements`: `Spec => ImplementsEvStore`, for all names, values and
  sizes.  One lemma per action of EvStorage names the action of EvStore it maps to, or a
  stutter: `CopyOpen` and `CopyWrite` are `Persist` of a part of the map (`CopyPrefix`),
  `CopyDone` is `Ack`, for which the file must be the whole map.  `Load` must not drop
  entries, which `LimitKept` gives.
* `EvStorageProofs!CommandsUseStore`: every step of `SmifEv` is a step of EvStorage or
  leaves the storage alone, so that EvStorage's theorems hold in the composition.  On them
  rest `WritesAreRead`, `WritesSurvive` and `SuccessDurable`.  `HostInv` says what the
  host may conclude at each step of a request: what it knows is in memory, and, when it
  knows memory and file to agree, what a daemon would load; a failed or interrupted
  `save` moves the name to `unsure`, and a power loss is allowed to take back only what
  was not synced.
* `SmbiosTransferProofs!SessionsApart`: `Spec => []OneSession` for all blobs and sizes
  and any number of reboots, repeats and daemon deaths, from `TransferAssumption`.
  `OneSession` speaks of the files; that no blob of another boot is among the records
  they are made of is an argument about the channel.  The invariant has three parts:
  `Channel` (commands are handled in the order they were sent, and once begin is
  answered all that is under way is of this boot), `Session` (the records collected are
  of the boot of the next command to be handled, and not of a later step) and `Files`.
  With them goes `TypeCorrect`.
* `SmbiosTransferProofs!NothingLost`: `OneSession` says that nothing foreign is in the
  file, this one that nothing is missing.  It adds to `Channel` that commands of this boot
  come in order and that no step is passed over (`Fifo`), that the records of each blob
  already answered are all among the collected ones unless there was no room
  (`Complete`), and that the file gets exactly what was collected (`Copied`).
* `SmbiosTransferProofs!VersionsAdvance`: without disk errors the file has the
  version that was counted last, or the one before it while the next is written
  (`Consecutive`), so that consecutive files differ for any number of transfers.
  `VersionsGrow`: with disk errors, each attempt has its command to end, one of each boot
  and the repeated ones, so that the version only grows (`Counted`), but for the very
  last attempt, which may take it back to 0 (`Exhausted`).
* `SmbiosTransferProofs!WholeFilesOnly` and `SuccessIsWritten`, both under
  `~FlushErrors`: the invariant `Written` says of the temporary file, at each step of
  `finalize`, how much of the records it holds and that it is whole once its stream was
  found good; only then is it renamed.
* `ChifDriverProofs!SleeperIsRegistered`: in every interleaving with the interrupt, the
  host, crashes and resets, and for every size of queue and ring, a reader that is not
  runnable is on the wait queue with its flag set.  The invariant `SleepInv` follows
  `chif_read` through its announcement and says what has been done by each step.
  `TypeCorrect` needs more than the types: that what a pop has loaded is not zero and
  that the size was not lowered behind it (`Loaded`), that a queue without slots is
  empty (`QueueT`), and `SleepInv`, by which no `chif_read` runs before the queue is set
  up.
* `ChifDriverProofs!QueueStaysExact`, `RepliesIntact`, `RepliesMatch` and `ReadInOrder`,
  under `OneAtATime`, for every ring, queue and number of deaths of the daemon.  The
  request is a token: the invariant `Token` says that it is in exactly one place (`Place`:
  in the ring, in the queue, in a slot that the pop has given up, in the daemon, in the
  receive entry, or gone) and what each of these places then holds.  All four
  properties are read off it; that the queue can hold one packet at most (`Indices`) is
  what makes the lost update of `size--` impossible.
* `ChifDaemonProofs!AnswersInOrder`: for any script, the answers and the failed writes
  together are as many as the packets that were due one and are done with; each answer is
  that of one of these packets, and their sequence numbers rise (`Answered`).  A packet
  raises the cardinality by one exactly when it is due an answer.
* `ChifDaemonProofs!NeverSpins`: `spins` alone says nothing of the next read; the
  invariant `Spinning` bounds it by `consecutiveErrors`, which a pause does not reset,
  and says that the loop is at its back-off as soon as the limit is reached.  That the
  pause is never zero is arithmetic on the saturating power.
* `HostPowerProofs`: the properties are about the time when nothing is left to do; the
  invariant says who still has to do it.  `Gate`: while the gate is not open, the PGOOD
  thread is in its sequence, or an edge is on its way to it (`Pending`), or the caller is
  in its own; and what the thread closes it opens again after the caller could have been
  interleaved.  `Acked` says the same of a shutdown.  `Prepared`: before the flash is
  selected the gate is closed and only `probe` can open it.  `Timed`: timer and quiet
  time add up to `Debounce`.
* `UefiFvProofs!SearchMovesOn`: while files are walked, the offset leaves room for a
  header below `Wrap` (`Room`), or aligning it would lead back to 0.  The rest is
  arithmetic of the strides and of the alignment modulo `Wrap`.
* `UefiFvProofs!FindsTheFile`: the search returns the *first* file of the name.  The
  invariant says, at each offset, that no file of that name was passed (`Ahead`: each is
  in a volume still to come, or at or behind the place in the present one).  That the
  stride leads to the next file of a well-formed volume, and the scan to the next volume,
  needs the bounds of the layout, none of which wraps.
* `I2cProxyProofs!MapIsFaithful`: the records are walked once and a later one replaces
  an earlier one of its segment.  The invariant `Walked` ties the walk's position in bytes
  to the number of records taken (by `SumsTheorems`), and says that the segments known are
  those these records list, each as in its last entry.  `Built` follows it through the
  map.
* `I2cProxyProofs!DaemonSearches`: the daemon's search, with all that `main` does
  around it, implements `FvSpec`; the theorems about the search hold of the daemon.
* `I2cProxyProofs`: `TransfersOnTheRightBus` relates an ioctl to the records in the
  flash.  Between them are the unpacked table (`Unpacked`), the segments of the walk,
  each of which is one of the table's (`Traced`), and the map, whose buses are those of
  channels the kernel registered (`Mapped`); each holds from the step of `main` on
  that makes it.  The last entry that names a segment is the maximum of a finite set of
  indices; that there is one is proved by the well-foundedness of `<`.  `NeverStale`
  needs that only the long answers reach the fields, and all of them clear these.

The assumptions are those of the modules' `ASSUME`s, which say what the constants are,
and where a theorem names them: `~FlushErrors` (`WholeFilesOnly`, `SuccessIsWritten`),
`~DiskErrors` with `VersionMod > 1` (`VersionsAdvance`), `MaxBoots + MaxRetries <=
VersionMod` (`VersionsGrow`), and `OneAtATime` (the last four of `ChifDriverProofs`).  Each
is satisfied by the constants of the run that checks the property, but for `~DiskErrors`:
that run has disk errors and the other of the two theorems applies to it.

Every invariant and every action property of a passing run is thus a theorem.  Only
model-checked are the five properties under fairness, `EntriesReturned`, `Answered`,
`StopsUnlessMissed`, `Serves` and `TruthTold`, because liveness and ENABLED are out of the
prover's reach, and the four statements that the code does not keep.

## 6. Not modelled

* D-Bus, the inflation of LZMA streams, the texts of sysfs, and the ioctl behind a
  transfer: I/O or libraries, abstracted to what they return.
* In the CHIF driver: the header dump in sysfs, failing probes, module removal, and the
  channels other than 24.
* The contents of the SMBIOS entry point, its checksum included.
* In the power controller: the reset-out line, which writes a register nobody else reads,
  the eSPI reset, the server id, and probe failures.  Of `0013`: the GPIO lines besides
  PGOOD and PERST, XREG and CSM.
* PECI: its order of steps is made by the driver core, work queues and the PECI core of
  the kernel, which are not in the repository; what was seen is in section 1.
* Fans and power supplies: register I/O; the speed on shutdown and panic is one write.
* UMAC Ethernet: which bits of a descriptor the hardware sets when is documented
  nowhere in the repository.
* VUART, GPIO, NVMEM, KCS, I2C passthrough, video, USB device: register I/O inside kernel
  frameworks that are not in the repository.
* Recipes, device trees, CI: no behaviour.

## 7. Plan

1. Done: `EvStorage` with `EvStore` and their refinement proof; `ChifDriver`; `SmifEv`;
   `SmbiosTransfer`; `ChifDaemon`; `UefiFv`, `PlatDef` and `I2cProxy`; `HostPower`; the
   theorems of section 5.
2. An abstract specification of `/dev/chif24` under `OneAtATime`, a channel with one
   place, and the proof that `ChifDriver` implements it; the daemon's loop could then be
   composed with the channel instead of the driver.
3. `PeciDevices`: rescan and removal by the regulator's events of `HostPower`, serialised
   per controller (`0063`), against transfers with timeouts, once the order that the
   driver core gives them can be stated from the code that relies on it.

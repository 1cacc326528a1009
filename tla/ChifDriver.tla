----------------------------- MODULE ChifDriver -----------------------------
(***************************************************************************)
(* The CHIF kernel driver (gxp-chif.c, added by kernel patch 0027 and       *)
(* amended by 0041) between its two clients: the host, which shares the     *)
(* FIFO memory with it and rings its doorbell, and the chif daemon, which   *)
(* calls read and write on /dev/chif24 in turn.                             *)
(*                                                                          *)
(* The BMC has one CPU.  The doorbell interrupt preempts the daemon's       *)
(* system call between any two of its memory accesses and then runs to its  *)
(* end before the call goes on; the host runs beside both.  The driver      *)
(* takes no lock, so every read-modify-write of the shared queue is two     *)
(* steps on the reader's side.                                              *)
(*                                                                          *)
(* A packet is the number of the request it carries (0 for a packet that    *)
(* carries none); its length is one of "empty", "fits" and "over".          *)
(***************************************************************************)
EXTENDS Integers, FiniteSets

CONSTANTS
    MaxReq,         \* bound: requests the host issues
    Outstanding,    \* requests the host lets wait for an answer at once
    NumDesc,        \* SHARED_MEM_CHIF_DESCRIPTOR_NUM
    QSize,          \* SHARED_MEM_CHIF_QUEUE_SIZE
    WaitTries,      \* polls of chif_write for a free receive entry
    HostSeqs,       \* sequence numbers the host writes into send entries
    Retries,        \* may the host repeat a request it has no answer to
    NoiseLens,      \* lengths of the packets the host posts that hold no request
    MaxCrashes,     \* bound: daemon crashes
    MaxResets       \* bound: host resets

ASSUME ChifAssumption ==
    /\ MaxReq \in Nat
    /\ Outstanding \in Nat
    /\ NumDesc \in Nat \ {0}
    /\ QSize \in Nat \ {0}
    /\ WaitTries \in Nat \ {0}
    /\ HostSeqs \subseteq Nat
    /\ Retries \in BOOLEAN
    /\ NoiseLens \subseteq {"empty", "over"}
    /\ MaxCrashes \in Nat
    /\ MaxResets \in Nat

VARIABLES
    \* the host
    sent, out, ring, up, resets,
    \* shared memory: control block, send entries, receive entry, doorbell
    ccb, sq, rq, doorbell,
    \* chif_drvdata: chif24_queue, waiting flag, wait queue
    probed, size, head, tail, maxSize, slot, waiting, queued,
    \* chif_irq_handle
    irq, entry,
    \* the daemon's thread inside chif_read and chif_write
    pc, task, reg, at, buf, timeout, crashes

hostVars   == <<sent, out, ring, up, resets>>
shmVars    == <<ccb, sq, rq, doorbell>>
queueVars  == <<probed, size, head, tail, maxSize, slot>>
waitVars   == <<waiting, queued>>
irqVars    == <<irq, entry>>
threadVars == <<pc, task, reg, at, buf, timeout, crashes>>
vars == <<hostVars, shmVars, queueVars, waitVars, irqVars, threadVars>>

Requests == 1..MaxReq
Packets  == 0..MaxReq
Entries  == 0..(NumDesc - 1)
Slots    == 0..(QSize - 1)

FreeEntry == [occupied |-> FALSE, consumed |-> FALSE, pkt |-> 0,
              len |-> "empty", seq |-> 0]
NoReply   == [occupied |-> FALSE, consumed |-> FALSE, qwords |-> 0, data |-> 0]
ZeroCcb   == [sqGo |-> FALSE, sqActive |-> FALSE,
              rqGo |-> FALSE, rqActive |-> FALSE]

\* chif_probe has set SMEMCFG and requested the interrupt; the shared memory
\* and the queue (max_size included) are still zero.
Init ==
    /\ sent = 0 /\ out = {} /\ ring = FALSE /\ up = FALSE /\ resets = 0
    /\ ccb = ZeroCcb /\ doorbell = FALSE
    /\ sq = [i \in Entries |-> FreeEntry]
    /\ rq = NoReply
    /\ probed = FALSE /\ size = 0 /\ head = 0 /\ tail = 0 /\ maxSize = 0
    /\ slot = [i \in Slots |-> 0]
    /\ waiting = FALSE /\ queued = FALSE
    /\ irq = "off" /\ entry = 0
    /\ pc = "closed" /\ task = "running" /\ reg = 0 /\ at = 0 /\ buf = 0
    /\ timeout = 0 /\ crashes = 0

-----------------------------------------------------------------------------
(* The host (outside the repository: what the driver relies on it to do).   *)

\* The BIOS sets the GO bits and offers its receive entry.
HostStart ==
    /\ ~up
    /\ up' = TRUE
    /\ ccb' = [ccb EXCEPT !.sqGo = TRUE, !.rqGo = TRUE]
    /\ rq' = [NoReply EXCEPT !.occupied = TRUE]
    /\ UNCHANGED <<sent, out, ring, resets, sq, doorbell, queueVars, waitVars,
                   irqVars, threadVars>>

\* A host reset forgets the requests it waits for and clears its FIFOs.
HostReset ==
    /\ up /\ resets < MaxResets
    /\ resets' = resets + 1
    /\ up' = FALSE /\ out' = {} /\ ring' = FALSE
    /\ ccb' = ZeroCcb
    /\ sq' = [i \in Entries |-> FreeEntry]
    /\ rq' = NoReply
    /\ UNCHANGED <<sent, doorbell, queueVars, waitVars, irqVars, threadVars>>

Post(i, p, l) ==
    /\ up /\ ~ring /\ ~sq[i].occupied
    /\ \E s \in HostSeqs :
          sq' = [sq EXCEPT ![i] = [occupied |-> TRUE, consumed |-> FALSE,
                                   pkt |-> p, len |-> l, seq |-> s]]
    /\ ring' = TRUE
    /\ UNCHANGED <<up, resets, ccb, rq, doorbell, queueVars, waitVars, irqVars,
                   threadVars>>

HostSend(i) ==
    /\ sent < MaxReq /\ Cardinality(out) < Outstanding
    /\ sent' = sent + 1
    /\ out' = out \cup {sent + 1}
    /\ Post(i, sent + 1, "fits")

\* The host's timeout expired, which takes longer than a run of the interrupt
\* handler: it posts the request again.
HostRetry(i) ==
    /\ Retries /\ irq = "off" /\ ~doorbell
    /\ \E r \in out : Post(i, r, "fits")
    /\ UNCHANGED <<sent, out>>

HostNoise(i) ==
    /\ \E l \in NoiseLens : Post(i, 0, l)
    /\ UNCHANGED <<sent, out>>

HostRing ==
    /\ ring
    /\ ring' = FALSE
    /\ doorbell' = TRUE
    /\ UNCHANGED <<sent, out, up, resets, ccb, sq, rq, queueVars, waitVars,
                   irqVars, threadVars>>

\* The host takes back a send entry the driver has consumed.
HostReclaim(i) ==
    /\ sq[i].occupied /\ sq[i].consumed
    /\ sq' = [sq EXCEPT ![i] = FreeEntry]
    /\ UNCHANGED <<hostVars, ccb, rq, doorbell, queueVars, waitVars, irqVars,
                   threadVars>>

\* The host dequeues a reply; one to a request it no longer waits for is
\* dropped.
HostTakeReply ==
    /\ rq.occupied /\ rq.consumed
    /\ out' = out \ {rq.data}
    /\ rq' = NoReply
    /\ UNCHANGED <<sent, ring, up, resets, ccb, sq, doorbell, queueVars,
                   waitVars, irqVars, threadVars>>

HostOffer ==
    /\ up /\ ~rq.occupied
    /\ rq' = [rq EXCEPT !.occupied = TRUE]
    /\ UNCHANGED <<hostVars, ccb, sq, doorbell, queueVars, waitVars, irqVars,
                   threadVars>>

-----------------------------------------------------------------------------
(* chif_probe, after the interrupt was requested                            *)

\* init_waitqueue_head, waiting = false and the memset of the queue: an
\* interrupt taken before found max_size = 0.
ProbeQueue ==
    /\ ~probed /\ irq = "off"
    /\ probed' = TRUE
    /\ size' = 0 /\ head' = 0 /\ tail' = 0 /\ maxSize' = QSize
    /\ slot' = [i \in Slots |-> 0]
    /\ waiting' = FALSE /\ queued' = FALSE
    /\ UNCHANGED <<hostVars, shmVars, irqVars, threadVars>>

-----------------------------------------------------------------------------
(* chif_irq_handle for channel 24                                           *)

\* Reads REG_INDOOR.
IrqEnter ==
    /\ irq = "off" /\ doorbell
    /\ irq' = "ack"
    /\ UNCHANGED <<hostVars, shmVars, queueVars, waitVars, entry,
                   threadVars>>

\* Writes the value back, which clears the bit.
IrqAck ==
    /\ irq = "ack"
    /\ doorbell' = FALSE
    /\ irq' = "active"
    /\ UNCHANGED <<hostVars, ccb, sq, rq, queueVars, waitVars, entry,
                   threadVars>>

\* active_ccb
ActiveCcb ==
    /\ irq = "active"
    /\ ccb' = [ccb EXCEPT !.sqActive = ccb.sqGo]
    /\ irq' = IF ccb.sqGo THEN "empties" ELSE "off"
    /\ UNCHANGED <<hostVars, sq, rq, doorbell, queueVars, waitVars,
                   entry, threadVars>>

Ready(i) == sq[i].occupied /\ ~sq[i].consumed

\* consume_packet: empty packets are consumed; any other lets the loop run.
ConsumeEmpties ==
    /\ irq = "empties"
    /\ sq' = [i \in Entries |->
                 IF Ready(i) /\ sq[i].len = "empty"
                 THEN [sq[i] EXCEPT !.consumed = TRUE]
                 ELSE sq[i]]
    /\ irq' = IF \E i \in Entries : Ready(i) /\ sq[i].len # "empty"
              THEN "pick" ELSE "off"
    /\ UNCHANGED <<hostVars, ccb, rq, doorbell, queueVars, waitVars, entry,
                   threadVars>>

\* get_occupied_entry: fifo_seq starts at 0, so only entries numbered 0 can be
\* chosen, and among those the one with the highest index.  It does not look at
\* the length: an empty packet posted since ConsumeEmpties is queued.
Eligible == {i \in Entries : Ready(i) /\ sq[i].seq = 0}

Chosen(i) == i \in Eligible /\ \A j \in Eligible : j <= i

Pushable(i) == size # maxSize /\ sq[i].len # "over"

\* Mutant of Push: the tail does not wrap.
PushNoWrap(i) ==
    IF Pushable(i)
    THEN /\ slot' = [slot EXCEPT ![tail] = sq[i].pkt]
         /\ size' = size + 1
         /\ tail' = tail + 1
         /\ UNCHANGED <<probed, head, maxSize>>
    ELSE UNCHANGED queueVars

\* Mutant of Push: an oversized packet is not stored, but counted.
PushCountsOversized(i) ==
    IF size # maxSize
    THEN /\ slot' = IF Pushable(i) THEN [slot EXCEPT ![tail] = sq[i].pkt] ELSE slot
         /\ size' = size + 1
         /\ tail' = IF ~Pushable(i) THEN tail
                    ELSE IF tail + 1 >= maxSize THEN 0 ELSE tail + 1
         /\ UNCHANGED <<probed, head, maxSize>>
    ELSE UNCHANGED queueVars

\* chif_queue_push; a full queue or an oversized packet leaves it unchanged.
Push(i) ==
    IF Pushable(i)
    THEN /\ slot' = [slot EXCEPT ![tail] = sq[i].pkt]
         /\ size' = size + 1
         /\ tail' = IF tail + 1 >= maxSize THEN 0 ELSE tail + 1
         /\ UNCHANGED <<probed, head, maxSize>>
    ELSE UNCHANGED queueVars

\* Mutant of PickPacket: when the push fails the loop ends, the entry stays.
PickPacketStopsWhenFull ==
    /\ irq = "pick"
    /\ \E i \in Entries :
          /\ Chosen(i)
          /\ Push(i)
          /\ entry' = i
          /\ irq' = IF Pushable(i) THEN "consume" ELSE "off"
    /\ UNCHANGED <<hostVars, shmVars, waitVars, threadVars>>

PickPacket ==
    /\ irq = "pick"
    /\ \E i \in Entries :
          /\ Chosen(i)
          /\ Push(i)
          /\ entry' = i
          /\ irq' = "consume"
    /\ UNCHANGED <<hostVars, shmVars, waitVars, threadVars>>

\* The entry is handed back to the host whether the push succeeded or not.
MarkConsumed ==
    /\ irq = "consume"
    /\ sq' = [sq EXCEPT ![entry].consumed = TRUE]
    /\ irq' = "pick"
    /\ UNCHANGED <<hostVars, ccb, rq, doorbell, queueVars, waitVars,
                   entry, threadVars>>

\* wake_up_interruptible, only if the reader has announced itself
IrqWake ==
    /\ irq = "pick" /\ Eligible = {}
    /\ task' = IF waiting /\ queued /\ task = "interruptible"
               THEN "running" ELSE task
    /\ irq' = "off"
    /\ UNCHANGED <<hostVars, shmVars, queueVars, waitVars, entry, pc,
                   reg, at, buf, timeout, crashes>>

Irq ==
    \/ IrqEnter \/ IrqAck \/ ActiveCcb \/ ConsumeEmpties
    \/ PickPacket \/ MarkConsumed \/ IrqWake

-----------------------------------------------------------------------------
(* The daemon's thread: open, then read and write in turn.  It runs only    *)
(* while no interrupt handler does.                                         *)

Step(from, to) == irq = "off" /\ pc = from /\ pc' = to

\* chif_open: the queue is reset only if the host has not set GO.
Open ==
    /\ probed
    /\ Step("closed", "pop")
    /\ IF ccb.sqGo
       THEN UNCHANGED queueVars
       ELSE /\ size' = 0 /\ head' = 0 /\ tail' = 0 /\ maxSize' = QSize
            /\ slot' = [i \in Slots |-> 0]
            /\ UNCHANGED probed
    /\ UNCHANGED <<hostVars, shmVars, waitVars, irqVars, task, reg, at, buf,
                   timeout, crashes>>

\* chif_queue_pop, the test of q->size
PopLoad(from, ifEmpty) ==
    /\ Step(from, IF size = 0 THEN ifEmpty ELSE "take")
    /\ reg' = size
    /\ UNCHANGED <<hostVars, shmVars, queueVars, waitVars, irqVars, task, at,
                   buf, timeout, crashes>>

ReadPop  == PopLoad("pop", "enqueue")
ReadRepop == PopLoad("repop", "prepare")

\* The compiler may load q->size again for q->size--.
PopReload ==
    /\ Step("take", "take")
    /\ reg' = size
    /\ UNCHANGED <<hostVars, shmVars, queueVars, waitVars, irqVars, task, at,
                   buf, timeout, crashes>>

\* Mutant of PopStore: head is not advanced.
PopStoreKeepsHead ==
    /\ Step("take", "leave")
    /\ at' = head
    /\ size' = reg - 1
    /\ UNCHANGED <<hostVars, shmVars, probed, head, tail, maxSize, slot,
                   waitVars, irqVars, task, reg, buf, timeout, crashes>>

\* chif_queue_pop, the store of q->size-- and the advance of q->head; what is
\* returned is a pointer into the slot.
PopStore ==
    /\ Step("take", "leave")
    /\ at' = head
    /\ size' = reg - 1
    /\ head' = IF head + 1 >= maxSize THEN 0 ELSE head + 1
    /\ UNCHANGED <<hostVars, shmVars, probed, tail, maxSize, slot, waitVars,
                   irqVars, task, reg, buf, timeout, crashes>>

\* Mutant of ReadEnqueue: add_wait_queue is forgotten.
ReadEnqueueForgotten ==
    /\ Step("enqueue", "announce")
    /\ UNCHANGED <<hostVars, shmVars, queueVars, waitVars, irqVars, task, reg,
                   at, buf, timeout, crashes>>

\* add_wait_queue
ReadEnqueue ==
    /\ Step("enqueue", "announce")
    /\ queued' = TRUE
    /\ UNCHANGED <<hostVars, shmVars, queueVars, waiting, irqVars, task, reg,
                   at, buf, timeout, crashes>>

\* Mutant of ReadAnnounce: the flag is not set.
ReadAnnounceForgotten ==
    /\ Step("announce", "prepare")
    /\ UNCHANGED <<hostVars, shmVars, queueVars, waitVars, irqVars, task, reg,
                   at, buf, timeout, crashes>>

\* waiting[channel] = true
ReadAnnounce ==
    /\ Step("announce", "prepare")
    /\ waiting' = TRUE
    /\ UNCHANGED <<hostVars, shmVars, queueVars, queued, irqVars, task, reg,
                   at, buf, timeout, crashes>>

\* set_current_state(TASK_INTERRUPTIBLE)
ReadPrepare ==
    /\ Step("prepare", "schedule")
    /\ task' = "interruptible"
    /\ UNCHANGED <<hostVars, shmVars, queueVars, waitVars, irqVars, reg, at,
                   buf, timeout, crashes>>

\* schedule() returns once a wake-up has made the task runnable; no signal is
\* pending (Crash).
ReadSchedule ==
    /\ task = "running"
    /\ Step("schedule", "repop")
    /\ UNCHANGED <<hostVars, shmVars, queueVars, waitVars, irqVars, task, reg,
                   at, buf, timeout, crashes>>

\* set_current_state(TASK_RUNNING), remove_wait_queue, waiting = false: the
\* slot has been given up but not yet copied.
ReadLeave ==
    /\ Step("leave", "copy")
    /\ task' = "running" /\ queued' = FALSE /\ waiting' = FALSE
    /\ UNCHANGED <<hostVars, shmVars, queueVars, irqVars, reg, at, buf,
                   timeout, crashes>>

\* copy_to_user from the slot; chif_read returns to the daemon, which handles
\* the packet and calls chif_write.  For an empty packet it returns 0 and the
\* daemon reads again.
ReadCopy ==
    /\ Step("copy", IF slot[at] = 0 THEN "pop" ELSE "go")
    /\ buf' = IF slot[at] = 0 THEN buf ELSE slot[at]
    /\ UNCHANGED <<hostVars, shmVars, queueVars, waitVars, irqVars, task, reg,
                   at, timeout, crashes>>

-----------------------------------------------------------------------------
(* chif_write, always to receive entry 0; then the daemon reads again        *)

WriteStep(from, to) ==
    /\ Step(from, to)
    /\ UNCHANGED <<hostVars, sq, doorbell, queueVars, waitVars, irqVars, task,
                   reg, at, buf, crashes>>

\* Without GO the reply is dropped (-EIO).
WriteGo ==
    /\ WriteStep("go", IF ccb.rqGo THEN "length" ELSE "pop")
    /\ ccb' = [ccb EXCEPT !.rqActive = ccb.rqGo]
    /\ UNCHANGED <<rq, timeout>>

\* Mutant of WriteLength: the length stays that of the reply before.
WriteLengthForgotten ==
    /\ WriteStep("length", "occupied")
    /\ UNCHANGED <<ccb, rq, timeout>>

\* The length is stored before the entry is known to be free.
WriteLength ==
    /\ WriteStep("length", "occupied")
    /\ rq' = [rq EXCEPT !.qwords = buf]
    /\ UNCHANGED <<ccb, timeout>>

WriteOccupied ==
    /\ WriteStep("occupied", IF rq.occupied THEN "consumed" ELSE "poll")
    /\ timeout' = IF rq.occupied THEN timeout ELSE WaitTries
    /\ UNCHANGED <<ccb, rq>>

\* One msleep(100) of the wait.  An entry found on the last poll is given up
\* as well, since timeout is 0 by then.
WritePoll ==
    /\ timeout' = timeout - 1
    /\ WriteStep("poll", IF timeout' = 0 THEN "pop"
                         ELSE IF rq.occupied THEN "consumed" ELSE "poll")
    /\ UNCHANGED <<ccb, rq>>

\* The host has not dequeued the previous reply: -EIO, this one is dropped.
WriteConsumed ==
    /\ WriteStep("consumed", IF rq.consumed THEN "pop" ELSE "data")
    /\ UNCHANGED <<ccb, rq, timeout>>

WriteData ==
    /\ WriteStep("data", "publish")
    /\ rq' = [rq EXCEPT !.data = buf]
    /\ UNCHANGED <<ccb, timeout>>

\* consumed = 1, dma_wmb, doorbell to the host
WritePublish ==
    /\ WriteStep("publish", "pop")
    /\ rq' = [rq EXCEPT !.consumed = TRUE]
    /\ UNCHANGED <<ccb, timeout>>

Thread ==
    \/ Open
    \/ ReadPop \/ ReadRepop \/ PopStore \/ ReadEnqueue \/ ReadAnnounce
    \/ ReadPrepare \/ ReadSchedule \/ ReadLeave \/ ReadCopy
    \/ WriteGo \/ WriteLength \/ WriteOccupied \/ WritePoll \/ WriteConsumed
    \/ WriteData \/ WritePublish

\* The daemon dies in user mode, before a read or before a write, or in the
\* interruptible sleep of chif_read, which then cleans up and returns
\* -ERESTARTSYS.  systemd starts it again (Open).  chif_release does nothing.
Crash ==
    /\ crashes < MaxCrashes
    /\ \E from \in {"pop", "go", "schedule"} : Step(from, "closed")
    /\ crashes' = crashes + 1
    /\ task' = "running" /\ queued' = FALSE /\ waiting' = FALSE
    /\ UNCHANGED <<hostVars, shmVars, queueVars, irqVars, reg, at, buf, timeout>>

-----------------------------------------------------------------------------
Host ==
    \/ HostStart \/ HostReset \/ HostRing \/ HostTakeReply \/ HostOffer
    \/ \E i \in Entries :
          HostSend(i) \/ HostRetry(i) \/ HostNoise(i) \/ HostReclaim(i)

Next == Host \/ ProbeQueue \/ Irq \/ Thread \/ PopReload \/ Crash

(***************************************************************************)
(* Fairness.  The CPU runs the handler while it is pending, and a process   *)
(* between handlers however often the doorbell rings (strong: interrupts    *)
(* may disable it again and again).  The host polls its entries; its        *)
(* timeout fires as long as a request has no answer, whenever an entry is   *)
(* free (strong: noise may occupy it).                                      *)
(***************************************************************************)
Fairness ==
    /\ SF_vars(ProbeQueue)
    /\ WF_vars(Irq)
    /\ SF_vars(Thread)
    /\ WF_vars(HostStart) /\ WF_vars(HostRing) /\ WF_vars(HostOffer)
    /\ WF_vars(HostTakeReply)
    /\ WF_vars(\E i \in Entries : HostReclaim(i))
    /\ SF_vars(\E i \in Entries : HostRetry(i))

Spec == Init /\ [][Next]_vars
FairSpec == Spec /\ Fairness

-----------------------------------------------------------------------------
(* Properties                                                               *)

TypeOK ==
    /\ sent \in 0..MaxReq /\ out \subseteq Requests /\ ring \in BOOLEAN
    /\ up \in BOOLEAN /\ resets \in 0..MaxResets
    /\ ccb \in [sqGo : BOOLEAN, sqActive : BOOLEAN,
                rqGo : BOOLEAN, rqActive : BOOLEAN]
    /\ sq \in [Entries -> [occupied : BOOLEAN, consumed : BOOLEAN,
                           pkt : Packets, len : {"empty", "fits", "over"},
                           seq : HostSeqs \cup {0}]]
    /\ rq \in [occupied : BOOLEAN, consumed : BOOLEAN,
               qwords : Packets, data : Packets]
    /\ doorbell \in BOOLEAN
    /\ probed \in BOOLEAN /\ maxSize \in {0, QSize}
    /\ size \in 0..QSize /\ head \in Slots /\ tail \in Slots
    /\ slot \in [Slots -> Packets]
    /\ waiting \in BOOLEAN /\ queued \in BOOLEAN
    /\ irq \in {"off", "ack", "active", "empties", "pick", "consume"}
    /\ entry \in Entries
    /\ pc \in {"closed", "pop", "take", "enqueue", "announce", "prepare",
               "schedule", "repop", "leave", "copy", "go", "length",
               "occupied", "poll", "consumed", "data", "publish"}
    /\ task \in {"running", "interruptible"}
    /\ reg \in 0..QSize /\ at \in Slots /\ buf \in Packets
    /\ timeout \in 0..WaitTries /\ crashes \in 0..MaxCrashes

\* chif_queue's three indices agree whenever no pop is under way: tail is size
\* places after head.  (gxp-chif.c updates them without a lock from the
\* interrupt and from chif_read.)
QueueExact ==
    pc # "take" /\ maxSize > 0 => tail = (head + size) % QSize

\* A published reply carries the length that belongs to its data, although
\* chif_write stores the length before it knows the entry is free.
ReplyIntact == rq.occupied /\ rq.consumed => rq.qwords = rq.data

\* The reply in the receive entry answers a request the host waits for.
ReplyMatches == rq.occupied /\ rq.consumed => rq.data \in out

\* Every chif_read returns the request after the one the read before it
\* returned: none is lost in the queue, repeated, or overwritten between the
\* release of its slot and the copy to user space.
DeliveredInOrder == [][pc = "copy" /\ pc' = "go" => buf' = buf + 1]_vars

\* A reader that is not runnable is one the interrupt will wake: it is on the
\* wait queue and has set the waiting flag.
SleeperRegistered == task = "interruptible" => queued /\ waiting

\* The host gets every send entry back, whether or not its packet fitted the
\* queue.
EntriesReturned == \A i \in Entries : Ready(i) ~> ~Ready(i)

\* The host has an answer to every request in the end, if it repeats requests
\* whose answer does not come.
Answered == \A r \in Requests : r \in out ~> r \notin out

\* A packet in the queue whose doorbell interrupt has been handled gets to the
\* reader: "Doorbell interrupt handling for packet notifications".
Notified == size > 0 ~> pc = "copy"
=============================================================================

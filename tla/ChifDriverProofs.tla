-------------------------- MODULE ChifDriverProofs --------------------------
(***************************************************************************)
(* Theorems about ChifDriver for queues, descriptor rings, retries, resets  *)
(* and crashes of any number.                                               *)
(*                                                                          *)
(* SleeperRegistered speaks of the reader asleep; it becomes inductive by   *)
(* following chif_read to that point: which of its steps have been taken    *)
(* when, and that nobody but the reader undoes them.                        *)
(*                                                                          *)
(* The queue, its order and the replies hold for a host that waits for each *)
(* answer, although no lock guards the queue.  Then there is one request at *)
(* most, and the invariant says where it is (Place): a push and a pop never *)
(* meet, since what would be pushed is what is being popped.                *)
(***************************************************************************)
EXTENDS ChifDriver, FiniteSetTheorems, TLAPS

SleepInv ==
    /\ ~probed => pc = "closed"
    /\ pc \in {"announce", "prepare", "schedule", "repop"} => queued
    /\ pc \in {"prepare", "schedule", "repop"} => waiting
    /\ task = "interruptible" => pc = "schedule"

LEMMA SleepInit == Init => SleepInv
  BY DEF Init, SleepInv

\* The host and the interrupt handler leave the reader's registration alone;
\* the handler may only make it runnable.
LEMMA OthersStep ==
    ASSUME SleepInv, UNCHANGED <<probed, pc, waitVars>>,
           task' \in {task, "running"}
    PROVE  SleepInv'
  BY DEF SleepInv, waitVars

LEMMA HostStep == Host => UNCHANGED <<probed, pc, task, waitVars>>
<1>1. ASSUME NEW i \in Entries, HostSend(i) \/ HostRetry(i) \/ HostNoise(i)
      PROVE  UNCHANGED <<probed, pc, task, waitVars>>
  BY <1>1 DEF HostSend, HostRetry, HostNoise, Post, queueVars, threadVars
<1>2. ASSUME NEW i \in Entries, HostReclaim(i)
      PROVE  UNCHANGED <<probed, pc, task, waitVars>>
  BY <1>2 DEF HostReclaim, queueVars, threadVars
<1>3. ASSUME HostStart \/ HostReset \/ HostRing \/ HostTakeReply \/ HostOffer
      PROVE  UNCHANGED <<probed, pc, task, waitVars>>
  BY <1>3 DEF HostStart, HostReset, HostRing, HostTakeReply, HostOffer,
              queueVars, threadVars
<1> QED  BY <1>1, <1>2, <1>3 DEF Host

LEMMA IrqStep ==
    Irq => UNCHANGED <<probed, pc, waitVars>> /\ task' \in {task, "running"}
<1>1. ASSUME IrqEnter \/ IrqAck \/ ActiveCcb \/ ConsumeEmpties \/ MarkConsumed
      PROVE  UNCHANGED <<probed, pc, waitVars, task>>
  BY <1>1 DEF IrqEnter, IrqAck, ActiveCcb, ConsumeEmpties, MarkConsumed,
              queueVars, threadVars
<1>2. ASSUME PickPacket
      PROVE  UNCHANGED <<probed, pc, waitVars, task>>
  BY <1>2 DEF PickPacket, Push, queueVars, threadVars
<1>3. ASSUME IrqWake
      PROVE  UNCHANGED <<probed, pc, waitVars>> /\ task' \in {task, "running"}
  BY <1>3 DEF IrqWake, queueVars
<1> QED  BY <1>1, <1>2, <1>3 DEF Irq

LEMMA ReadInv ==
    ASSUME SleepInv, \/ Open \/ ReadPop \/ ReadRepop \/ PopReload \/ PopStore
                     \/ ReadEnqueue \/ ReadAnnounce \/ ReadPrepare
                     \/ ReadSchedule \/ ReadLeave \/ ReadCopy
    PROVE  SleepInv'
<1> USE DEF SleepInv, Step, queueVars, waitVars
<1>1. CASE Open
  BY <1>1 DEF Open
<1>2. CASE ReadPop
  BY <1>2 DEF ReadPop, PopLoad
<1>3. CASE ReadRepop
  BY <1>3 DEF ReadRepop, PopLoad
<1>4. CASE PopReload
  BY <1>4 DEF PopReload
<1>5. CASE PopStore
  BY <1>5 DEF PopStore
<1>6. CASE ReadEnqueue
  BY <1>6 DEF ReadEnqueue
<1>7. CASE ReadAnnounce
  BY <1>7 DEF ReadAnnounce
<1>8. CASE ReadPrepare
  BY <1>8 DEF ReadPrepare
<1>9. CASE ReadSchedule
  BY <1>9 DEF ReadSchedule
<1>10. CASE ReadLeave
  BY <1>10 DEF ReadLeave
<1>11. CASE ReadCopy
  BY <1>11 DEF ReadCopy
<1> QED  BY <1>1, <1>2, <1>3, <1>4, <1>5, <1>6, <1>7, <1>8, <1>9, <1>10, <1>11

\* chif_write neither begins nor ends in a step of chif_read's sleep.
LEMMA WriteInv ==
    ASSUME SleepInv, \/ WriteGo \/ WriteLength \/ WriteOccupied \/ WritePoll
                     \/ WriteConsumed \/ WriteData \/ WritePublish
    PROVE  SleepInv'
<1> DEFINE W == {"go", "length", "occupied", "poll", "consumed", "data",
                 "publish"}
<1>1. /\ pc \in W /\ pc' \in W \cup {"pop"}
      /\ UNCHANGED <<probed, waitVars, task>>
  BY DEF WriteGo, WriteLength, WriteOccupied, WritePoll, WriteConsumed,
         WriteData, WritePublish, WriteStep, Step, queueVars
<1> QED  BY <1>1 DEF SleepInv, waitVars

LEMMA SleepNext == SleepInv /\ [Next]_vars => SleepInv'
<1> SUFFICES ASSUME SleepInv, [Next]_vars PROVE SleepInv'
  OBVIOUS
<1>1. CASE Host
  BY <1>1, HostStep, OthersStep
<1>2. CASE ProbeQueue
  BY <1>2 DEF ProbeQueue, SleepInv, threadVars
<1>3. CASE Irq
  BY <1>3, IrqStep, OthersStep
<1>4. CASE Thread \/ PopReload
  BY <1>4, ReadInv, WriteInv DEF Thread
<1>5. CASE Crash
  BY <1>5 DEF Crash, Step, SleepInv, queueVars
<1>6. CASE UNCHANGED vars
  BY <1>6, OthersStep DEF vars, queueVars, threadVars
<1> QED  BY <1>1, <1>2, <1>3, <1>4, <1>5, <1>6 DEF Next

\* Whatever the host and the interrupt do between the steps of chif_read: when
\* the reader is not runnable it is on the wait queue with its waiting flag
\* set, so that the next doorbell interrupt that gets to its end wakes it.
THEOREM SleeperIsRegistered == Spec => []SleeperRegistered
<1>1. SleepInv => SleeperRegistered
  BY DEF SleepInv, SleeperRegistered
<1> QED  BY <1>1, SleepInit, SleepNext, PTL DEF Spec

-----------------------------------------------------------------------------
(* The types, in five parts                                                 *)

Packet == [occupied : BOOLEAN, consumed : BOOLEAN, pkt : Packets,
           len : {"empty", "fits", "over"}, seq : HostSeqs \cup {0}]

HostT ==
    /\ sent \in 0..MaxReq /\ out \subseteq Requests /\ ring \in BOOLEAN
    /\ up \in BOOLEAN /\ resets \in 0..MaxResets

ShmT ==
    /\ ccb \in [sqGo : BOOLEAN, sqActive : BOOLEAN,
                rqGo : BOOLEAN, rqActive : BOOLEAN]
    /\ sq \in [Entries -> Packet]
    /\ rq \in [occupied : BOOLEAN, consumed : BOOLEAN,
               qwords : Packets, data : Packets]
    /\ doorbell \in BOOLEAN

QueueT ==
    /\ probed \in BOOLEAN /\ maxSize \in {0, QSize}
    /\ size \in 0..QSize /\ head \in Slots /\ tail \in Slots
    /\ slot \in [Slots -> Packets]
    /\ maxSize = 0 => size = 0

IrqT ==
    /\ irq \in {"off", "ack", "active", "empties", "pick", "consume"}
    /\ entry \in Entries

ThreadT ==
    /\ pc \in {"closed", "pop", "take", "enqueue", "announce", "prepare",
               "schedule", "repop", "leave", "copy", "go", "length",
               "occupied", "poll", "consumed", "data", "publish"}
    /\ task \in {"running", "interruptible"}
    /\ waiting \in BOOLEAN /\ queued \in BOOLEAN
    /\ reg \in 0..QSize /\ at \in Slots /\ buf \in Packets
    /\ timeout \in 0..WaitTries /\ crashes \in 0..MaxCrashes

\* What a pop has loaded is not zero, and neither is the size it goes on with;
\* a poll has a try left.
Loaded ==
    /\ pc = "take" => size > 0 /\ reg > 0
    /\ pc = "poll" => timeout > 0

TypeInv == HostT /\ ShmT /\ QueueT /\ IrqT /\ ThreadT /\ Loaded /\ SleepInv

LEMMA Bounds ==
  /\ MaxReq \in Nat /\ NumDesc \in Nat \ {0} /\ QSize \in Nat \ {0}
  /\ WaitTries \in Nat \ {0} /\ MaxCrashes \in Nat /\ MaxResets \in Nat
  /\ 0 \in Packets /\ 0 \in Entries /\ 0 \in Slots
  BY ChifAssumption DEF Packets, Entries, Slots

LEMMA EntryTypes ==
  /\ FreeEntry \in Packet
  /\ NoReply \in [occupied : BOOLEAN, consumed : BOOLEAN,
                  qwords : Packets, data : Packets]
  /\ ZeroCcb \in [sqGo : BOOLEAN, sqActive : BOOLEAN,
                  rqGo : BOOLEAN, rqActive : BOOLEAN]
  BY Bounds DEF FreeEntry, NoReply, ZeroCcb, Packet

LEMMA TypeInit == Init => TypeInv
<1> SUFFICES ASSUME Init PROVE TypeInv
  OBVIOUS
<1>1. HostT
  <2>1. sent \in 0..MaxReq /\ out \subseteq Requests /\ resets \in 0..MaxResets
    BY Bounds DEF Init
  <2>2. ring \in BOOLEAN /\ up \in BOOLEAN
    BY DEF Init
  <2> QED
    BY <2>1, <2>2 DEF HostT
<1>2. ShmT
  BY EntryTypes DEF Init, ShmT
<1>3. QueueT
  <2>1. probed \in BOOLEAN
    BY DEF Init
  <2>2. /\ size \in 0..QSize /\ head \in Slots /\ tail \in Slots
        /\ maxSize \in {0, QSize} /\ (maxSize = 0 => size = 0)
    BY Bounds DEF Init
  <2>3. slot \in [Slots -> Packets]
    BY Bounds DEF Init
  <2> QED
    BY <2>1, <2>2, <2>3 DEF QueueT
<1>4. IrqT /\ Loaded
  BY Bounds DEF Init, IrqT, Loaded
<1>5. ThreadT
  <2>1. waiting \in BOOLEAN /\ queued \in BOOLEAN
    BY DEF Init
  <2>2. reg \in 0..QSize /\ timeout \in 0..WaitTries /\ crashes \in 0..MaxCrashes
    BY Bounds DEF Init
  <2>3. at \in Slots /\ buf \in Packets
    BY Bounds DEF Init
  <2> QED
    BY <2>1, <2>2, <2>3 DEF Init, ThreadT
<1> QED
  BY <1>1, <1>2, <1>3, <1>4, <1>5, SleepInit DEF TypeInv

\* The parts that a step leaves alone.
LEMMA OtherParts ==
  ASSUME TypeInv
  PROVE  /\ UNCHANGED hostVars => HostT'
         /\ UNCHANGED shmVars => ShmT'
         /\ UNCHANGED queueVars => QueueT'
         /\ UNCHANGED irqVars => IrqT'
         /\ UNCHANGED <<waitVars, threadVars>> => ThreadT'
         /\ UNCHANGED <<size, pc, reg, timeout>> => Loaded'
<1>1. UNCHANGED hostVars => HostT'
  BY DEF TypeInv, hostVars, HostT
<1>2. UNCHANGED shmVars => ShmT'
  BY DEF TypeInv, shmVars, ShmT
<1>3. UNCHANGED queueVars => QueueT'
  BY DEF TypeInv, queueVars, QueueT
<1>4. UNCHANGED irqVars => IrqT'
  BY DEF TypeInv, irqVars, IrqT
<1>5. UNCHANGED <<waitVars, threadVars>> => ThreadT'
  BY DEF TypeInv, waitVars, threadVars, ThreadT
<1>6. UNCHANGED <<size, pc, reg, timeout>> => Loaded'
  BY DEF TypeInv, Loaded
<1> QED
  BY <1>1, <1>2, <1>3, <1>4, <1>5, <1>6

\* What the host posts.
LEMMA PostTypes ==
  ASSUME TypeInv, NEW i \in Entries, NEW p \in Packets,
         NEW l \in {"empty", "fits", "over"}, Post(i, p, l)
  PROVE  /\ sq' \in [Entries -> Packet] /\ ring' = TRUE
         /\ UNCHANGED <<up, resets, ccb, rq, doorbell, queueVars, waitVars,
                        irqVars, threadVars>>
<1>1. PICK s \in HostSeqs :
         sq' = [sq EXCEPT ![i] = [occupied |-> TRUE, consumed |-> FALSE,
                                  pkt |-> p, len |-> l, seq |-> s]]
  BY DEF Post
<1>2. [occupied |-> TRUE, consumed |-> FALSE, pkt |-> p, len |-> l, seq |-> s]
         \in Packet
  BY DEF Packet
<1> QED
  BY <1>1, <1>2 DEF Post, TypeInv, ShmT

LEMMA HostTypes ==
  ASSUME TypeInv, Host
  PROVE  HostT' /\ ShmT' /\ UNCHANGED <<queueVars, waitVars, irqVars, threadVars>>
<1>1. CASE HostStart
  <2>1. rq' \in [occupied : BOOLEAN, consumed : BOOLEAN,
                qwords : Packets, data : Packets]
    BY <1>1, Bounds DEF HostStart, NoReply
  <2>2. ccb' \in [sqGo : BOOLEAN, sqActive : BOOLEAN,
                 rqGo : BOOLEAN, rqActive : BOOLEAN]
    BY <1>1 DEF HostStart, TypeInv, ShmT
  <2> QED
    BY <1>1, <2>1, <2>2 DEF HostStart, TypeInv, HostT, ShmT
<1>2. CASE HostReset
  <2>1. resets' \in 0..MaxResets
    BY <1>2, Bounds DEF HostReset, TypeInv, HostT
  <2>2. up' \in BOOLEAN /\ ring' \in BOOLEAN
    BY <1>2 DEF HostReset
  <2>3. HostT'
    BY <1>2, <2>1, <2>2 DEF HostReset, TypeInv, HostT
  <2>4. sq' \in [Entries -> Packet]
    BY <1>2, EntryTypes DEF HostReset
  <2>5. /\ rq' \in [occupied : BOOLEAN, consumed : BOOLEAN,
                   qwords : Packets, data : Packets]
        /\ ccb' \in [sqGo : BOOLEAN, sqActive : BOOLEAN,
                    rqGo : BOOLEAN, rqActive : BOOLEAN]
    BY <1>2, EntryTypes DEF HostReset
  <2>6. doorbell' \in BOOLEAN
    BY <1>2 DEF HostReset, TypeInv, ShmT
  <2> QED
    BY <1>2, <2>3, <2>4, <2>5, <2>6 DEF HostReset, ShmT
<1>3. ASSUME NEW i \in Entries, HostSend(i)
      PROVE  HostT' /\ ShmT'
             /\ UNCHANGED <<queueVars, waitVars, irqVars, threadVars>>
  <2>1. sent + 1 \in 0..MaxReq /\ sent + 1 \in Packets
        /\ sent + 1 \in Requests
    BY <1>3, Bounds DEF HostSend, TypeInv, HostT, Packets, Requests
  <2>2. Post(i, sent + 1, "fits") /\ sent' = sent + 1
        /\ out' = out \cup {sent + 1}
    BY <1>3 DEF HostSend
  <2>3. /\ sq' \in [Entries -> Packet] /\ ring' = TRUE
        /\ UNCHANGED <<up, resets, ccb, rq, doorbell, queueVars, waitVars,
                       irqVars, threadVars>>
    BY <1>3, <2>1, <2>2, PostTypes
  <2> QED
    BY <2>1, <2>2, <2>3 DEF TypeInv, HostT, ShmT
<1>4. ASSUME NEW i \in Entries, HostRetry(i)
      PROVE  HostT' /\ ShmT'
             /\ UNCHANGED <<queueVars, waitVars, irqVars, threadVars>>
  <2>1. PICK r \in out : Post(i, r, "fits")
    BY <1>4 DEF HostRetry
  <2>2. r \in Packets
    BY Bounds DEF TypeInv, HostT, Requests, Packets
  <2>3. /\ sq' \in [Entries -> Packet] /\ ring' = TRUE
        /\ UNCHANGED <<up, resets, ccb, rq, doorbell, queueVars, waitVars,
                       irqVars, threadVars>>
    BY <1>4, <2>1, <2>2, PostTypes
  <2> QED
    BY <1>4, <2>3 DEF HostRetry, TypeInv, HostT, ShmT
<1>5. ASSUME NEW i \in Entries, HostNoise(i)
      PROVE  HostT' /\ ShmT'
             /\ UNCHANGED <<queueVars, waitVars, irqVars, threadVars>>
  <2>1. PICK l \in NoiseLens : Post(i, 0, l)
    BY <1>5 DEF HostNoise
  <2>2. l \in {"empty", "fits", "over"}
    BY ChifAssumption
  <2>3. /\ sq' \in [Entries -> Packet] /\ ring' = TRUE
        /\ UNCHANGED <<up, resets, ccb, rq, doorbell, queueVars, waitVars,
                       irqVars, threadVars>>
    BY <1>5, <2>1, <2>2, PostTypes, Bounds
  <2> QED
    BY <1>5, <2>3 DEF HostNoise, TypeInv, HostT, ShmT
<1>6. CASE HostRing
  BY <1>6 DEF HostRing, TypeInv, HostT, ShmT
<1>7. ASSUME NEW i \in Entries, HostReclaim(i)
      PROVE  HostT' /\ ShmT'
             /\ UNCHANGED <<queueVars, waitVars, irqVars, threadVars>>
  BY <1>7, EntryTypes, OtherParts DEF HostReclaim, TypeInv, ShmT
<1>8. CASE HostTakeReply
  BY <1>8, EntryTypes DEF HostTakeReply, TypeInv, HostT, ShmT
<1>9. CASE HostOffer
  <2>1. rq' \in [occupied : BOOLEAN, consumed : BOOLEAN,
                qwords : Packets, data : Packets]
    BY <1>9 DEF HostOffer, TypeInv, ShmT
  <2> QED
    BY <1>9, <2>1, OtherParts DEF HostOffer, TypeInv, ShmT
<1> QED
  BY <1>1, <1>2, <1>3, <1>4, <1>5, <1>6, <1>7, <1>8, <1>9 DEF Host

LEMMA HostKeeps == TypeInv /\ Host => TypeInv'
<1> SUFFICES ASSUME TypeInv, Host PROVE TypeInv'
  OBVIOUS
<1>1. HostT' /\ ShmT' /\ UNCHANGED <<queueVars, waitVars, irqVars, threadVars>>
  BY HostTypes
<1>2. QueueT' /\ IrqT' /\ ThreadT'
  BY <1>1, OtherParts
<1>3. Loaded'
  BY <1>1, OtherParts DEF queueVars, threadVars
<1>4. SleepInv'
  BY SleepNext DEF TypeInv, Next
<1> QED
  BY <1>1, <1>2, <1>3, <1>4 DEF TypeInv

\* A push keeps the queue within its slots.
LEMMA PushTypes ==
  ASSUME TypeInv, NEW i \in Entries, Push(i)
  PROVE  QueueT' /\ (size > 0 => size' > 0)
<1>1. CASE ~Pushable(i)
  BY <1>1, OtherParts DEF Push, queueVars
<1>2. CASE Pushable(i)
  <2>1. /\ size # maxSize
        /\ slot' = [slot EXCEPT ![tail] = sq[i].pkt]
        /\ size' = size + 1
        /\ tail' = IF tail + 1 >= maxSize THEN 0 ELSE tail + 1
        /\ UNCHANGED <<probed, head, maxSize>>
    BY <1>2 DEF Push, Pushable
  <2>2. maxSize = QSize /\ size < QSize
    BY <2>1, Bounds DEF TypeInv, QueueT
  <2>3. size' \in 0..QSize /\ tail' \in Slots /\ size' > 0
    BY <2>1, <2>2, Bounds DEF TypeInv, QueueT, Slots
  <2>4. sq[i].pkt \in Packets
    BY DEF TypeInv, ShmT, Packet
  <2>5. slot' \in [Slots -> Packets]
    BY <2>1, <2>4 DEF TypeInv, QueueT
  <2> QED
    BY <2>1, <2>2, <2>3, <2>5, Bounds DEF TypeInv, QueueT
<1> QED
  BY <1>1, <1>2

LEMMA IrqKeeps == TypeInv /\ Irq => TypeInv'
<1> SUFFICES ASSUME TypeInv, Irq PROVE TypeInv'
  OBVIOUS
<1>0. SleepInv'
  BY SleepNext DEF TypeInv, Next
<1>1. CASE IrqEnter
  <2>1. IrqT'
    BY <1>1 DEF IrqEnter, TypeInv, IrqT
  <2> QED
    BY <1>0, <1>1, <2>1, OtherParts DEF IrqEnter, TypeInv, queueVars, threadVars
<1>2. CASE IrqAck
  <2>1. IrqT' /\ ShmT'
    BY <1>2 DEF IrqAck, TypeInv, IrqT, ShmT
  <2> QED
    BY <1>0, <1>2, <2>1, OtherParts DEF IrqAck, TypeInv, queueVars, threadVars
<1>3. CASE ActiveCcb
  <2>1. IrqT'
    BY <1>3 DEF ActiveCcb, TypeInv, IrqT
  <2>2. ShmT'
    BY <1>3 DEF ActiveCcb, TypeInv, ShmT
  <2> QED
    BY <1>0, <1>3, <2>1, <2>2, OtherParts
    DEF ActiveCcb, TypeInv, queueVars, threadVars
<1>4. CASE ConsumeEmpties
  <2>1. IrqT'
    BY <1>4 DEF ConsumeEmpties, TypeInv, IrqT
  <2>2. \A i \in Entries : sq[i] \in Packet
    BY DEF TypeInv, ShmT
  <2>3. \A i \in Entries : [sq[i] EXCEPT !.consumed = TRUE] \in Packet
    BY <2>2 DEF Packet
  <2>4. sq' \in [Entries -> Packet]
    BY <1>4, <2>2, <2>3 DEF ConsumeEmpties
  <2>5. ShmT'
    BY <1>4, <2>4 DEF ConsumeEmpties, TypeInv, ShmT
  <2> QED
    BY <1>0, <1>4, <2>1, <2>5, OtherParts
    DEF ConsumeEmpties, TypeInv, queueVars, threadVars
<1>5. CASE PickPacket
  <2>1. PICK i \in Entries : Push(i) /\ entry' = i
    BY <1>5 DEF PickPacket
  <2>2. QueueT' /\ (size > 0 => size' > 0)
    BY <2>1, PushTypes
  <2>3. IrqT'
    BY <1>5, <2>1 DEF PickPacket, IrqT
  <2>4. Loaded'
    BY <1>5, <2>2 DEF PickPacket, threadVars, TypeInv, Loaded
  <2> QED
    BY <1>0, <1>5, <2>2, <2>3, <2>4, OtherParts DEF PickPacket, TypeInv
<1>6. CASE MarkConsumed
  <2>1. IrqT'
    BY <1>6 DEF MarkConsumed, TypeInv, IrqT
  <2>2. entry \in Entries /\ sq[entry] \in Packet
    BY DEF TypeInv, ShmT, IrqT
  <2>3. [sq[entry] EXCEPT !.consumed = TRUE] \in Packet
    BY <2>2 DEF Packet
  <2>4. sq' \in [Entries -> Packet]
    BY <1>6, <2>2, <2>3 DEF MarkConsumed, TypeInv, ShmT
  <2>5. ShmT'
    BY <1>6, <2>4 DEF MarkConsumed, TypeInv, ShmT
  <2> QED
    BY <1>0, <1>6, <2>1, <2>5, OtherParts
    DEF MarkConsumed, TypeInv, queueVars, threadVars
<1>7. CASE IrqWake
  <2>1. IrqT'
    BY <1>7 DEF IrqWake, TypeInv, IrqT
  <2>2. ThreadT'
    BY <1>7 DEF IrqWake, TypeInv, ThreadT, waitVars
  <2> QED
    BY <1>0, <1>7, <2>1, <2>2, OtherParts DEF IrqWake, TypeInv, queueVars
<1> QED
  BY <1>1, <1>2, <1>3, <1>4, <1>5, <1>6, <1>7 DEF Irq

\* The queue is empty after probe() or an open() without GO.
LEMMA EmptyQueue ==
  ASSUME probed' \in BOOLEAN, size' = 0, head' = 0, tail' = 0, maxSize' = QSize,
         slot' = [i \in Slots |-> 0]
  PROVE  QueueT'
  BY Bounds DEF QueueT

LEMMA ReadKeeps ==
  ASSUME TypeInv, \/ Open \/ ReadPop \/ ReadRepop \/ PopReload \/ PopStore
                  \/ ReadEnqueue \/ ReadAnnounce \/ ReadPrepare
                  \/ ReadSchedule \/ ReadLeave \/ ReadCopy
  PROVE  TypeInv'
<1>0. SleepInv'
  BY ReadInv DEF TypeInv
<1>1. CASE Open
  <2>1. QueueT'
    BY <1>1, OtherParts, EmptyQueue DEF Open, TypeInv, QueueT
  <2>2. ThreadT'
    BY <1>1 DEF Open, Step, waitVars, TypeInv, ThreadT
  <2>3. Loaded'
    BY <1>1 DEF Open, Step, Loaded
  <2> QED
    BY <1>0, <1>1, <2>1, <2>2, <2>3, OtherParts DEF Open, TypeInv
<1>2. CASE ReadPop \/ ReadRepop \/ PopReload
  <2>1. /\ reg' = size /\ pc' \in {"take", "enqueue", "prepare"}
        /\ pc' = "take" => size > 0
        /\ UNCHANGED <<hostVars, shmVars, queueVars, waitVars, irqVars, task,
                       at, buf, timeout, crashes>>
    BY <1>2 DEF ReadPop, ReadRepop, PopReload, PopLoad, Step, TypeInv, Loaded,
                QueueT
  <2>2. size \in 0..QSize
    BY DEF TypeInv, QueueT
  <2>3. ThreadT'
    BY <2>1, <2>2 DEF waitVars, TypeInv, ThreadT
  <2>4. Loaded'
    BY <2>1 DEF queueVars, Loaded
  <2> QED
    BY <1>0, <2>1, <2>3, <2>4, OtherParts DEF TypeInv
<1>3. CASE PopStore
  <2>1. size' \in 0..QSize /\ head' \in Slots
        /\ (maxSize = 0 => size = 0) /\ pc = "take" /\ size > 0
    BY <1>3, Bounds
    DEF PopStore, Step, TypeInv, QueueT, ThreadT, Loaded, Slots
  <2>2. QueueT'
    BY <1>3, <2>1 DEF PopStore, TypeInv, QueueT
  <2>3. ThreadT'
    BY <1>3 DEF PopStore, Step, waitVars, TypeInv, ThreadT, QueueT
  <2>4. Loaded'
    BY <1>3 DEF PopStore, Step, Loaded
  <2> QED
    BY <1>0, <1>3, <2>2, <2>3, <2>4, OtherParts DEF PopStore, TypeInv
<1>4. CASE ReadEnqueue \/ ReadAnnounce \/ ReadPrepare \/ ReadSchedule \/ ReadLeave
  <2>1. ThreadT' /\ Loaded'
    BY <1>4 DEF ReadEnqueue, ReadAnnounce, ReadPrepare, ReadSchedule, ReadLeave,
                Step, waitVars, TypeInv, ThreadT, Loaded
  <2> QED
    BY <1>0, <1>4, <2>1, OtherParts
    DEF ReadEnqueue, ReadAnnounce, ReadPrepare, ReadSchedule, ReadLeave, TypeInv
<1>5. CASE ReadCopy
  <2>1. slot[at] \in Packets
    BY DEF TypeInv, QueueT, ThreadT
  <2>2. ThreadT' /\ Loaded'
    BY <1>5, <2>1 DEF ReadCopy, Step, waitVars, TypeInv, ThreadT, Loaded
  <2> QED
    BY <1>0, <1>5, <2>2, OtherParts DEF ReadCopy, TypeInv
<1> QED
  BY <1>1, <1>2, <1>3, <1>4, <1>5

LEMMA WriteKeeps ==
  ASSUME TypeInv, \/ WriteGo \/ WriteLength \/ WriteOccupied \/ WritePoll
                  \/ WriteConsumed \/ WriteData \/ WritePublish
  PROVE  TypeInv'
<1>0. SleepInv'
  BY WriteInv DEF TypeInv
<1>1. /\ irq = "off"
      /\ UNCHANGED <<hostVars, sq, doorbell, queueVars, waitVars, irqVars, task,
                     reg, at, buf, crashes>>
      /\ pc' \in {"length", "pop", "occupied", "consumed", "poll", "data",
                  "publish"}
  BY DEF WriteGo, WriteLength, WriteOccupied, WritePoll, WriteConsumed,
         WriteData, WritePublish, WriteStep, Step
<1>2. timeout' \in 0..WaitTries /\ (pc' = "poll" => timeout' > 0)
  BY Bounds DEF WriteGo, WriteLength, WriteOccupied, WritePoll, WriteConsumed,
         WriteData, WritePublish, WriteStep, Step, TypeInv, ThreadT, Loaded
<1>3. ThreadT' /\ Loaded'
  BY <1>1, <1>2 DEF waitVars, TypeInv, ThreadT, Loaded
<1>4. ccb' \in [sqGo : BOOLEAN, sqActive : BOOLEAN,
               rqGo : BOOLEAN, rqActive : BOOLEAN]
  <2>1. CASE WriteGo
    BY <2>1 DEF WriteGo, TypeInv, ShmT
  <2>2. CASE UNCHANGED ccb
    BY <2>2 DEF TypeInv, ShmT
  <2> QED
    BY <2>1, <2>2 DEF WriteLength, WriteOccupied, WritePoll, WriteConsumed,
                      WriteData, WritePublish
<1>5. rq' \in [occupied : BOOLEAN, consumed : BOOLEAN,
              qwords : Packets, data : Packets]
  <2>1. CASE WriteLength \/ WriteData \/ WritePublish
    BY <2>1 DEF WriteLength, WriteData, WritePublish, TypeInv, ShmT, ThreadT
  <2>2. CASE UNCHANGED rq
    BY <2>2 DEF TypeInv, ShmT
  <2> QED
    BY <2>1, <2>2 DEF WriteGo, WriteOccupied, WritePoll, WriteConsumed
<1>6. ShmT'
  BY <1>1, <1>4, <1>5 DEF TypeInv, ShmT
<1> QED
  BY <1>0, <1>1, <1>3, <1>6, OtherParts DEF TypeInv

LEMMA TypeNext == TypeInv /\ [Next]_vars => TypeInv'
<1> SUFFICES ASSUME TypeInv, [Next]_vars PROVE TypeInv'
  OBVIOUS
<1>0. SleepInv'
  BY SleepNext DEF TypeInv
<1>1. CASE ProbeQueue
  <2>1. QueueT'
    BY <1>1, EmptyQueue DEF ProbeQueue
  <2>2. ThreadT'
    BY <1>1 DEF ProbeQueue, threadVars, TypeInv, ThreadT
  <2>3. Loaded'
    BY <1>1 DEF ProbeQueue, threadVars, TypeInv, SleepInv, Loaded
  <2> QED
    BY <1>0, <1>1, <2>1, <2>2, <2>3, OtherParts DEF ProbeQueue, TypeInv
<1>2. CASE Crash
  <2>1. pc' = "closed" /\ task' = "running" /\ crashes' = crashes + 1
    BY <1>2 DEF Crash, Step
  <2>2. Loaded'
    BY <2>1 DEF Loaded
  <2>3. ThreadT'
    <3>1. crashes' \in 0..MaxCrashes
      BY <1>2, Bounds DEF Crash, TypeInv, ThreadT
    <3>2. waiting' \in BOOLEAN /\ queued' \in BOOLEAN
      BY <1>2 DEF Crash
    <3>3. /\ reg' \in 0..QSize /\ at' \in Slots /\ buf' \in Packets
          /\ timeout' \in 0..WaitTries
      BY <1>2 DEF Crash, TypeInv, ThreadT
    <3> QED
      BY <2>1, <3>1, <3>2, <3>3 DEF ThreadT
  <2> QED
    BY <1>0, <1>2, <2>2, <2>3, OtherParts DEF Crash, TypeInv
<1>3. CASE UNCHANGED vars
  BY <1>0, <1>3, OtherParts DEF vars, queueVars, threadVars, TypeInv
<1> QED
  BY <1>1, <1>2, <1>3, HostKeeps, IrqKeeps, ReadKeeps, WriteKeeps
  DEF Next, Thread

\* The type invariant of the driver and its clients; with it, that no pop takes
\* from an empty queue and no push goes past its slots, although chif_read and
\* the interrupt change the size without a lock.
THEOREM TypeCorrect == Spec => []TypeOK
<1>1. TypeInv => TypeOK
  BY DEF TypeInv, HostT, ShmT, QueueT, IrqT, ThreadT, Packet, TypeOK
<1> QED
  BY <1>1, TypeInit, TypeNext, PTL DEF Spec

-----------------------------------------------------------------------------
(* One request at a time                                                    *)

\* The host for which the rest of the driver's promises hold: it waits for an
\* answer before its next request, repeats none, posts no empty packets, and is
\* not reset.
OneAtATime ==
    /\ Outstanding = 1 /\ ~Retries /\ NoiseLens \subseteq {"over"}
    /\ MaxResets = 0

Quiet == {"closed", "pop", "enqueue", "announce", "prepare", "schedule", "repop"}
Writing == {"go", "length", "occupied", "poll", "consumed", "data", "publish"}

\* Where the request `sent' can be: in the ring, or lost there because probe()
\* had not made the queue; in the queue, and in the ring until the handler has
\* marked it; in a slot that the reader has given up; in the daemon; in the
\* receive entry; or nowhere, since it is answered, its reply was dropped or the
\* daemon died with it.
InRing == {i \in Entries : Ready(i) /\ sq[i].len = "fits"}

Nowhere == size = 0 /\ pc \in Quiet /\ InRing = {} /\ ~rq.consumed

Posted ==
    /\ size = 0 /\ pc \in Quiet /\ ~rq.consumed /\ buf = sent - 1
    /\ \A i \in InRing : sq[i].pkt = sent /\ InRing = {i}

Queued ==
    /\ size = 1 /\ slot[head] = sent /\ ~rq.consumed /\ buf = sent - 1
    /\ pc \in Quiet \/ (pc = "take" /\ reg = 1)
    /\ InRing # {} => irq = "consume" /\ InRing = {entry}

Given ==
    /\ size = 0 /\ pc \in {"leave", "copy"} /\ slot[at] = sent
    /\ InRing = {} /\ ~rq.consumed /\ buf = sent - 1

Held ==
    /\ size = 0 /\ pc \in Writing /\ InRing = {} /\ ~rq.consumed /\ buf = sent
    /\ pc \notin {"go", "length"} => rq.qwords = sent
    /\ pc \in {"consumed", "data", "publish"} => rq.occupied
    /\ pc = "publish" => rq.data = sent

Replied ==
    /\ size = 0 /\ pc \in Quiet /\ InRing = {} /\ buf = sent
    /\ rq.occupied /\ rq.qwords = sent /\ rq.data = sent

Place ==
    \/ out = {} /\ buf = sent /\ Nowhere
    \/ /\ out = {sent}
       /\ \/ buf = sent /\ Nowhere
          \/ Posted \/ Queued \/ Given \/ Held \/ Replied

\* The indices of a queue of at most one packet.
Indices ==
    maxSize > 0 =>
        tail = IF size = 0 THEN head
               ELSE IF head + 1 >= QSize THEN 0 ELSE head + 1

Started ==
    /\ sent > 0 => up
    /\ up => ccb.sqGo
    /\ ~probed => maxSize = 0

\* The only packets that hold no request are too long.
NoEmpties == \A i \in Entries : Ready(i) => sq[i].len # "empty"

Token == Started /\ NoEmpties /\ Indices /\ Place

\* A step that leaves the request where it is.
LEMMA Still ==
  ASSUME TypeInv, Place,
         UNCHANGED <<sent, out, size, slot, head, at, reg, buf>>,
         rq'.consumed = rq.consumed, rq'.qwords = rq.qwords,
         rq'.data = rq.data, rq.occupied => rq'.occupied,
         InRing' = InRing, \A i \in InRing : sq'[i].pkt = sq[i].pkt,
         pc' = pc \/ (pc \in Quiet /\ pc' \in Quiet),
         irq # "consume" \/ UNCHANGED <<irq, entry>>
  PROVE  Place'
<1>1. CASE Nowhere
  <2>1. Nowhere'
    BY <1>1 DEF Nowhere
  <2> QED
    BY <1>1, <2>1 DEF Place, Nowhere, Posted, Queued, Given, Held, Replied
<1>2. CASE Posted
  <2>1. Posted'
    BY <1>2 DEF Posted
  <2> QED
    BY <1>2, <2>1 DEF Place, Posted, Nowhere
<1>3. CASE Queued
  <2>1. Queued'
    BY <1>3 DEF Queued, Quiet
  <2> QED
    BY <1>3, <2>1 DEF Place, Queued, Nowhere
<1>4. CASE Given
  <2>1. Given'
    BY <1>4 DEF Given, Quiet
  <2> QED
    BY <1>4, <2>1 DEF Place, Given, Nowhere, Quiet
<1>5. CASE Held
  <2>1. Held'
    BY <1>5 DEF Held, Quiet, Writing
  <2> QED
    BY <1>5, <2>1 DEF Place, Held, Nowhere, Quiet, Writing
<1>6. CASE Replied /\ ~Nowhere
  <2>1. Replied'
    BY <1>6 DEF Replied
  <2> QED
    BY <1>6, <2>1 DEF Place
<1> QED
  BY <1>1, <1>2, <1>3, <1>4, <1>5, <1>6 DEF Place

\* Steps of the host, but for the request it sends and the reply it takes.
LEMMA HostStill ==
  ASSUME TypeInv, Token, OneAtATime,
         \/ HostStart \/ HostReset \/ HostRing \/ HostOffer
         \/ \E i \in Entries :
               HostRetry(i) \/ HostNoise(i) \/ HostReclaim(i)
  PROVE  Token'
<1>1. CASE HostStart
  <2>1. /\ sent = 0 /\ out = {}
    <3>1. sent = 0
      BY <1>1 DEF HostStart, Token, Started, TypeInv, HostT
    <3>2. out # {sent}
      BY <3>1, Bounds DEF TypeInv, HostT, Requests
    <3> QED
      BY <3>1, <3>2 DEF Token, Place
  <2>2. Nowhere /\ buf = sent
    BY <2>1 DEF Token, Place
  <2>3. /\ rq'.consumed = FALSE
        /\ UNCHANGED <<sent, out, size, head, tail, maxSize, probed, sq, pc, buf>>
    BY <1>1 DEF HostStart, NoReply, queueVars, threadVars
  <2>4. Nowhere'
    BY <2>2, <2>3 DEF Nowhere, InRing, Ready
  <2>5. Place'
    BY <2>1, <2>2, <2>3, <2>4 DEF Place
  <2>6. up' /\ ccb'.sqGo
    BY <1>1 DEF HostStart, TypeInv, ShmT
  <2> QED
    BY <2>3, <2>5, <2>6 DEF Token, Started, Indices, NoEmpties, Ready
<1>2. CASE HostReset
  BY <1>2 DEF HostReset, OneAtATime, TypeInv, HostT
<1>3. CASE HostRing
  <2>1. UNCHANGED <<sent, out, up, ccb, sq, rq, queueVars, irqVars, threadVars>>
    BY <1>3 DEF HostRing
  <2>2. Place'
    BY <2>1, Still
    DEF queueVars, irqVars, threadVars, InRing, Ready, Token
  <2> QED
    BY <2>1, <2>2 DEF Token, Started, Indices, NoEmpties, Ready, queueVars
<1>4. CASE HostOffer
  <2>1. UNCHANGED <<sent, out, up, ccb, sq, queueVars, irqVars, threadVars>>
        /\ rq' = [rq EXCEPT !.occupied = TRUE]
    BY <1>4 DEF HostOffer, hostVars
  <2>2. /\ rq'.consumed = rq.consumed /\ rq'.qwords = rq.qwords
        /\ rq'.data = rq.data /\ rq'.occupied
    BY <2>1 DEF TypeInv, ShmT
  <2>3. Place'
    BY <2>1, <2>2, Still
    DEF queueVars, irqVars, threadVars, InRing, Ready, Token
  <2> QED
    BY <2>1, <2>3 DEF Token, Started, Indices, NoEmpties, Ready, queueVars
<1>5. ASSUME NEW i \in Entries, HostRetry(i)
      PROVE  Token'
  BY <1>5 DEF HostRetry, OneAtATime
<1>6. ASSUME NEW i \in Entries, HostNoise(i)
      PROVE  Token'
  <2>1. PICK l \in NoiseLens : Post(i, 0, l)
    BY <1>6 DEF HostNoise
  <2>2. l = "over"
    BY DEF OneAtATime
  <2>3. PICK s \in HostSeqs :
           sq' = [sq EXCEPT ![i] = [occupied |-> TRUE, consumed |-> FALSE,
                                    pkt |-> 0, len |-> l, seq |-> s]]
    BY <2>1 DEF Post
  <2>4. /\ UNCHANGED <<sent, out, up, ccb, rq, queueVars, irqVars, threadVars>>
        /\ ~sq[i].occupied
    BY <1>6, <2>1 DEF HostNoise, Post
  <2>5. /\ \A j \in Entries : j # i => sq'[j] = sq[j]
        /\ sq'[i].len = "over"
    BY <2>2, <2>3 DEF TypeInv, ShmT
  <2>6. InRing' = InRing /\ i \notin InRing
    BY <2>4, <2>5 DEF InRing, Ready
  <2>7. \A j \in InRing : sq'[j].pkt = sq[j].pkt
    BY <2>5, <2>6 DEF InRing
  <2>8. Place'
    BY <2>4, <2>6, <2>7, Still DEF queueVars, irqVars, threadVars, Token
  <2>9. NoEmpties'
    BY <2>5 DEF Token, NoEmpties, Ready
  <2> QED
    BY <2>4, <2>8, <2>9 DEF Token, Started, Indices, queueVars
<1>7. ASSUME NEW i \in Entries, HostReclaim(i)
      PROVE  Token'
  <2>1. /\ UNCHANGED <<sent, out, up, ccb, rq, queueVars, irqVars, threadVars>>
        /\ sq[i].occupied /\ sq[i].consumed
        /\ sq' = [sq EXCEPT ![i] = FreeEntry]
    BY <1>7 DEF HostReclaim, hostVars
  <2>2. /\ \A j \in Entries : j # i => sq'[j] = sq[j]
        /\ ~sq'[i].occupied
    BY <2>1 DEF TypeInv, ShmT, FreeEntry
  <2>3. InRing' = InRing /\ i \notin InRing
    BY <2>1, <2>2 DEF InRing, Ready
  <2>4. \A j \in InRing : sq'[j].pkt = sq[j].pkt
    BY <2>2, <2>3 DEF InRing
  <2>5. Place'
    BY <2>1, <2>3, <2>4, Still DEF queueVars, irqVars, threadVars, Token
  <2>6. NoEmpties'
    BY <2>2 DEF Token, NoEmpties, Ready
  <2> QED
    BY <2>1, <2>5, <2>6 DEF Token, Started, Indices, queueVars
<1> QED
  BY <1>1, <1>2, <1>3, <1>4, <1>5, <1>6, <1>7

\* The host sends only when it waits for nothing: nothing is anywhere.
LEMMA SendToken ==
  ASSUME TypeInv, Token, OneAtATime, NEW i \in Entries, HostSend(i)
  PROVE  Token'
<1>1. out = {} /\ buf = sent /\ Nowhere
  <2>1. Cardinality(out) < 1
    BY DEF HostSend, OneAtATime
  <2>2. Cardinality({sent}) = 1
    BY FS_Singleton
  <2>3. out # {sent}
    BY <2>1, <2>2
  <2> QED
    BY <2>3 DEF Token, Place
<1>2. /\ sent' = sent + 1 /\ out' = {sent + 1} /\ Post(i, sent + 1, "fits")
      /\ sent \in Nat
  BY <1>1, Bounds DEF HostSend, TypeInv, HostT
<1>3. /\ UNCHANGED <<up, ccb, rq, queueVars, irqVars, threadVars>> /\ up
      /\ ~sq[i].occupied
  BY <1>2 DEF Post
<1>4. PICK s \in HostSeqs :
         sq' = [sq EXCEPT ![i] = [occupied |-> TRUE, consumed |-> FALSE,
                                  pkt |-> sent + 1, len |-> "fits", seq |-> s]]
  BY <1>2 DEF Post
<1>5. /\ \A j \in Entries : j # i => sq'[j] = sq[j]
      /\ sq'[i].pkt = sent + 1 /\ sq'[i].len = "fits"
  BY <1>4 DEF TypeInv, ShmT
<1>6. \A j \in InRing' : j = i
  <2> SUFFICES ASSUME NEW j \in Entries, j # i, j \in InRing' PROVE FALSE
    BY DEF InRing
  <2>1. j \in InRing
    BY <1>5 DEF InRing, Ready
  <2> QED
    BY <1>1, <2>1 DEF Nowhere
<1>7. Posted'
  <2>1. buf' = sent' - 1
    BY <1>1, <1>2, <1>3 DEF threadVars
  <2>2. size' = 0 /\ pc' \in Quiet /\ ~rq'.consumed
    BY <1>1, <1>3 DEF Nowhere, queueVars, threadVars
  <2>3. \A j \in InRing' : sq'[j].pkt = sent' /\ InRing' = {j}
    BY <1>2, <1>5, <1>6
  <2> QED
    BY <2>1, <2>2, <2>3 DEF Posted
<1>8. ccb.sqGo
  BY <1>3 DEF Token, Started, NoEmpties, Ready
<1>9. NoEmpties'
  BY <1>5 DEF Token, NoEmpties, Ready
<1>10. Place'
  BY <1>2, <1>7 DEF Place
<1> QED
  BY <1>3, <1>8, <1>9, <1>10 DEF Token, Started, Indices, queueVars

LEMMA TakeReplyToken ==
  ASSUME TypeInv, Token, HostTakeReply
  PROVE  Token'
<1>1. /\ rq.occupied /\ rq.consumed
      /\ out' = out \ {rq.data} /\ rq' = NoReply
      /\ UNCHANGED <<sent, up, ccb, sq, queueVars, irqVars, threadVars>>
  BY DEF HostTakeReply
<1>2. out = {sent} /\ Replied
  BY <1>1 DEF Token, Place, Nowhere, Posted, Queued, Given, Held
<1>3. out' = {} /\ buf' = sent' /\ Nowhere'
  BY <1>1, <1>2
  DEF Replied, Nowhere, NoReply, InRing, Ready, queueVars, threadVars
<1> QED
  BY <1>1, <1>3 DEF Token, Started, Indices, NoEmpties, Ready, Place, queueVars

LEMMA HostToken ==
  ASSUME TypeInv, Token, OneAtATime, Host
  PROVE  Token'
  BY HostStill, SendToken, TakeReplyToken DEF Host

\* probe() finds the queue empty: nothing fits into it before.
LEMMA ProbeToken ==
  ASSUME TypeInv, Token, ProbeQueue
  PROVE  Token'
<1>1. /\ UNCHANGED <<sent, out, up, ccb, sq, rq, irqVars, threadVars>>
      /\ probed' = TRUE /\ size' = 0 /\ head' = 0 /\ tail' = 0
      /\ maxSize' = QSize /\ irq = "off" /\ ~probed
  BY DEF ProbeQueue, hostVars, shmVars
<1>2. pc = "closed" /\ size = 0
  BY <1>1 DEF Token, Started, TypeInv, SleepInv, QueueT
<1>3. InRing' = InRing /\ \A i \in InRing : sq'[i].pkt = sq[i].pkt
  BY <1>1 DEF InRing, Ready
<1>4. Nowhere => Nowhere'
  BY <1>1, <1>3 DEF Nowhere, threadVars
<1>5. Posted => Posted'
  BY <1>1, <1>3 DEF Posted, threadVars
<1>6. Replied => Replied'
  BY <1>1, <1>3 DEF Replied, threadVars
<1>7. Nowhere \/ Posted \/ Replied
  BY <1>2 DEF Token, Place, Queued, Given, Held, Writing
<1>8. ~Queued /\ ~Given /\ ~Held
  BY <1>2 DEF Queued, Given, Held, Writing
<1>9. Place'
  BY <1>1, <1>4, <1>5, <1>6, <1>8 DEF Token, Place, threadVars
<1> QED
  BY <1>1, <1>9 DEF Token, Started, Indices, NoEmpties, Ready

-----------------------------------------------------------------------------
(* The interrupt handler                                                    *)

\* A packet goes from the ring to the queue, which is empty.
LEMMA PickToken ==
  ASSUME TypeInv, Token, PickPacket
  PROVE  Token'
<1>1. PICK i \in Entries : Chosen(i) /\ Push(i) /\ entry' = i
  BY DEF PickPacket
<1>2. /\ UNCHANGED <<sent, out, up, ccb, sq, rq, pc, reg, at, buf>>
      /\ irq = "pick" /\ irq' = "consume" /\ Ready(i)
  BY <1>1 DEF PickPacket, hostVars, shmVars, threadVars, Chosen, Eligible
<1>3. InRing' = InRing /\ \A j \in InRing : sq'[j].pkt = sq[j].pkt
  BY <1>2 DEF InRing, Ready
<1>4. CASE ~Pushable(i)
  <2>1. UNCHANGED <<probed, size, head, tail, maxSize, slot>>
    BY <1>1, <1>4 DEF Push, queueVars
  <2>2. Place'
    BY <1>2, <1>3, <2>1, Still DEF Token
  <2> QED
    BY <1>2, <2>1, <2>2 DEF Token, Started, Indices, NoEmpties, Ready
<1>5. CASE Pushable(i) /\ i \notin InRing
  <2>1. sq[i].len \in {"empty", "fits", "over"} /\ sq[i].len # "over"
        /\ sq[i].len # "fits"
    BY <1>2, <1>5 DEF Pushable, InRing, TypeInv, ShmT, Packet
  <2> QED
    BY <1>2, <2>1 DEF Token, NoEmpties, Ready
<1>6. CASE Pushable(i) /\ i \in InRing
  <2>1. Posted /\ out = {sent}
    BY <1>2, <1>6 DEF Token, Place, Nowhere, Queued, Given, Held, Replied
  <2>2. InRing = {i} /\ sq[i].pkt = sent /\ size = 0 /\ buf = sent - 1
        /\ pc \in Quiet /\ ~rq.consumed
    BY <1>6, <2>1 DEF Posted
  <2>3. /\ slot' = [slot EXCEPT ![tail] = sq[i].pkt]
        /\ size' = size + 1
        /\ tail' = IF tail + 1 >= maxSize THEN 0 ELSE tail + 1
        /\ UNCHANGED <<probed, head, maxSize>>
    BY <1>1, <1>6 DEF Push
  <2>4. maxSize = QSize /\ QSize > 0
    BY <1>6, <2>2, Bounds DEF Pushable, TypeInv, QueueT
  <2>5. tail = head
    BY <2>2, <2>4 DEF Token, Indices
  <2>6. slot'[head'] = sent'
    BY <1>2, <2>2, <2>3, <2>5 DEF TypeInv, QueueT
  <2>7. Queued'
    BY <1>1, <1>2, <1>3, <2>2, <2>3, <2>6 DEF Queued
  <2>8. Place'
    BY <1>2, <2>1, <2>7 DEF Place
  <2>9. Indices'
    BY <2>2, <2>3, <2>4, <2>5 DEF Indices
  <2> QED
    BY <1>2, <2>3, <2>8, <2>9 DEF Token, Started, NoEmpties, Ready
<1> QED
  BY <1>4, <1>5, <1>6

\* The entry goes back to the host: one that was pushed is only in the queue
\* from then on; one that was not, because there was no queue, is lost.
LEMMA MarkToken ==
  ASSUME TypeInv, Token, MarkConsumed
  PROVE  Token'
<1>1. /\ UNCHANGED <<sent, out, up, ccb, rq, queueVars, threadVars>>
      /\ irq = "consume" /\ irq' = "pick" /\ entry' = entry
      /\ sq' = [sq EXCEPT ![entry].consumed = TRUE]
  BY DEF MarkConsumed, hostVars
<1>2. entry \in Entries /\ sq[entry] \in Packet
  BY DEF TypeInv, ShmT, IrqT
<1>3. /\ \A j \in Entries : j # entry => sq'[j] = sq[j]
      /\ sq'[entry].consumed
  <2>1. sq' = [sq EXCEPT ![entry] = [sq[entry] EXCEPT !.consumed = TRUE]]
    BY <1>1, <1>2 DEF TypeInv, ShmT
  <2>2. [sq[entry] EXCEPT !.consumed = TRUE].consumed
    BY <1>2 DEF Packet
  <2> QED
    BY <1>2, <2>1, <2>2 DEF TypeInv, ShmT
<1>4. InRing' = InRing \ {entry}
  BY <1>2, <1>3 DEF InRing, Ready
<1>5. \A j \in InRing' : sq'[j].pkt = sq[j].pkt
  BY <1>3, <1>4 DEF InRing
<1>6. Nowhere => Nowhere'
  BY <1>1, <1>4 DEF Nowhere, queueVars, threadVars
<1>7. Posted => Posted'
  <2> SUFFICES ASSUME Posted PROVE Posted'
    OBVIOUS
  <2>1. \A i \in InRing' : sq'[i].pkt = sent' /\ InRing' = {i}
    BY <1>1, <1>4, <1>5 DEF Posted
  <2> QED
    BY <1>1, <2>1 DEF Posted, queueVars, threadVars
<1>8. Queued => Queued'
  <2> SUFFICES ASSUME Queued PROVE Queued'
    OBVIOUS
  <2>1. InRing' = {}
    BY <1>4 DEF Queued
  <2> QED
    BY <1>1, <2>1 DEF Queued, queueVars, threadVars
<1>9. (Given => Given') /\ (Held => Held') /\ (Replied => Replied')
  BY <1>1, <1>4 DEF Given, Held, Replied, queueVars, threadVars
<1>10. Place'
  BY <1>1, <1>6, <1>7, <1>8, <1>9 DEF Token, Place, threadVars
<1> QED
  BY <1>1, <1>10 DEF Token, Started, Indices, NoEmpties, Ready, queueVars

LEMMA IrqToken ==
  ASSUME TypeInv, Token, Irq
  PROVE  Token'
<1>1. CASE IrqEnter \/ IrqAck \/ IrqWake
  <2>1. /\ UNCHANGED <<sent, out, up, ccb, sq, rq, queueVars, pc, reg, at, buf>>
        /\ irq # "consume"
    BY <1>1 DEF IrqEnter, IrqAck, IrqWake, hostVars, shmVars, threadVars
  <2>2. Place'
    BY <2>1, Still DEF queueVars, InRing, Ready, Token
  <2> QED
    BY <2>1, <2>2 DEF Token, Started, Indices, NoEmpties, Ready, queueVars
<1>2. CASE ActiveCcb
  <2>1. /\ UNCHANGED <<sent, out, up, sq, rq, queueVars, threadVars>>
        /\ irq = "active" /\ ccb' = [ccb EXCEPT !.sqActive = ccb.sqGo]
    BY <1>2 DEF ActiveCcb, hostVars
  <2>2. ccb'.sqGo = ccb.sqGo
    BY <2>1 DEF TypeInv, ShmT
  <2>3. Place'
    BY <2>1, Still DEF queueVars, threadVars, InRing, Ready, Token
  <2> QED
    BY <2>1, <2>2, <2>3 DEF Token, Started, Indices, NoEmpties, Ready, queueVars
<1>3. CASE ConsumeEmpties
  <2>1. /\ UNCHANGED <<sent, out, up, ccb, rq, queueVars, threadVars>>
        /\ irq = "empties"
    BY <1>3 DEF ConsumeEmpties, hostVars
  <2>2. sq' = sq
    <3>1. \A i \in Entries : ~(Ready(i) /\ sq[i].len = "empty")
      BY DEF Token, NoEmpties, Ready
    <3>2. sq' = [i \in Entries |-> sq[i]]
      BY <1>3, <3>1 DEF ConsumeEmpties
    <3> QED
      BY <3>2 DEF TypeInv, ShmT
  <2>3. Place'
    BY <2>1, <2>2, Still DEF queueVars, threadVars, InRing, Ready, Token
  <2> QED
    BY <2>1, <2>2, <2>3 DEF Token, Started, Indices, NoEmpties, Ready, queueVars
<1> QED
  BY <1>1, <1>2, <1>3, PickToken, MarkToken DEF Irq

-----------------------------------------------------------------------------
(* The reader                                                               *)

LEMMA OpenToken ==
  ASSUME TypeInv, Token, Open
  PROVE  Token'
<1>1. /\ UNCHANGED <<sent, out, up, ccb, sq, rq, irqVars, reg, at, buf>>
      /\ pc = "closed" /\ pc' = "pop" /\ irq = "off" /\ probed
  BY DEF Open, Step, hostVars, shmVars
<1>2. InRing' = InRing /\ \A i \in InRing : sq'[i].pkt = sq[i].pkt
  BY <1>1 DEF InRing, Ready
<1>3. CASE ccb.sqGo
  <2>1. UNCHANGED queueVars
    BY <1>3 DEF Open
  <2>2. Place'
    BY <1>1, <1>2, <2>1, Still DEF queueVars, Token, Quiet
  <2> QED
    BY <1>1, <2>1, <2>2 DEF Token, Started, Indices, NoEmpties, Ready, queueVars
<1>4. CASE ~ccb.sqGo
  <2>1. /\ probed' = probed /\ size' = 0 /\ head' = 0 /\ tail' = 0
        /\ maxSize' = QSize
    BY <1>4 DEF Open
  <2>2. sent = 0
    BY <1>4 DEF Token, Started, TypeInv, HostT
  <2>3. out # {sent}
    BY <2>2, Bounds DEF TypeInv, HostT, Requests
  <2>4. buf = sent /\ Nowhere /\ out = {}
    BY <2>3 DEF Token, Place
  <2>5. Nowhere'
    BY <1>1, <1>2, <2>1, <2>4 DEF Nowhere, Quiet
  <2>6. Place'
    BY <1>1, <2>4, <2>5 DEF Place
  <2> QED
    BY <1>1, <2>1, <2>6 DEF Token, Started, Indices, NoEmpties, Ready
<1> QED
  BY <1>3, <1>4

LEMMA PopToken ==
  ASSUME TypeInv, Token, ReadPop \/ ReadRepop \/ PopReload
  PROVE  Token'
<1>1. /\ UNCHANGED <<sent, out, up, ccb, sq, rq, queueVars, irqVars, at, buf>>
      /\ reg' = size /\ irq = "off"
      /\ pc \in {"pop", "repop", "take"}
      /\ pc' = IF pc # "take" /\ size = 0
               THEN (IF pc = "pop" THEN "enqueue" ELSE "prepare") ELSE "take"
  BY DEF ReadPop, ReadRepop, PopReload, PopLoad, Step, hostVars, shmVars
<1>2. InRing' = InRing /\ \A i \in InRing : sq'[i].pkt = sq[i].pkt
  BY <1>1 DEF InRing, Ready
<1>3. CASE size = 0
  <2>1. pc # "take"
    BY <1>3 DEF TypeInv, Loaded
  <2>2. pc \in Quiet /\ pc' \in Quiet
    BY <1>1, <1>3, <2>1 DEF Quiet
  <2>3. ~Queued /\ ~Given /\ ~Held
    BY <1>1, <1>3 DEF Queued, Given, Held, Writing
  <2>4. /\ Nowhere => Nowhere'
        /\ Posted => Posted'
        /\ Replied => Replied'
    BY <1>1, <1>2, <2>2 DEF Nowhere, Posted, Replied, queueVars
  <2>5. Place'
    BY <1>1, <2>3, <2>4 DEF Token, Place
  <2> QED
    BY <1>1, <2>5 DEF Token, Started, Indices, NoEmpties, Ready, queueVars
<1>4. CASE size # 0
  <2>1. Queued /\ out = {sent}
    BY <1>4 DEF Token, Place, Nowhere, Posted, Given, Held, Replied
  <2>2. Queued'
    BY <1>1, <1>2, <1>4, <2>1 DEF Queued, queueVars, irqVars
  <2>3. Place'
    BY <1>1, <2>1, <2>2 DEF Place
  <2> QED
    BY <1>1, <2>3 DEF Token, Started, Indices, NoEmpties, Ready, queueVars
<1> QED
  BY <1>3, <1>4

\* The packet leaves the queue, and its slot is given up.
LEMMA StoreToken ==
  ASSUME TypeInv, Token, PopStore
  PROVE  Token'
<1>1. /\ UNCHANGED <<sent, out, up, ccb, sq, rq, irqVars, buf,
                     probed, tail, maxSize, slot>>
      /\ at' = head /\ size' = reg - 1 /\ irq = "off"
      /\ pc = "take" /\ pc' = "leave"
      /\ head' = IF head + 1 >= maxSize THEN 0 ELSE head + 1
  BY DEF PopStore, Step, hostVars, shmVars
<1>2. Queued /\ out = {sent}
  BY <1>1 DEF Token, Place, Nowhere, Posted, Given, Held, Replied, Quiet, Writing
<1>3. reg = 1 /\ size = 1 /\ InRing = {}
  BY <1>1, <1>2 DEF Queued, Quiet
<1>4. maxSize = QSize /\ QSize > 0
  BY <1>3, Bounds DEF TypeInv, QueueT
<1>5. Given'
  <2>1. InRing' = {} /\ size' = 0
    BY <1>1, <1>3 DEF InRing, Ready
  <2> QED
    BY <1>1, <1>2, <2>1 DEF Queued, Given
<1>6. Indices'
  <2>1. tail = IF head + 1 >= QSize THEN 0 ELSE head + 1
    BY <1>3, <1>4 DEF Token, Indices
  <2> QED
    BY <1>1, <1>3, <1>4, <2>1 DEF Indices
<1>7. Place'
  BY <1>1, <1>2, <1>5 DEF Place
<1> QED
  BY <1>1, <1>6, <1>7 DEF Token, Started, NoEmpties, Ready

LEMMA SleepToken ==
  ASSUME TypeInv, Token,
         ReadEnqueue \/ ReadAnnounce \/ ReadPrepare \/ ReadSchedule
  PROVE  Token'
<1>1. /\ UNCHANGED <<sent, out, up, ccb, sq, rq, queueVars, irqVars, reg, at, buf>>
      /\ pc \in Quiet /\ pc' \in Quiet
  BY DEF ReadEnqueue, ReadAnnounce, ReadPrepare, ReadSchedule, Step, hostVars,
         shmVars, Quiet
<1>2. Place'
  BY <1>1, Still DEF queueVars, irqVars, InRing, Ready, Token
<1> QED
  BY <1>1, <1>2 DEF Token, Started, Indices, NoEmpties, Ready, queueVars

LEMMA CopyToken ==
  ASSUME TypeInv, Token, ReadLeave \/ ReadCopy
  PROVE  Token' /\ (ReadCopy => buf' = buf + 1)
<1>1. /\ UNCHANGED <<sent, out, up, ccb, sq, rq, queueVars, irqVars, at>>
      /\ pc \in {"leave", "copy"}
  BY DEF ReadLeave, ReadCopy, Step, hostVars, shmVars
<1>2. Given /\ out = {sent}
  BY <1>1 DEF Token, Place, Nowhere, Posted, Queued, Held, Replied, Quiet, Writing
<1>3. InRing' = {}
  BY <1>1, <1>2 DEF Given, InRing, Ready
<1>4. sent \in Nat \ {0} /\ slot[at] = sent /\ buf = sent - 1
  BY <1>2, Bounds DEF Given, TypeInv, HostT, Requests
<1>5. CASE ReadLeave
  <2>1. pc' = "copy" /\ buf' = buf /\ pc # "copy"
    BY <1>5 DEF ReadLeave, Step
  <2>2. Given'
    BY <1>1, <1>2, <1>3, <2>1 DEF Given, queueVars
  <2>3. Place'
    BY <1>1, <1>2, <2>2 DEF Place
  <2>4. ~ReadCopy
    BY <2>1, <1>5 DEF ReadCopy, ReadLeave, Step
  <2> QED
    BY <1>1, <2>3, <2>4 DEF Token, Started, Indices, NoEmpties, Ready, queueVars
<1>6. CASE ReadCopy
  <2>1. pc' = "go" /\ buf' = sent
    BY <1>4, <1>6 DEF ReadCopy, Step
  <2>2. Held'
    BY <1>1, <1>2, <1>3, <2>1 DEF Given, Held, Writing, queueVars
  <2>3. Place'
    BY <1>1, <1>2, <2>2 DEF Place
  <2> QED
    BY <1>1, <1>4, <2>1, <2>3 DEF Token, Started, Indices, NoEmpties, Ready, queueVars
<1> QED
  BY <1>5, <1>6

-----------------------------------------------------------------------------
(* chif_write                                                               *)

LEMMA WriteToken ==
  ASSUME TypeInv, Token,
         \/ WriteGo \/ WriteLength \/ WriteOccupied \/ WritePoll
         \/ WriteConsumed \/ WriteData \/ WritePublish
  PROVE  Token'
<1>1. /\ UNCHANGED <<sent, out, up, sq, queueVars, irqVars, reg, at, buf>>
      /\ pc \in Writing
  BY DEF WriteGo, WriteLength, WriteOccupied, WritePoll, WriteConsumed,
         WriteData, WritePublish, WriteStep, Step, hostVars, Writing
<1>2. Held /\ out = {sent}
  BY <1>1 DEF Token, Place, Nowhere, Posted, Queued, Given, Replied, Quiet, Writing
<1>3. InRing' = {} /\ size' = 0 /\ buf' = sent'
  BY <1>1, <1>2 DEF Held, InRing, Ready, queueVars
<1>4. ccb'.sqGo = ccb.sqGo
  <2>1. CASE WriteGo
    BY <2>1 DEF WriteGo, TypeInv, ShmT
  <2>2. CASE UNCHANGED ccb
    BY <2>2
  <2> QED
    BY <2>1, <2>2 DEF WriteLength, WriteOccupied, WritePoll, WriteConsumed,
                      WriteData, WritePublish
<1>5. Started' /\ Indices' /\ NoEmpties'
  BY <1>1, <1>4 DEF Token, Started, Indices, NoEmpties, Ready, queueVars
<1>6. CASE pc' = "pop" /\ ~WritePublish
  <2>1. rq' = rq
    BY <1>6 DEF WriteGo, WriteLength, WriteOccupied, WritePoll, WriteConsumed,
                WriteData, WriteStep, Step
  <2>2. Nowhere'
    BY <1>2, <1>3, <1>6, <2>1 DEF Held, Nowhere, Quiet
  <2> QED
    BY <1>1, <1>2, <1>3, <1>5, <2>2 DEF Token, Place
<1>7. CASE WritePublish
  <2>1. pc = "publish" /\ pc' = "pop" /\ rq' = [rq EXCEPT !.consumed = TRUE]
    BY <1>7 DEF WritePublish, WriteStep, Step
  <2>2. rq'.occupied = rq.occupied /\ rq'.qwords = rq.qwords /\ rq'.data = rq.data
    BY <2>1 DEF TypeInv, ShmT
  <2>3. Replied'
    BY <1>1, <1>2, <1>3, <2>1, <2>2 DEF Held, Replied, Quiet
  <2> QED
    BY <1>1, <1>2, <1>5, <2>3 DEF Token, Place
<1>8. CASE pc' # "pop" /\ ~WritePublish
  <2>1. pc' \in Writing \ {"go"}
    BY <1>8 DEF WriteGo, WriteLength, WriteOccupied, WritePoll, WriteConsumed,
                WriteData, WriteStep, Step, Writing
  <2>2. CASE WriteGo
    BY <1>1, <1>2, <1>3, <1>5, <1>8, <2>2
    DEF WriteGo, WriteStep, Step, Held, Writing, Token, Place
  <2>3. CASE WriteLength
    <3>1. /\ rq'.qwords = buf /\ rq'.consumed = rq.consumed /\ pc' = "occupied"
      BY <2>3 DEF WriteLength, WriteStep, Step, TypeInv, ShmT
    <3>2. Held'
      BY <1>2, <1>3, <3>1, <1>1 DEF Held, Writing
    <3> QED
      BY <1>1, <1>2, <1>5, <3>2 DEF Token, Place
  <2>4. CASE WriteData
    <3>1. /\ rq'.qwords = rq.qwords /\ rq'.consumed = rq.consumed
          /\ rq'.occupied = rq.occupied /\ rq'.data = buf
          /\ pc' = "publish" /\ pc = "data"
      BY <2>4 DEF WriteData, WriteStep, Step, TypeInv, ShmT
    <3>2. Held'
      BY <1>2, <1>3, <3>1, <1>1 DEF Held, Writing
    <3> QED
      BY <1>1, <1>2, <1>5, <3>2 DEF Token, Place
  <2>5. CASE WriteOccupied \/ WritePoll \/ WriteConsumed
    <3>1. /\ rq' = rq /\ pc \in {"occupied", "poll", "consumed"}
          /\ pc' \in {"poll", "consumed", "data"}
          /\ pc' = "consumed" => rq.occupied
          /\ pc' = "data" => pc = "consumed"
      BY <1>8, <2>5 DEF WriteOccupied, WritePoll, WriteConsumed, WriteStep, Step
    <3>2. Held'
      BY <1>1, <1>2, <1>3, <3>1 DEF Held, Writing
    <3> QED
      BY <1>1, <1>2, <1>5, <3>2 DEF Token, Place
  <2> QED
    BY <1>8, <2>2, <2>3, <2>4, <2>5
<1> QED
  BY <1>6, <1>7, <1>8

\* A daemon that dies before it answers takes the request with it.
LEMMA CrashToken ==
  ASSUME TypeInv, Token, Crash
  PROVE  Token'
<1>1. /\ UNCHANGED <<sent, out, up, ccb, sq, rq, queueVars, irqVars, reg, at, buf>>
      /\ pc \in {"pop", "go", "schedule"} /\ pc' = "closed"
  BY DEF Crash, Step, hostVars, shmVars
<1>2. InRing' = InRing /\ \A i \in InRing : sq'[i].pkt = sq[i].pkt
  BY <1>1 DEF InRing, Ready
<1>3. CASE pc # "go"
  <2>1. Place'
    BY <1>1, <1>2, <1>3, Still DEF queueVars, irqVars, Token, Quiet
  <2> QED
    BY <1>1, <2>1 DEF Token, Started, Indices, NoEmpties, Ready, queueVars
<1>4. CASE pc = "go"
  <2>1. Held /\ out = {sent}
    BY <1>4
    DEF Token, Place, Nowhere, Posted, Queued, Given, Replied, Quiet
  <2>2. Nowhere' /\ buf' = sent'
    BY <1>1, <1>2, <2>1 DEF Held, Nowhere, Quiet, queueVars
  <2>3. Place'
    BY <1>1, <2>1, <2>2 DEF Place
  <2> QED
    BY <1>1, <2>3 DEF Token, Started, Indices, NoEmpties, Ready, queueVars
<1> QED
  BY <1>3, <1>4

LEMMA TokenInit == Init => Token
<1> SUFFICES ASSUME Init PROVE Token
  OBVIOUS
<1>1. InRing = {} /\ NoEmpties
  BY DEF Init, InRing, Ready, FreeEntry, NoEmpties
<1>2. Nowhere /\ out = {} /\ buf = sent
  BY <1>1 DEF Init, Nowhere, NoReply, Quiet
<1> QED
  BY <1>1, <1>2 DEF Init, Token, Started, Indices, Place

LEMMA TokenNext ==
  ASSUME TypeInv, Token, OneAtATime, [Next]_vars
  PROVE  Token'
<1>1. CASE UNCHANGED vars
  <2>1. UNCHANGED <<sent, out, up, ccb, sq, rq, queueVars, irqVars, threadVars>>
    BY <1>1 DEF vars, hostVars, shmVars
  <2>2. Place'
    BY <2>1, Still DEF queueVars, irqVars, threadVars, InRing, Ready, Token
  <2> QED
    BY <2>1, <2>2 DEF Token, Started, Indices, NoEmpties, Ready, queueVars
<1> QED
  BY <1>1, CrashToken, HostToken, ProbeToken, IrqToken, OpenToken, PopToken,
     StoreToken, SleepToken, CopyToken, WriteToken DEF Next, Thread

LEMMA TokenAlways == ASSUME OneAtATime PROVE Spec => [](TypeInv /\ Token)
<1>1. TypeInv /\ Token /\ [Next]_vars => TypeInv' /\ Token'
  BY TypeNext, TokenNext
<1> QED
  BY <1>1, TypeInit, TokenInit, PTL DEF Spec

\* The queue's three indices agree between pops, however the interrupt's pushes
\* fall between the reader's steps (chif_queue_push, chif_queue_pop).
THEOREM QueueStaysExact == ASSUME OneAtATime PROVE Spec => []QueueExact
<1>1. TypeInv /\ Token => QueueExact
  <2> SUFFICES ASSUME TypeInv, Token, maxSize > 0
               PROVE  tail = (head + size) % QSize
    BY DEF QueueExact
  <2>1. /\ tail = IF size = 0 THEN head
                  ELSE IF head + 1 >= QSize THEN 0 ELSE head + 1
        /\ size \in {0, 1} /\ head \in 0..(QSize - 1) /\ QSize \in Nat \ {0}
    BY Bounds DEF Token, Indices, Place, Nowhere, Posted, Queued, Given, Held,
                  Replied, TypeInv, QueueT, Slots
  <2>2. \A n \in Nat \ {0} : n % n = 0 /\ \A h \in 0..(n - 1) : h % n = h
    OBVIOUS
  <2> QED
    BY <2>1, <2>2
<1> QED
  BY <1>1, TokenAlways, PTL

\* A reply the host may take carries the length of its own data, although
\* chif_write stores the length before it knows that the entry is free.
THEOREM RepliesIntact == ASSUME OneAtATime PROVE Spec => []ReplyIntact
<1>1. Token => ReplyIntact
  BY DEF Token, Place, Nowhere, Posted, Queued, Given, Held, Replied, ReplyIntact
<1> QED
  BY <1>1, TokenAlways, PTL

\* A reply the host may take answers the request it waits for: none is left over
\* from a request before (chif_write).
THEOREM RepliesMatch == ASSUME OneAtATime PROVE Spec => []ReplyMatches
<1>1. Token => ReplyMatches
  BY DEF Token, Place, Nowhere, Posted, Queued, Given, Held, Replied, ReplyMatches
<1> QED
  BY <1>1, TokenAlways, PTL

\* Each request that chif_read returns is the one after the one before it,
\* although chif_queue_pop gives the slot up before chif_read has copied it.
THEOREM ReadInOrder == ASSUME OneAtATime PROVE Spec => DeliveredInOrder
<1>1. TypeInv /\ Token /\ [Next]_vars =>
         [pc = "copy" /\ pc' = "go" => buf' = buf + 1]_vars
  <2> SUFFICES ASSUME TypeInv, Token, Next, pc = "copy", pc' = "go"
               PROVE  buf' = buf + 1
    OBVIOUS
  <2>1. ~Host /\ ~Irq
    BY HostStep, IrqStep
  <2>2. ReadCopy
    BY <2>1 DEF Next, Thread, ProbeQueue, threadVars, Crash, Open, ReadPop,
       ReadRepop, PopLoad, PopReload, PopStore, ReadEnqueue, ReadAnnounce,
       ReadPrepare, ReadSchedule, ReadLeave, WriteGo, WriteLength,
       WriteOccupied, WritePoll, WriteConsumed, WriteData, WritePublish,
       WriteStep, Step
  <2> QED
    BY <2>2, CopyToken
<1> QED
  BY <1>1, TokenAlways, PTL DEF Spec, DeliveredInOrder
=============================================================================

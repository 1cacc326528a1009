------------------------ MODULE SmbiosTransferProofs ------------------------
(***************************************************************************)
(* OneSession for blobs, boots, repeated commands and daemon deaths of any   *)
(* number, whatever fails.                                                   *)
(*                                                                           *)
(* The argument is about the channel: commands are handled in the order the  *)
(* host sent them, so that from the answer to begin on, all that is under    *)
(* way belongs to this boot (Channel).  Hence the records collected belong   *)
(* to the boot of the next blob that is handled, and were not sent after it  *)
(* (Session); the files only ever take over what was collected (Files).      *)
(***************************************************************************)
EXTENDS SmbiosTransfer, SumsTheorems, SequenceTheorems

\* A message is one the host has sent, in this boot or before, or none.
Past(m) ==
    /\ m \in [boot : 0..boot, step : Steps]
    /\ m.boot = 0 => m.step = 0
    /\ m.boot = boot => m.step <= step

\* The host of this boot has spoken.
Begun == waits \/ step > 0

\* The answer to begin of this boot has been given.
Open == step > 0 \/ (answer.boot = boot /\ answer.step = 0)

Current(m) == m.boot \in {0, boot}

Finalizing == {"finalize", "write", "close", "rename", "synchronize"}

Messages ==
    /\ boot \in 1..MaxBoots /\ step \in Steps /\ waits \in BOOLEAN
    /\ Past(request) /\ Past(answer) /\ Past(handling)

Order ==
    /\ Begun => Current(request)
    /\ boot \in {request.boot, answer.boot, handling.boot} => Begun
    /\ Open => Current(handling)
    /\ request.step > 0 /\ handling.boot > 0 =>
          handling.boot = request.boot /\ handling.step <= request.step
    /\ pc \in Finalizing => handling.step = End

Channel == Messages /\ Order

\* All of rs was sent in boot b, at step s at the latest.
UpTo(rs, b, s) ==
    \A i \in DOMAIN rs : rs[i].boot = b /\ rs[i].step <= s

Session ==
    /\ records \in Seq(Label) /\ InOrder(records)
    /\ Open => UpTo(records, boot, step)
    /\ request.step > 0 => UpTo(records, request.boot, request.step)
    /\ pc = "command" /\ handling.step > 0 =>
          UpTo(records, handling.boot, handling.step)
    /\ pc = "respond" /\ step = 0 /\ handling.boot = boot /\ handling.step = 0 =>
          UpTo(records, boot, 0)

Types ==
    /\ directoryVersion \in 0..(VersionMod - 1)
    /\ {temp, final, mdr} \subseteq SmbiosFile

Files == \A f \in {temp, final, mdr} : InOrder(f.records)

-----------------------------------------------------------------------------
(* Sequences of records                                                     *)

LEMMA StepsAreNat == End \in Nat \ {0} /\ Steps \subseteq Nat
  BY TransferAssumption DEF End, Steps

LEMMA LabelStep == \A l \in Label : l.step \in Nat
<1>1. \A l \in Label : l.step \in Steps
  BY DEF Label
<1> QED  BY <1>1, StepsAreNat

LEMMA EmptyOK ==
    /\ <<>> \in Seq(Label) /\ InOrder(<<>>)
    /\ \A b, s : UpTo(<<>>, b, s)
  BY DEF InOrder, UpTo

\* Records of a later step of the same boot may follow.
LEMMA Extend ==
    ASSUME NEW rs \in Seq(Label), NEW es \in Seq(Label),
           NEW b, NEW s \in Int, InOrder(rs), UpTo(rs, b, s),
           \A i \in DOMAIN es : es[i].boot = b /\ es[i].step = s
    PROVE  /\ rs \o es \in Seq(Label)
           /\ InOrder(rs \o es) /\ UpTo(rs \o es, b, s)
<1> DEFINE cs == rs \o es
<1>1. /\ cs \in Seq(Label) /\ Len(cs) = Len(rs) + Len(es)
      /\ \A i \in 1..Len(cs) :
            cs[i] = IF i <= Len(rs) THEN rs[i] ELSE es[i - Len(rs)]
  OBVIOUS
<1>2. /\ Len(rs) \in Nat /\ Len(es) \in Nat /\ Len(cs) \in Nat
      /\ DOMAIN rs = 1..Len(rs) /\ DOMAIN es = 1..Len(es)
      /\ DOMAIN cs = 1..Len(cs)
  BY <1>1
<1>3. ASSUME NEW i \in 1..Len(cs)
      PROVE  cs[i].boot = b /\ cs[i].step <= s /\ cs[i].step \in Int
  <2>1. CASE i <= Len(rs)
    <3>1. i \in 1..Len(rs) /\ cs[i] = rs[i] /\ rs[i] \in Label
      BY <1>1, <1>2, <2>1
    <3>2. rs[i].step \in Int
      BY <3>1, LabelStep
    <3> QED  BY <3>1, <3>2, <1>2 DEF UpTo
  <2>2. CASE i > Len(rs)
    <3>1. i - Len(rs) \in 1..Len(es) /\ cs[i] = es[i - Len(rs)]
      BY <1>1, <1>2, <2>2
    <3> QED  BY <3>1, <1>2
  <2> QED  BY <2>1, <2>2, <1>2
<1>4. UpTo(cs, b, s)
  BY <1>2, <1>3 DEF UpTo
<1>5. ASSUME NEW i \in 1..Len(cs), NEW j \in 1..Len(cs), i <= j
      PROVE  cs[i].step <= cs[j].step
  <2>1. CASE j <= Len(rs)
    <3>1. i \in 1..Len(rs) /\ j \in 1..Len(rs) /\ cs[i] = rs[i] /\ cs[j] = rs[j]
      BY <1>1, <1>2, <1>5, <2>1
    <3> QED  BY <3>1, <1>2, <1>5 DEF InOrder
  <2>2. CASE j > Len(rs)
    <3>1. j - Len(rs) \in 1..Len(es) /\ cs[j] = es[j - Len(rs)]
      BY <1>1, <1>2, <2>2
    <3> QED  BY <3>1, <1>2, <1>3
  <2> QED  BY <2>1, <2>2, <1>2
<1>6. InOrder(cs)
  BY <1>2, <1>3, <1>5 DEF InOrder
<1> QED  BY <1>1, <1>4, <1>6
-----------------------------------------------------------------------------
(* The channel                                                              *)

IInv == Channel /\ Session /\ Files

LEMMA NoMessage ==
    /\ 0 \in Steps /\ Nothing.boot = 0 /\ Nothing.step = 0
    /\ \A n \in Nat : Nothing \in [boot : 0..n, step : Steps]
  BY StepsAreNat DEF Nothing, Steps

LEMMA InitInv == Init => IInv
<1> SUFFICES ASSUME Init PROVE IInv
  OBVIOUS
<1>0. Past(Nothing)
  BY NoMessage, TransferAssumption, 1 \in Nat DEF Init, Past
<1>a. 1 \in 1..MaxBoots
  BY TransferAssumption
<1>b. boot \in 1..MaxBoots /\ step \in Steps /\ waits \in BOOLEAN
  BY <1>a, NoMessage DEF Init
<1>c. Past(request) /\ Past(answer) /\ Past(handling)
  BY <1>0 DEF Init
<1>1. Messages
  BY <1>b, <1>c DEF Messages
<1>2. Order
  BY NoMessage DEF Init, Order, Begun, Open, Current, Finalizing
<1>3. Session
  BY EmptyOK, NoMessage DEF Init, Session, Open
<1>4. Files
  BY EmptyOK DEF Init, Files, Absent
<1> QED  BY <1>1, <1>2, <1>3, <1>4 DEF IInv, Channel

\* The host sends its command, for the first time or again.
LEMMA SendInv ==
    ASSUME IInv, HostSend \/ HostRetry
    PROVE  IInv'
<1> USE DEF IInv, Channel
<1>0. /\ request' = Command /\ waits' = TRUE /\ request = Nothing
      /\ UNCHANGED <<boot, step, answer, pc, handling, records, fileVars, mdr>>
  BY DEF HostSend, HostRetry, chanVars, writerVars, threadVars, mdrVars
<1>1. /\ Command.boot = boot /\ Command.step = step
      /\ Command \in [boot : 0..boot, step : Steps]
  BY DEF Command, Messages
<1>2. boot \in Nat \ {0} /\ step \in Nat
  BY StepsAreNat DEF Messages
<1>3. Messages'
  BY <1>0, <1>1, <1>2 DEF Messages, Past
<1>4. Order'
  BY <1>0, <1>1, <1>2 DEF Order, Messages, Past, Begun, Open, Current
<1>5. Session'
  BY <1>0, <1>1, <1>2 DEF Session, Open, UpTo, InOrder
<1>6. Files'
  BY <1>0 DEF Files, fileVars, InOrder
<1> QED  BY <1>3, <1>4, <1>5, <1>6

LEMMA ReceiveInv ==
    ASSUME IInv, HostReceive
    PROVE  IInv'
<1> USE DEF IInv, Channel
<1>0. /\ answer' = Nothing /\ answer # Nothing
      /\ UNCHANGED <<boot, request, pc, handling, records, fileVars, mdr>>
  BY DEF HostReceive, writerVars, threadVars, mdrVars
<1>1. boot \in Nat \ {0} /\ step \in Nat
  BY StepsAreNat DEF Messages
<1>2. CASE step' = step + 1 /\ waits' = FALSE /\ answer = Command /\ step # End
  <2>1. answer.boot = boot /\ answer.step = step
    BY <1>2 DEF Command
  <2>2. step' \in Steps
    BY <1>2, StepsAreNat DEF Messages, Steps
  <2>3. Open
    BY <1>1, <2>1 DEF Open
  <2>4. Begun
    BY <2>1 DEF Order
  <2>5. Messages'
    <3>1. ASSUME NEW m, Past(m) PROVE Past(m)'
      <4>1. m.step \in Nat
        BY <3>1, StepsAreNat DEF Past
      <4> QED  BY <1>0, <1>1, <1>2, <3>1, <4>1 DEF Past
    <3>2. Past(Nothing)'
      BY <1>0, <1>1, <2>2, NoMessage DEF Past
    <3> QED  BY <1>0, <1>2, <2>2, <3>1, <3>2 DEF Messages, Past
  <2>6. Order'
    BY <1>0, <1>1, <1>2, <2>3, <2>4, NoMessage
       DEF Order, Begun, Open, Current, Finalizing
  <2>7. UpTo(records, boot, step')
    <3>1. ASSUME NEW i \in DOMAIN records
          PROVE  records[i].boot = boot /\ records[i].step <= step'
      <4>1. records[i].step \in Nat
        BY LabelStep DEF Session
      <4> QED  BY <1>1, <1>2, <2>3, <4>1 DEF Session, UpTo
    <3> QED  BY <3>1 DEF UpTo
  <2>8. Session'
    BY <1>0, <1>1, <1>2, <2>7 DEF Session, Open, UpTo, InOrder
  <2> QED  BY <1>0, <2>5, <2>6, <2>8 DEF Files, fileVars, InOrder
<1>3. CASE UNCHANGED <<step, waits>>
  <2>1. Open' => Open
    BY <1>0, <1>1, <1>3, NoMessage DEF Open
  <2>2. Messages'
    BY <1>0, <1>1, <1>3, NoMessage DEF Messages, Past
  <2>3. Order'
    BY <1>0, <1>1, <1>3, <2>1, NoMessage DEF Order, Begun, Current, Finalizing
  <2>4. Session'
    BY <1>0, <1>3, <2>1 DEF Session, UpTo, InOrder
  <2> QED  BY <1>0, <2>2, <2>3, <2>4 DEF Files, fileVars, InOrder
<1> QED  BY <1>2, <1>3 DEF HostReceive

\* After a reboot the messages under way are of an earlier boot.
LEMMA RebootInv ==
    ASSUME IInv, HostReboot
    PROVE  IInv'
<1> USE DEF IInv, Channel
<1>0. /\ boot' = boot + 1 /\ step' = 0 /\ waits' = FALSE /\ boot < MaxBoots
      /\ UNCHANGED <<request, answer, pc, handling, records, fileVars, mdr>>
  BY DEF HostReboot, chanVars, writerVars, threadVars, mdrVars
<1>1. boot \in Nat \ {0}
  BY DEF Messages
<1>2. \A m : Past(m) => Past(m)' /\ m.boot # boot'
  BY <1>0, <1>1 DEF Past
<1>a. boot' \in 1..MaxBoots /\ step' \in Steps /\ waits' \in BOOLEAN
  <2>1. MaxBoots \in Nat
    BY TransferAssumption
  <2>2. boot' \in 1..MaxBoots
    BY <1>0, <1>1, <2>1
  <2> QED  BY <1>0, <2>2, NoMessage
<1>b. Past(request)' /\ Past(answer)' /\ Past(handling)'
  BY <1>0, <1>2 DEF Messages
<1>3. Messages'
  BY <1>a, <1>b DEF Messages
<1>4. Order' /\ ~Open' /\ handling'.boot # boot'
  BY <1>0, <1>1, <1>2 DEF Messages, Order, Begun, Open, Finalizing
<1>5. Session'
  BY <1>0, <1>4 DEF Session, UpTo, InOrder
<1>6. Files'
  BY <1>0 DEF Files, fileVars, InOrder
<1> QED  BY <1>3, <1>4, <1>5, <1>6

-----------------------------------------------------------------------------
(* The daemon's thread                                                      *)

\* A command leaves the channel and begins.
LEMMA HandleInv ==
    ASSUME IInv, Handle
    PROVE  IInv'
<1> USE DEF IInv, Channel
<1>0. /\ handling' = request /\ request' = Nothing /\ request # Nothing
      /\ pc' = "command"
      /\ UNCHANGED <<boot, step, waits, answer, records, fileVars, mdr>>
  BY DEF Handle, hostVars, writerVars, mdrVars
<1>1. boot \in Nat \ {0} /\ step \in Nat
  BY StepsAreNat DEF Messages
<1>2. Past(Nothing)
  BY <1>1, NoMessage DEF Past
<1>3. Messages'
  BY <1>0, <1>2 DEF Messages, Past
<1>4. Order'
  <2>1. Open => Begun
    BY DEF Open, Order, Begun
  <2>2. Begun' = Begun /\ Open' = Open
    BY <1>0 DEF Begun, Open
  <2> QED  BY <1>0, <1>1, <2>1, <2>2, NoMessage DEF Order, Current, Finalizing
<1>5. Session'
  BY <1>0, NoMessage DEF Session, Open, UpTo, InOrder
<1>6. Files'
  BY <1>0 DEF Files, fileVars, InOrder
<1> QED  BY <1>3, <1>4, <1>5, <1>6

\* The thread goes on with the command it has, and the channel stays.
LEMMA StayInv ==
    ASSUME IInv, UNCHANGED <<hostVars, chanVars, handling>>,
           pc' \in Finalizing => handling.step = End
    PROVE  Channel' /\ Open' = Open
<1> USE DEF IInv, Channel, hostVars, chanVars
<1>1. Messages'
  BY DEF Messages, Past
<1>2. Order' /\ Open' = Open
  BY DEF Order, Begun, Open, Current
<1> QED  BY <1>1, <1>2

\* begin forgets what was collected.
LEMMA BeginInv ==
    ASSUME IInv, HandleBegin
    PROVE  IInv'
<1>0. /\ records' = <<>> /\ pc' = "respond"
      /\ UNCHANGED <<hostVars, chanVars, handling, fileVars, mdr>>
  BY DEF HandleBegin, mdrVars
<1>1. Channel'
  BY <1>0, StayInv DEF Finalizing
<1>2. Session'
  BY <1>0, EmptyOK DEF Session
<1>3. Files'
  BY <1>0 DEF IInv, Files, fileVars, InOrder
<1> QED  BY <1>1, <1>2, <1>3 DEF IInv

\* A blob is appended: it is of the boot of the records before it, and so is
\* the next command, if one is under way.
LEMMA RecordInv ==
    ASSUME IInv, HandleRecord
    PROVE  IInv'
<1> USE DEF IInv, Channel
<1>0. /\ pc = "command" /\ pc' = "respond"
      /\ handling.step \in 1..Len(Blobs)
      /\ UNCHANGED <<hostVars, chanVars, handling, fileVars, mdr>>
  BY DEF HandleRecord, mdrVars
<1>1. PICK k \in 0..Len(Blobs[handling.step].records) :
          records' = records \o Labelled(Blobs[handling.step], k)
  BY DEF HandleRecord, AddRecord
<1> DEFINE es == Labelled(Blobs[handling.step], k)
<1>2. /\ boot \in Nat \ {0} /\ step \in Nat /\ MaxBoots \in Nat
      /\ handling.step \in Nat \ {0} /\ handling.boot \in 1..boot
  BY <1>0, StepsAreNat, TransferAssumption DEF Messages, Past
<1>3. es \in Seq(Label) /\ \A i \in DOMAIN es :
          es[i].boot = handling.boot /\ es[i].step = handling.step
  <2>1. Blobs[handling.step] \in Blob
    BY <1>0, TransferAssumption
  <2>2. Blobs[handling.step].records \in Seq(Records)
    BY <2>1 DEF Blob
  <2>3. handling.boot \in 1..MaxBoots /\ handling.step \in Steps
    BY <1>2 DEF Messages, Past
  <2>4. \A i \in 1..k : Blobs[handling.step].records[i] \in Records
    BY <2>2
  <2>5. es = [i \in 1..k |-> [boot |-> handling.boot, step |-> handling.step,
                             number |-> Blobs[handling.step].records[i]]]
    BY DEF Labelled
  <2>6. k \in Nat
    BY <2>2
  <2>7. es \in [1..k -> Label]
    BY <2>3, <2>4, <2>5 DEF Label
  <2> QED  BY <2>5, <2>6, <2>7
<1>4. UpTo(records, handling.boot, handling.step)
  BY <1>0, <1>2 DEF Session
<1>a. records' = records \o es
  BY <1>1
<1>b. records \in Seq(Label) /\ InOrder(records)
  BY DEF Session
<1>c. handling.step \in Int
  BY <1>2
<1> HIDE DEF es
<1>5. /\ records' \in Seq(Label) /\ InOrder(records')
      /\ UpTo(records', handling.boot, handling.step)
  BY <1>3, <1>4, <1>a, <1>b, <1>c, Extend
<1>6. \A i \in DOMAIN records' : records'[i].step \in Nat
  BY <1>5, LabelStep
<1>7. Channel' /\ Open' = Open
  BY <1>0, StayInv DEF Finalizing
<1>8. Open => UpTo(records', boot, step)
  BY <1>2, <1>5, <1>6 DEF Order, Current, Messages, Past, UpTo
<1>9. request.step > 0 => UpTo(records', request.boot, request.step)
  <2>1. request.step \in Nat
    BY StepsAreNat DEF Messages, Past
  <2> QED  BY <1>2, <1>5, <1>6, <2>1 DEF Order, UpTo
<1>10. Session'
  BY <1>0, <1>2, <1>5, <1>7, <1>8, <1>9
     DEF Session, hostVars, chanVars, UpTo, InOrder
<1>11. Files'
  BY <1>0 DEF Files, fileVars, InOrder
<1> QED  BY <1>7, <1>10, <1>11

\* end and the steps of finalize: no record comes or goes, and the files take
\* over each other's records, or what was collected.
LEMMA FinalizeInv ==
    ASSUME IInv, Types,
           \/ HandleEnd \/ FinalizeRefused \/ FinalizeOpen \/ FinalizeWrite
           \/ FinalizeClose \/ FinalizeRename \/ Synchronize
    PROVE  IInv'
<1> USE DEF IInv
<1>1. UNCHANGED <<hostVars, chanVars, handling, records, mdr>>
  BY DEF HandleEnd, FinalizeRefused, FinalizeOpen, FinalizeWrite, FinalizeClose,
         FinalizeRename, Synchronize, Finalize, writerVars, mdrVars
<1>2. handling.step = End /\ pc' \in Finalizing \cup {"respond"}
  BY DEF HandleEnd, FinalizeRefused, FinalizeOpen, FinalizeWrite, FinalizeClose,
         FinalizeRename, Synchronize, Finalize, Channel, Order, Finalizing
<1>3. Channel' /\ Open' = Open
  BY <1>1, <1>2, StayInv
<1>4. Session'
  BY <1>1, <1>2, <1>3, StepsAreNat
     DEF Session, Finalizing, hostVars, chanVars, UpTo, InOrder
<1>5. {temp'.records, final'.records} \subseteq
          {temp.records, final.records, records, <<>>}
  <2>1. CASE FinalizeOpen
    BY <2>1 DEF FinalizeOpen, Absent
  <2>2. CASE FinalizeWrite
    BY <2>2 DEF FinalizeWrite, Types, SmbiosFile
  <2>3. CASE FinalizeClose
    BY <2>3 DEF FinalizeClose
  <2>4. CASE FinalizeRename
    BY <2>4 DEF FinalizeRename, fileVars, Absent
  <2>5. CASE UNCHANGED fileVars
    BY <2>5 DEF fileVars
  <2> QED  BY <2>1, <2>2, <2>3, <2>4, <2>5
              DEF HandleEnd, FinalizeRefused, Synchronize
<1>6. Files'
  BY <1>1, <1>5, EmptyOK DEF Files, Session
<1> QED  BY <1>3, <1>4, <1>6

LEMMA RespondInv ==
    ASSUME IInv, Respond
    PROVE  IInv'
<1> USE DEF IInv, Channel
<1>0. /\ pc = "respond" /\ pc' = "idle" /\ handling' = Nothing
      /\ answer' \in {handling, answer}
      /\ UNCHANGED <<boot, step, waits, request, records, fileVars, mdr>>
  BY DEF Respond, hostVars, writerVars, mdrVars
<1>1. boot \in Nat \ {0} /\ step \in Nat
  BY StepsAreNat DEF Messages
<1>2. Past(Nothing)
  BY <1>1, NoMessage DEF Past
<1>3. Messages'
  BY <1>0, <1>2 DEF Messages, Past
<1>4. Order'
  BY <1>0, <1>1, NoMessage DEF Order, Begun, Open, Current, Finalizing
<1>5. Open' => UpTo(records, boot, step)
  BY <1>0, <1>1 DEF Session, Open
<1>6. Session'
  BY <1>0, <1>5 DEF Session, UpTo, InOrder
<1>7. Files'
  BY <1>0 DEF Files, fileVars, InOrder
<1> QED  BY <1>3, <1>4, <1>6, <1>7

\* A death of the daemon forgets its command and what was collected.
LEMMA CrashInv ==
    ASSUME IInv, Crash
    PROVE  IInv'
<1> USE DEF IInv, Channel
<1>0. /\ pc' = "down" /\ handling' = Nothing /\ records' = <<>>
      /\ UNCHANGED <<boot, step, waits, request, answer, fileVars, mdr>>
  BY DEF Crash, hostVars, chanVars, mdrVars
<1>1. boot \in Nat \ {0} /\ step \in Nat
  BY StepsAreNat DEF Messages
<1>2. Past(Nothing)
  BY <1>1, NoMessage DEF Past
<1>3. Messages'
  BY <1>0, <1>2 DEF Messages, Past
<1>4. Order'
  BY <1>0, <1>1, NoMessage DEF Order, Begun, Open, Current, Finalizing
<1>5. Session'
  BY <1>0, EmptyOK DEF Session
<1>6. Files'
  BY <1>0 DEF Files, fileVars, InOrder
<1> QED  BY <1>3, <1>4, <1>5, <1>6

\* Restart and MdrRead, and a stutter.
LEMMA RestInv ==
    ASSUME IInv, UNCHANGED <<hostVars, chanVars, handling, records, fileVars>>,
           pc' \in {pc, "idle"}, mdr' \in {mdr, final}
    PROVE  IInv'
<1> USE DEF IInv
<1>1. Channel' /\ Open' = Open
  BY StayInv DEF Channel, Order, Finalizing
<1>2. Session'
  BY <1>1 DEF Session, hostVars, chanVars, UpTo, InOrder
<1>3. Files'
  BY DEF Files, fileVars, InOrder
<1> QED  BY <1>1, <1>2, <1>3

-----------------------------------------------------------------------------
\* Only finalize counts the version and writes files.
LEMMA TypesInv ==
    ASSUME IInv, Types, [Next]_vars
    PROVE  Types'
<1> USE DEF Types
<1>1. CASE UNCHANGED <<directoryVersion, fileVars, mdr>>
  BY <1>1 DEF fileVars
<1>2. VersionMod \in Nat \ {0}
  BY TransferAssumption
<1>3. Absent \in SmbiosFile
  BY <1>2, EmptyOK DEF Absent, SmbiosFile
<1>4. CASE FinalizeOpen
  <2>1. directoryVersion' \in 0..(VersionMod - 1)
    BY <1>2, <1>4 DEF FinalizeOpen
  <2>2. UNCHANGED <<final, mdr>>
    BY <1>4 DEF FinalizeOpen, Finalize, mdrVars
  <2>3. temp' \in SmbiosFile
    BY <1>3, <1>4, <2>1 DEF FinalizeOpen, SmbiosFile
  <2> QED  BY <2>1, <2>2, <2>3
<1>5. CASE FinalizeWrite \/ FinalizeClose
  <2>1. UNCHANGED <<directoryVersion, final, mdr>>
    BY <1>5 DEF FinalizeWrite, FinalizeClose, Finalize, mdrVars
  <2>2. records \in Seq(Label)
    BY DEF IInv, Session
  <2>3. temp' \in SmbiosFile
    BY <1>5, <2>2 DEF FinalizeWrite, FinalizeClose, SmbiosFile
  <2> QED  BY <2>1, <2>3
<1>6. CASE FinalizeRename
  BY <1>3, <1>6 DEF FinalizeRename, Finalize, fileVars, mdrVars
<1>7. CASE Crash
  BY <1>2, <1>7 DEF Crash, fileVars, mdrVars
<1>8. CASE MdrRead
  BY <1>8 DEF MdrRead, writerVars, fileVars
<1>9. CASE HandleEnd \/ FinalizeRefused \/ Synchronize \/ Respond \/ Restart
  BY <1>1, <1>9 DEF HandleEnd, FinalizeRefused, Finalize, Synchronize, Respond,
                    Restart, writerVars, mdrVars
<1>10. CASE Handle \/ HandleBegin \/ HandleRecord
  BY <1>1, <1>10 DEF Handle, HandleBegin, HandleRecord, writerVars, mdrVars
<1>11. CASE HostSend \/ HostRetry \/ HostReceive \/ HostReboot
  BY <1>1, <1>11 DEF HostSend, HostRetry, HostReceive, HostReboot, writerVars,
                     mdrVars
<1>12. CASE UNCHANGED vars
  BY <1>1, <1>12 DEF vars, writerVars, mdrVars
<1> QED  BY <1>4, <1>5, <1>6, <1>7, <1>8, <1>9, <1>10, <1>11, <1>12 DEF Next

LEMMA StepInv == IInv /\ Types /\ [Next]_vars => (IInv /\ Types)'
<1> SUFFICES ASSUME IInv, Types, [Next]_vars PROVE IInv'
  BY TypesInv
<1>1. CASE Restart
  BY <1>1, RestInv DEF Restart, writerVars, mdrVars
<1>2. CASE MdrRead
  BY <1>2, RestInv DEF MdrRead, writerVars, threadVars
<1>3. CASE UNCHANGED vars
  BY <1>3, RestInv DEF vars, writerVars, threadVars, mdrVars
<1> QED  BY <1>1, <1>2, <1>3, SendInv, ReceiveInv, RebootInv, HandleInv,
            BeginInv, RecordInv, FinalizeInv, RespondInv, CrashInv DEF Next

LEMMA InitTypes == Init => Types
<1>1. VersionMod \in Nat \ {0}
  BY TransferAssumption
<1>2. Absent \in SmbiosFile
  BY <1>1, EmptyOK DEF Absent, SmbiosFile
<1> QED  BY <1>1, <1>2 DEF Init, Types

LEMMA Invariance == Spec => [](IInv /\ Types)
  BY InitInv, InitTypes, StepInv, PTL DEF Spec

\* The commands, the records collected, the files and what smbios-mdr knows are
\* of the types declared, and the directory version stays a byte.
THEOREM TypeCorrect == Spec => []TypeOK
<1>1. IInv /\ Types => TypeOK
  <2> SUFFICES ASSUME IInv, Types PROVE TypeOK
    OBVIOUS
  <2>1. boot \in 1..MaxBoots /\ MaxBoots \in Nat
    BY TransferAssumption DEF IInv, Channel, Messages
  <2>2. \A m : Past(m) => m \in [boot : 0..MaxBoots, step : Steps]
    BY <2>1 DEF Past
  <2> QED  BY <2>1, <2>2 DEF IInv, Channel, Messages, Session, Types, TypeOK
<1> QED  BY <1>1, Invariance, PTL

\* The file smbios2, and what smbios-mdr has read of it, never mixes the records
\* of two boots nor puts a blob before one that was sent before it, for all
\* blobs, limits and numbers of reboots, repeated commands and daemon deaths,
\* and whatever operation of finalize fails.
THEOREM SessionsApart == Spec => []OneSession
<1>1. IInv => OneSession
  BY DEF IInv, Files, OneSession
<1> QED  BY <1>1, Invariance, PTL

-----------------------------------------------------------------------------
(* What reaches the disk                                                    *)

\* The file is good or not there; what is on its way to it holds the records
\* collected, and from the close of the stream on also all of their data.
Written ==
    /\ \A f \in {final, mdr} : f = Absent \/ f.whole
    /\ pc \in {"close", "rename"} => temp.records = records
    /\ pc = "rename" => temp.whole
    /\ pc = "synchronize" => final.records = records /\ final.whole

LEMMA WrittenStep ==
    ASSUME Types, Written, [Next]_vars, ~FlushErrors
    PROVE  Written'
<1> USE DEF Written
<1>1. CASE FinalizeWrite
  BY <1>1 DEF FinalizeWrite, Finalize, Types, SmbiosFile, mdrVars
<1>2. CASE FinalizeClose
  BY <1>2 DEF FinalizeClose, Finalize, Types, SmbiosFile, mdrVars
<1>3. CASE FinalizeRename
  BY <1>3 DEF FinalizeRename, Finalize, fileVars, mdrVars
<1>4. CASE FinalizeRefused \/ FinalizeOpen
  BY <1>4 DEF FinalizeRefused, FinalizeOpen, Finalize, fileVars, mdrVars
<1>5. CASE HandleEnd \/ Synchronize \/ Respond \/ Restart
  BY <1>5 DEF HandleEnd, Synchronize, Respond, Restart, writerVars, fileVars,
              mdrVars
<1>6. CASE Handle \/ HandleBegin \/ HandleRecord
  BY <1>6 DEF Handle, HandleBegin, HandleRecord, writerVars, fileVars, mdrVars
<1>7. CASE Crash
  BY <1>7 DEF Crash, fileVars, mdrVars
<1>8. CASE MdrRead
  BY <1>8 DEF MdrRead, writerVars, threadVars, fileVars
<1>9. CASE HostSend \/ HostRetry \/ HostReceive \/ HostReboot
  BY <1>9 DEF HostSend, HostRetry, HostReceive, HostReboot, writerVars,
              threadVars, fileVars, mdrVars
<1>10. CASE UNCHANGED vars
  BY <1>10 DEF vars, writerVars, threadVars, fileVars, mdrVars
<1> QED  BY <1>1, <1>2, <1>3, <1>4, <1>5, <1>6, <1>7, <1>8, <1>9, <1>10 DEF Next

LEMMA WrittenInvariance ==
    ASSUME ~FlushErrors
    PROVE  Spec => []Written
<1>1. Init => Written
  BY DEF Init, Written
<1>2. IInv /\ Types /\ Written /\ [Next]_vars => Written'
  BY WrittenStep
<1> QED  BY <1>1, <1>2, Invariance, PTL DEF Spec

\* As long as closing a file loses nothing, smbios-mdr never reads a file whose
\* data did not all reach the disk: finalize writes beside it and renames.
THEOREM WholeFilesOnly ==
    ASSUME ~FlushErrors
    PROVE  Spec => []MdrSeesWhole
<1>1. Written => MdrSeesWhole
  BY DEF Written, MdrSeesWhole
<1> QED  BY <1>1, WrittenInvariance, PTL

\* As long as closing a file loses nothing, finalize returns true only for a file
\* that holds the records of the session, all of them written.
THEOREM SuccessIsWritten ==
    ASSUME ~FlushErrors
    PROVE  Spec => []TrueMeansWritten
<1>1. Written => TrueMeansWritten
  BY DEF Written, TrueMeansWritten
<1> QED  BY <1>1, WrittenInvariance, PTL
-----------------------------------------------------------------------------
(* What is collected                                                        *)

LEMMA SizesOfRecords ==
    ASSUME NEW rs \in Seq(Label)
    PROVE  /\ Sizes(rs) \in Seq(Nat) /\ Len(Sizes(rs)) = Len(rs)
           /\ \A i \in 1..Len(rs) : Sizes(rs)[i] = RecSize[rs[i].number]
           /\ Bytes(rs) = Total(Sizes(rs)) /\ Bytes(rs) \in Nat
<1>1. Len(rs) \in Nat
  OBVIOUS
<1>2. \A i \in 1..Len(rs) : RecSize[rs[i].number] \in Nat
  <2> TAKE i \in 1..Len(rs)
  <2>1. rs[i] \in Label
    BY ElementOfSeq
  <2>2. rs[i].number \in DOMAIN RecSize
    BY <2>1 DEF Label, Records
  <2> QED  BY <2>2, TransferAssumption
<1>3. Sizes(rs) \in [1..Len(rs) -> Nat]
  BY <1>2 DEF Sizes
<1>4. Sizes(rs) \in Seq(Nat) /\ Len(Sizes(rs)) = Len(rs)
  BY <1>1, <1>3
<1> QED  BY <1>4, TotalType DEF Bytes, Sizes

\* Records that come first are not larger than all of them.
LEMMA BytesPrefix ==
    ASSUME NEW rs \in Seq(Label), NEW qs \in Seq(Label), Prefix(qs, rs)
    PROVE  Bytes(qs) <= Bytes(rs)
<1> DEFINE t == Sizes(rs)  u == Sizes(qs)
<1>1. t \in Seq(Nat) /\ u \in Seq(Nat) /\ Len(t) = Len(rs) /\ Len(u) = Len(qs)
  BY SizesOfRecords
<1>2. Len(qs) <= Len(rs) /\ \A i \in 1..Len(qs) : qs[i] = rs[i]
  BY DEF Prefix
<1>3. Len(rs) \in Nat /\ Len(qs) \in Nat
  OBVIOUS
<1>4. \A i \in 1..Len(qs) : i \in 1..Len(rs)
  BY <1>2, <1>3
<1>5. ASSUME NEW i \in 1..Len(qs) PROVE u[i] = t[i]
  <2>1. i \in 1..Len(rs) /\ qs[i] = rs[i]
    BY <1>2, <1>4
  <2>2. u[i] = RecSize[qs[i].number] /\ t[i] = RecSize[rs[i].number]
    BY <2>1, SizesOfRecords
  <2> QED  BY <2>1, <2>2
<1> HIDE DEF t, u
<1>6. Prefix(u, t)
  BY <1>1, <1>2, <1>5 DEF Prefix
<1>7. Total(u) <= Total(t)
  BY <1>1, <1>6, TotalPrefix
<1> QED  BY <1>7, SizesOfRecords DEF t, u

LEMMA BytesAppend ==
    ASSUME NEW rs \in Seq(Label), NEW l \in Label
    PROVE  Bytes(Append(rs, l)) = Bytes(rs) + RecSize[l.number]
<1> DEFINE t == Sizes(rs)  x == RecSize[l.number]  as == Append(rs, l)
<1>1. t \in Seq(Nat) /\ Len(t) = Len(rs) /\ Bytes(rs) = Total(t)
  BY SizesOfRecords
<1>2. x \in Nat
  BY TransferAssumption DEF Label, Records
<1>3. /\ as \in Seq(Label) /\ Len(as) = Len(rs) + 1 /\ Len(rs) \in Nat
      /\ as[Len(rs) + 1] = l /\ \A i \in 1..Len(rs) : as[i] = rs[i]
  OBVIOUS
<1> HIDE DEF as
<1>4. Sizes(as) = Append(t, x)
  <2>1. Sizes(as) \in Seq(Nat) /\ Len(Sizes(as)) = Len(rs) + 1
    BY <1>3, SizesOfRecords
  <2>2. /\ Append(t, x) \in Seq(Nat) /\ Len(Append(t, x)) = Len(rs) + 1
        /\ Append(t, x)[Len(rs) + 1] = x
        /\ \A i \in 1..Len(rs) : Append(t, x)[i] = t[i]
    <3> HIDE DEF t, x
    <3> QED  BY <1>1, <1>2, <1>3
  <2>3. ASSUME NEW i \in 1..(Len(rs) + 1)
        PROVE  Sizes(as)[i] = Append(t, x)[i]
    <3>1. Sizes(as)[i] = RecSize[as[i].number]
      BY <1>3, SizesOfRecords
    <3>2. CASE i = Len(rs) + 1
      BY <1>3, <2>2, <3>1, <3>2
    <3>3. CASE i \in 1..Len(rs)
      <4>1. t[i] = RecSize[rs[i].number]
        BY <3>3, SizesOfRecords
      <4> QED  BY <1>3, <2>2, <3>1, <3>3, <4>1
    <3>4. Len(rs) \in Nat
      BY <1>3
    <3>5. i = Len(rs) + 1 \/ i \in 1..Len(rs)
      BY <3>4
    <3> QED  BY <3>2, <3>3, <3>5
  <2> HIDE DEF t, x
  <2> QED  BY <2>1, <2>2, <2>3, SeqEqual
<1>5. Bytes(as) = Total(Append(t, x))
  BY <1>3, <1>4, SizesOfRecords
<1> HIDE DEF t, x
<1>6. Total(Append(t, x)) = Total(t) + x
  BY <1>1, <1>2, TotalAppend
<1> QED  BY <1>1, <1>5, <1>6 DEF as, x

-----------------------------------------------------------------------------
(* What a blob adds                                                         *)

Labels(b, k) ==
    /\ Labelled(b, k) \in Seq(Label) /\ Len(Labelled(b, k)) = k
    /\ \A i \in 1..k : Labelled(b, k)[i].number = b.records[i]

LEMMA LabelledType ==
    ASSUME NEW b \in Blob, NEW k \in 0..Len(b.records),
           handling.boot \in 1..MaxBoots, handling.step \in Steps
    PROVE  Labels(b, k)
<1>1. b.records \in Seq(Records) /\ k \in Nat
  BY DEF Blob
<1>2. \A i \in 1..k : b.records[i] \in Records
  BY <1>1
<1>3. Labelled(b, k) =
        [i \in 1..k |-> [boot |-> handling.boot, step |-> handling.step,
                         number |-> b.records[i]]]
  BY DEF Labelled
<1>4. Labelled(b, k) \in [1..k -> Label]
  BY <1>2, <1>3 DEF Label
<1>5. Labelled(b, k) \in Seq(Label) /\ Len(Labelled(b, k)) = k
  BY <1>1, <1>4
<1> QED  BY <1>3, <1>5 DEF Labels
\* A record that is carried and not taken would not have fitted.
LEMMA AllTaken ==
    ASSUME NEW b \in Blob, IInv, handling.boot \in 1..MaxBoots,
           handling.step \in Steps, AddRecord(b), RoomLeft(records')
    PROVE  /\ Numbers(records') = Numbers(records) \cup Carried(b)
<1>1. PICK k \in 0..Len(b.records) :
         /\ Taken(b, k) /\ ~Taken(b, k + 1)
         /\ records' = records \o Labelled(b, k)
  BY DEF AddRecord
<1>2. /\ b.records \in Seq(Records) /\ Len(b.records) \in Nat /\ k \in Nat
      /\ b.count \in Nat /\ MaxRecords \in Nat /\ Capped(b) \in Nat
      /\ records \in Seq(Label) /\ DOMAIN b.records = 1..Len(b.records)
  BY TransferAssumption DEF Blob, Capped, IInv, Session
<1>3. \A i \in 1..k : b.records[i] \in {b.records[j] : j \in 1..k}
  OBVIOUS
<1>4. Numbers(records') = Numbers(records) \cup {b.records[j] : j \in 1..k}
  <2> DEFINE es == Labelled(b, k)
  <2>1. es \in Seq(Label) /\ Len(es) = k /\ \A i \in 1..k : es[i].number = b.records[i]
    BY LabelledType DEF Labels
  <2>2. /\ Len(records) \in Nat
        /\ DOMAIN records = 1..Len(records) /\ records' = records \o es
    BY <1>1, <1>2
  <2> HIDE DEF es
  <2>3. /\ DOMAIN records' = 1..(Len(records) + k)
        /\ \A i \in 1..(Len(records) + k) :
              records'[i] = IF i <= Len(records) THEN records[i]
                            ELSE es[i - Len(records)]
    BY <1>2, <2>1, <2>2
  <2>4. \A i \in DOMAIN records : i \in DOMAIN records' /\ records'[i] = records[i]
    BY <1>2, <2>2, <2>3
  <2>5. ASSUME NEW j \in 1..k
        PROVE  /\ j + Len(records) \in DOMAIN records'
               /\ records'[j + Len(records)].number = b.records[j]
    <3>1. /\ j + Len(records) \in 1..(Len(records) + k)
          /\ ~(j + Len(records) <= Len(records))
          /\ (j + Len(records)) - Len(records) = j
      BY <1>2, <2>2
    <3> QED  BY <2>1, <2>3, <3>1
  <2>6. ASSUME NEW i \in DOMAIN records'
        PROVE  \/ i \in DOMAIN records /\ records'[i] = records[i]
               \/ \E j \in 1..k : records'[i].number = b.records[j]
    <3>1. CASE i <= Len(records)
      BY <2>2, <2>3, <3>1
    <3>2. CASE i > Len(records)
      <4>1. i - Len(records) \in 1..k /\ records'[i] = es[i - Len(records)]
        BY <1>2, <2>2, <2>3, <3>2
      <4> QED  BY <2>1, <4>1
    <3> QED  BY <2>2, <2>3, <3>1, <3>2
  <2> QED  BY <2>4, <2>5, <2>6 DEF Numbers
<1>5. Carried(b) =
        {b.records[j] : j \in {j \in 1..Len(b.records) :
            j <= b.count /\ j <= MaxRecords
            /\ \A i \in 1..j : RecSize[b.records[i]] > 0}}
  BY <1>2 DEF Carried
<1>6. k <= b.count /\ k <= MaxRecords /\ \A i \in 1..k : RecSize[b.records[i]] > 0
  BY <1>1, <1>2 DEF Taken, Capped
<1>7. ASSUME NEW j \in 1..k
      PROVE  /\ j \in 1..Len(b.records) /\ j <= b.count /\ j <= MaxRecords
             /\ \A i \in 1..j : RecSize[b.records[i]] > 0
  <2>1. j \in Nat /\ j <= k /\ \A i \in 1..j : i \in 1..k
    BY <1>2
  <2> QED  BY <1>2, <1>6, <2>1
<1>8. ASSUME NEW j \in 1..Len(b.records), j <= b.count, j <= MaxRecords,
             \A i \in 1..j : RecSize[b.records[i]] > 0
      PROVE  j \in 1..k
  <2> SUFFICES ASSUME j > k PROVE FALSE
    BY <1>2
  <2>1. k + 1 \in 1..j /\ k + 1 \in 1..Len(b.records) /\ k + 1 \in 0..Len(b.records)
    BY <1>2
  <2>2. k + 1 <= Capped(b) /\ k + 1 <= Len(b.records)
    BY <1>2, <1>8, <2>1 DEF Capped
  <2>3. \A i \in 1..(k + 1) : i \in 1..j
    BY <1>2, <2>1
  <2> DEFINE r == b.records[k + 1]
             l == [boot |-> handling.boot, step |-> handling.step, number |-> r]
             es == Labelled(b, k)
  <2>4. l \in Label /\ r \in Records
    BY <1>2, <2>1 DEF Label
  <2>5. es \in Seq(Label) /\ Len(es) = k
    BY LabelledType DEF Labels
  <2>6. Labelled(b, k + 1) = Append(es, l)
    <3>1. Labelled(b, k + 1) \in Seq(Label) /\ Len(Labelled(b, k + 1)) = k + 1
      BY <2>1, LabelledType DEF Labels
    <3>2. /\ Append(es, l) \in Seq(Label) /\ Len(Append(es, l)) = k + 1
          /\ Append(es, l)[k + 1] = l
          /\ \A i \in 1..k : Append(es, l)[i] = es[i]
      <4> HIDE DEF es, l
      <4> QED  BY <1>2, <2>4, <2>5
    <3>3. /\ \A i \in 1..k : Labelled(b, k + 1)[i] = es[i]
          /\ Labelled(b, k + 1)[k + 1] = l
      BY <1>2 DEF Labelled
    <3>4. \A i \in 1..(k + 1) : i \in 1..k \/ i = k + 1
      BY <1>2
    <3> HIDE DEF es, l
    <3>5. \A i \in 1..(k + 1) : Labelled(b, k + 1)[i] = Append(es, l)[i]
      BY <3>2, <3>3, <3>4
    <3> QED  BY <3>1, <3>2, <3>5, SeqEqual
  <2>7. records \o Labelled(b, k + 1) = Append(records', l)
    <3> HIDE DEF es, l
    <3>1. records \o Append(es, l) = Append(records \o es, l)
      <4>1. <<l>> \in Seq(Label)
        BY <2>4
      <4>2. records \o es \in Seq(Label)
        BY <1>2, <2>5, ConcatProperties
      <4>3. Append(es, l) = es \o <<l>>
        BY <2>4, <2>5, AppendIsConcat
      <4>4. Append(records \o es, l) = (records \o es) \o <<l>>
        BY <2>4, <4>2, AppendIsConcat
      <4> DEFINE ls == <<l>>
      <4>6. ls \in Seq(Label) /\ records \in Seq(Label) /\ es \in Seq(Label)
        BY <1>2, <2>5, <4>1
      <4> HIDE DEF ls
      <4>5. (records \o es) \o ls = records \o (es \o ls)
        BY <4>6, ConcatAssociative
      <4> USE DEF ls
      <4> QED  BY <4>3, <4>4, <4>5
    <3> QED  BY <1>1, <2>6, <3>1 DEF es
  <2>8. records' \in Seq(Label)
    BY <1>1, <1>2, <2>5
  <2>9. Bytes(records \o Labelled(b, k + 1)) <= MaxData
    <3>1. Bytes(Append(records', l)) = Bytes(records') + RecSize[l.number]
      <4> HIDE DEF l
      <4> QED  BY <2>4, <2>8, BytesAppend
    <3>2. Bytes(records') + RecSize[r] <= MaxData
      BY <2>4 DEF RoomLeft
    <3> QED  BY <2>7, <3>1, <3>2
  <2>10. ASSUME NEW i \in 1..k PROVE Bytes(records \o Labelled(b, i)) <= MaxData
    BY <1>1, <2>10 DEF Taken
  <2>11. \A i \in 1..(k + 1) : Bytes(records \o Labelled(b, i)) <= MaxData
    <3>1. \A i \in 1..(k + 1) : i \in 1..k \/ i = k + 1
      BY <1>2
    <3> QED  BY <2>9, <2>10, <3>1
  <2>12. Taken(b, k + 1)
    BY <1>8, <2>2, <2>3, <2>11 DEF Taken
  <2> QED  BY <1>1, <2>12
<1>9. Carried(b) = {b.records[j] : j \in 1..k}
  BY <1>5, <1>7, <1>8
<1> QED  BY <1>4, <1>9
-----------------------------------------------------------------------------
(* Completeness                                                             *)

\* No command is handled after one the host sent later; a command that is still
\* under way was not overtaken by an answer.
Fifo ==
    /\ \A m \in {request, handling} :
          m.boot = boot =>
              /\ step <= m.step + 1
              /\ answer.boot = boot => answer.step <= m.step
    /\ request.boot = boot /\ handling.boot = boot =>
          handling.step <= request.step
    /\ pc = "command" => handling.boot # 0

Collected(s) ==
    \A i \in DOMAIN Blobs : i <= s => Carried(Blobs[i]) \subseteq Numbers(records)

\* As long as all records fit and the daemon lives, what it collected holds the
\* records of each blob of this boot up to the last one answered.
Complete ==
    /\ crashes \in Nat
    /\ crashes = 0 /\ RoomLeft(records) =>
          /\ Numbers(records) \subseteq
                UNION {Carried(Blobs[i]) : i \in DOMAIN Blobs}
          /\ step > 0 => Collected(step - 1)
          /\ answer.boot = boot => Collected(answer.step)
          /\ pc = "respond" /\ handling.boot = boot => Collected(handling.step)

\* What finalize has written is what was collected.
Copied ==
    /\ pc \in {"close", "rename"} => temp.records = records
    /\ pc = "synchronize" => final.records = records
LEMMA MessageFacts ==
    ASSUME IInv
    PROVE  /\ boot \in Nat \ {0} /\ step \in Nat /\ Nothing.boot = 0
           /\ \A m \in {request, answer, handling} :
                 /\ m.step \in Nat /\ m.boot \in Nat /\ m.boot <= boot
                 /\ m.boot = boot => m.step <= step
<1> USE DEF IInv, Channel
<1>1. boot \in Nat \ {0} /\ step \in Nat /\ Nothing.boot = 0
  BY StepsAreNat, NoMessage DEF Messages
<1>2. ASSUME NEW m, Past(m)
      PROVE  /\ m.step \in Nat /\ m.boot \in Nat /\ m.boot <= boot
             /\ m.boot = boot => m.step <= step
  <2>1. m.boot \in 0..boot /\ m.step \in Nat
    BY <1>2, StepsAreNat DEF Past
  <2>2. m.boot \in Nat /\ m.boot <= boot
    BY <1>1, <2>1
  <2>3. m.boot = boot => m.step <= step
    BY <1>2 DEF Past
  <2> QED  BY <2>1, <2>2, <2>3
<1>3. \A m \in {request, answer, handling} : Past(m)
  BY DEF Messages
<1> QED  BY <1>1, <1>2, <1>3

LEMMA FifoStep ==
    ASSUME IInv, Fifo, [Next]_vars
    PROVE  Fifo'
<1> USE DEF IInv, Channel
<1>1. /\ boot \in Nat \ {0} /\ step \in Nat /\ Nothing.boot = 0
      /\ \A m \in {request, answer, handling} :
            /\ m.step \in Nat /\ m.boot \in Nat /\ m.boot <= boot
            /\ m.boot = boot => m.step <= step
  BY MessageFacts
<1>2. CASE /\ UNCHANGED <<boot, step, request, answer, handling>>
           /\ pc' = "command" => pc = "command"
  BY <1>2 DEF Fifo
<1>3. CASE HostSend \/ HostRetry
  <2>1. /\ request' = Command /\ UNCHANGED <<boot, step, pc, answer, handling>>
        /\ Command.boot = boot /\ Command.step = step
    BY <1>3 DEF HostSend, HostRetry, threadVars, Command
  <2> QED  BY <1>1, <2>1 DEF Fifo
<1>4. CASE HostReceive
  <2>1. answer' = Nothing /\ UNCHANGED <<boot, pc, request, handling>>
    BY <1>4 DEF HostReceive, threadVars
  <2>2. \/ step' = step
        \/ step' = step + 1 /\ answer.boot = boot /\ answer.step = step
    BY <1>4 DEF HostReceive, Command
  <2> QED  BY <1>1, <2>1, <2>2 DEF Fifo
<1>5. CASE HostReboot
  <2>1. boot' = boot + 1 /\ UNCHANGED <<pc, request, handling>>
    BY <1>5 DEF HostReboot, chanVars, threadVars
  <2> QED  BY <1>1, <2>1 DEF Fifo
<1>6. CASE Handle
  <2>1. /\ handling' = request /\ request' = Nothing
        /\ UNCHANGED <<boot, step, answer>>
    BY <1>6 DEF Handle, hostVars
  <2>2. request.boot # 0
    BY <1>6 DEF Handle, Messages, Past, Nothing
  <2> QED  BY <1>1, <2>1, <2>2 DEF Fifo
<1>7. CASE Respond
  <2>1. /\ handling' = Nothing /\ answer' \in {handling, answer}
        /\ UNCHANGED <<boot, step, request>> /\ pc' = "idle"
    BY <1>7 DEF Respond, hostVars
  <2> QED  BY <1>1, <2>1 DEF Fifo
<1>8. CASE Crash
  <2>1. /\ handling' = Nothing /\ UNCHANGED <<boot, step, request, answer>>
        /\ pc' = "down"
    BY <1>8 DEF Crash, hostVars, chanVars
  <2> QED  BY <1>1, <2>1 DEF Fifo
<1>9. CASE HandleBegin \/ HandleRecord \/ HandleEnd \/ Restart \/ MdrRead
           \/ Synchronize \/ UNCHANGED vars
  BY <1>2, <1>9 DEF HandleBegin, HandleRecord, HandleEnd, Restart, MdrRead,
                    Synchronize, vars, hostVars, chanVars, threadVars
<1>10. CASE FinalizeRefused \/ FinalizeOpen \/ FinalizeWrite \/ FinalizeClose
            \/ FinalizeRename
  BY <1>2, <1>10 DEF FinalizeRefused, FinalizeOpen, FinalizeWrite,
       FinalizeClose, FinalizeRename, Finalize, hostVars, chanVars
<1> QED  BY <1>3, <1>4, <1>5, <1>6, <1>7, <1>8, <1>9, <1>10 DEF Next

\* A step that leaves the records alone, and no answer from a command that is
\* not yet handled.
LEMMA CompleteSame ==
    ASSUME IInv, Complete, UNCHANGED <<records, boot, step>>,
           crashes' = crashes,
           answer'.boot = boot =>
              \/ answer' = answer
              \/ answer' = handling /\ pc = "respond",
           pc' = "respond" /\ handling'.boot = boot =>
              \/ pc = "respond" /\ handling' = handling
              \/ step = End /\ handling'.step = End
    PROVE  Complete'
<1> SUFFICES ASSUME crashes = 0, RoomLeft(records)
             PROVE  /\ Numbers(records) \subseteq
                          UNION {Carried(Blobs[i]) : i \in DOMAIN Blobs}
                    /\ step > 0 => Collected(step - 1)
                    /\ answer'.boot = boot => Collected(answer'.step)
                    /\ pc' = "respond" /\ handling'.boot = boot =>
                          Collected(handling'.step)
  BY DEF Complete, Collected, RoomLeft
<1>1. /\ Numbers(records) \subseteq UNION {Carried(Blobs[i]) : i \in DOMAIN Blobs}
      /\ step > 0 => Collected(step - 1)
      /\ answer.boot = boot => Collected(answer.step)
      /\ pc = "respond" /\ handling.boot = boot => Collected(handling.step)
  BY DEF Complete
<1>2. step = End /\ step > 0 => Collected(End)
  <2>1. Blobs \in Seq(Blob) /\ DOMAIN Blobs = 1..Len(Blobs) /\ Len(Blobs) \in Nat
    BY TransferAssumption
  <2>2. \A i \in DOMAIN Blobs : i <= End - 1
    BY <2>1 DEF End
  <2> QED  BY <1>1, <2>2 DEF Collected
<1>3. End > 0
  BY StepsAreNat
<1> QED  BY <1>1, <1>2, <1>3

\* The blob that is handled comes after those collected, and joins them.
LEMMA CompleteRecord ==
    ASSUME IInv, Complete, HandleRecord
    PROVE  Complete'
<1> USE DEF IInv, Channel
<1>1. /\ pc = "command" /\ pc' = "respond" /\ handling.step \in 1..Len(Blobs)
      /\ AddRecord(Blobs[handling.step])
      /\ UNCHANGED <<boot, step, answer, handling, crashes>>
  BY DEF HandleRecord, hostVars, chanVars
<1> DEFINE b == Blobs[handling.step]
<1>2. /\ boot \in Nat \ {0} /\ step \in Nat /\ handling.step \in Steps
      /\ handling.boot \in 1..MaxBoots /\ handling.step \in Nat \ {0}
      /\ handling.boot = boot => handling.step <= step
      /\ answer.boot = boot => answer.step <= step /\ answer.step \in Nat
  <2>1. handling.boot \in 1..MaxBoots
    BY <1>1, StepsAreNat, TransferAssumption DEF Messages, Past
  <2> QED  BY <1>1, <2>1, MessageFacts DEF Messages, Past
<1>3. b \in Blob /\ handling.step \in DOMAIN Blobs /\ Blobs \in Seq(Blob)
  BY <1>1, TransferAssumption
<1> SUFFICES ASSUME crashes = 0, RoomLeft(records')
             PROVE  /\ Numbers(records') \subseteq
                          UNION {Carried(Blobs[i]) : i \in DOMAIN Blobs}
                    /\ step > 0 => Collected(step - 1)'
                    /\ answer.boot = boot => Collected(answer.step)'
                    /\ handling.boot = boot => Collected(handling.step)'
  BY <1>1 DEF Complete, Collected, RoomLeft
<1>4. Numbers(records') = Numbers(records) \cup Carried(b)
  <2> HIDE DEF b
  <2> QED  BY <1>1, <1>2, <1>3, AllTaken DEF b
<1>5. RoomLeft(records)
  <2>1. records \in Seq(Label)
    BY DEF Session
  <2>2. PICK k \in 0..Len(b.records) : records' = records \o Labelled(b, k)
    BY <1>1 DEF AddRecord
  <2>3. Labelled(b, k) \in Seq(Label)
    <3> HIDE DEF b
    <3> QED  BY <1>2, <1>3, LabelledType DEF Labels
  <2>4. /\ records' \in Seq(Label) /\ Len(records) <= Len(records')
        /\ \A i \in 1..Len(records) : records'[i] = records[i]
    <3> DEFINE es == Labelled(b, k)
    <3> HIDE DEF es
    <3> QED  BY <2>1, <2>2, <2>3 DEF es
  <2>5. Bytes(records) <= Bytes(records')
    BY <2>1, <2>4, BytesPrefix DEF Prefix
  <2>6. Bytes(records) \in Nat /\ Bytes(records') \in Nat
    BY <2>1, <2>4, SizesOfRecords
  <2>7. MaxData \in Nat /\ \A r \in Records : RecSize[r] \in Nat
    BY TransferAssumption DEF Records
  <2>8. ASSUME NEW r \in Records PROVE Bytes(records) + RecSize[r] <= MaxData
    <3> DEFINE x == Bytes(records)  y == Bytes(records')  z == RecSize[r]
    <3>1. x \in Nat /\ y \in Nat /\ z \in Nat /\ x <= y /\ y + z <= MaxData
      BY <2>5, <2>6, <2>7 DEF RoomLeft
    <3> HIDE DEF x, y, z
    <3>2. x + z <= MaxData
      BY <2>7, <3>1
    <3> QED  BY <3>2 DEF x, z
  <2> QED  BY <2>8 DEF RoomLeft
<1>6. /\ Numbers(records) \subseteq UNION {Carried(Blobs[i]) : i \in DOMAIN Blobs}
      /\ step > 0 => Collected(step - 1)
      /\ answer.boot = boot => Collected(answer.step)
  BY <1>5 DEF Complete
<1>7. \A n : Collected(n) => Collected(n)'
  BY <1>4 DEF Collected
<1>8. ASSUME handling.boot = boot PROVE Collected(handling.step)'
  <2>1. step > 0 /\ handling.step <= step
    BY <1>2, <1>8
  <2>2. ASSUME NEW i \in DOMAIN Blobs, i <= handling.step
        PROVE  Carried(Blobs[i]) \subseteq Numbers(records')
    <3>1. i = handling.step \/ i <= step - 1
      <4>1. i \in Nat
        BY <1>3
      <4> QED  BY <1>2, <2>1, <2>2, <4>1
    <3>2. CASE i = handling.step
      BY <1>4, <3>2
    <3>3. CASE i <= step - 1
      BY <1>4, <1>6, <2>1, <3>3 DEF Collected
    <3> QED  BY <3>1, <3>2, <3>3
  <2>3. handling' = handling
    BY <1>1
  <2> HIDE DEF b
  <2> QED  BY <2>2, <2>3 DEF Collected
<1>9. Numbers(records') \subseteq UNION {Carried(Blobs[i]) : i \in DOMAIN Blobs}
  BY <1>3, <1>4, <1>6
<1>10. step > 0 => Collected(step - 1)'
  BY <1>1, <1>4, <1>6 DEF Collected
<1>11. answer.boot = boot => Collected(answer.step)'
  BY <1>1, <1>4, <1>6 DEF Collected
<1> HIDE DEF b
<1> QED  BY <1>8, <1>9, <1>10, <1>11

LEMMA CompleteStep ==
    ASSUME IInv, Fifo, Complete, [Next]_vars
    PROVE  Complete'
<1> USE DEF IInv, Channel
<1>1. /\ boot \in Nat \ {0} /\ step \in Nat /\ Nothing.boot = 0
      /\ \A m \in {request, answer, handling} :
            /\ m.step \in Nat /\ m.boot \in Nat /\ m.boot <= boot
            /\ m.boot = boot => m.step <= step
  BY MessageFacts
<1>2. \A n \in Int : n <= 0 => Collected(n)
  <2>1. \A i \in DOMAIN Blobs : i \in Nat \ {0}
    BY TransferAssumption
  <2> QED  BY <2>1 DEF Collected
<1>3. CASE HostSend \/ HostRetry
  BY <1>3, CompleteSame DEF HostSend, HostRetry, writerVars, threadVars
<1>4. CASE HostReceive
  <2>1. /\ answer' = Nothing /\ UNCHANGED <<boot, handling, pc, records, crashes>>
    BY <1>4 DEF HostReceive, threadVars, writerVars
  <2>2. CASE step' = step
    BY <1>1, <2>1, <2>2, CompleteSame
  <2>3. CASE step' = step + 1 /\ answer.boot = boot /\ answer.step = step
    <3>1. step' - 1 = answer.step /\ boot # 0
      BY <1>1, <2>3
    <3> QED  BY <1>1, <2>1, <2>3, <3>1 DEF Complete, Collected, RoomLeft
  <2> QED  BY <1>4, <2>2, <2>3 DEF HostReceive, Command
<1>5. CASE HostReboot
  <2>1. /\ boot' = boot + 1 /\ step' = 0
        /\ UNCHANGED <<answer, handling, pc, records, crashes>>
    BY <1>5 DEF HostReboot, chanVars, threadVars, writerVars
  <2>3. answer'.boot # boot' /\ handling'.boot # boot' /\ ~(step' > 0)
    BY <1>1, <2>1
  <2> QED  BY <2>1, <2>3 DEF Complete, RoomLeft
<1>6. CASE Handle
  BY <1>1, <1>6, CompleteSame DEF Handle, hostVars, writerVars
<1>7. CASE HandleBegin
  <2>1. /\ handling.step = 0 /\ pc = "command" /\ records' = <<>>
        /\ UNCHANGED <<boot, step, answer, handling, crashes>>
    BY <1>7 DEF HandleBegin, hostVars, chanVars
  <2>2. step <= 1 /\ (answer.boot = boot => answer.step <= 0)
    <3>1. CASE handling.boot = boot
      BY <1>1, <2>1, <3>1 DEF Fifo
    <3>2. CASE handling.boot # boot /\ ~Open
      BY <1>1, <3>2 DEF Open
    <3>3. handling.boot # 0
      BY <2>1 DEF Fifo
    <3> QED  BY <3>1, <3>2, <3>3 DEF Order, Current
  <2>3. Numbers(<<>>) = {}
    BY DEF Numbers
  <2>4. \A n \in Int : n <= 0 => Collected(n)'
    <3>1. \A i \in DOMAIN Blobs : i \in Nat \ {0}
      BY TransferAssumption
    <3> QED  BY <3>1 DEF Collected
  <2>5. \A n \in Int : n <= 0 =>
          \A i \in DOMAIN Blobs :
             i <= n => Carried(Blobs[i]) \subseteq Numbers(records')
    BY <2>4 DEF Collected
  <2>6. /\ step \in Nat /\ step - 1 \in Int /\ step - 1 <= 0
        /\ answer.step \in Nat /\ (answer.boot = boot => answer.step <= 0)
    BY <1>1, <2>2
  <2>7. crashes' \in Nat /\ Numbers(records') = {}
    BY <2>1, <2>3 DEF Complete
  <2>8. Collected(step - 1)'
    BY <2>1, <2>5, <2>6 DEF Collected
  <2>9. (answer.boot = boot => Collected(answer.step))'
    BY <2>1, <2>5, <2>6 DEF Collected
  <2>10. Collected(handling.step)'
    BY <2>1, <2>5 DEF Collected
  <2> QED  BY <2>7, <2>8, <2>9, <2>10 DEF Complete
<1>8. CASE HandleRecord
  BY <1>8, CompleteRecord
<1>9. CASE Respond
  BY <1>1, <1>9, CompleteSame DEF Respond, hostVars, writerVars
<1>10. CASE Crash
  <2>1. crashes' # 0 /\ crashes' \in Nat
    BY <1>10 DEF Crash, Complete
  <2> QED  BY <2>1 DEF Complete
<1>11. CASE Restart \/ MdrRead \/ UNCHANGED vars
  BY <1>11, CompleteSame
     DEF Restart, MdrRead, vars, hostVars, chanVars, writerVars, threadVars
<1>12. CASE HandleEnd
  BY <1>12, CompleteSame DEF HandleEnd, hostVars, chanVars, writerVars
<1>13. CASE Synchronize \/ FinalizeRefused \/ FinalizeOpen \/ FinalizeWrite
            \/ FinalizeClose \/ FinalizeRename
  <2>1. UNCHANGED <<records, boot, step, answer, handling, crashes>>
    BY <1>13 DEF Synchronize, FinalizeRefused, FinalizeOpen, FinalizeWrite,
         FinalizeClose, FinalizeRename, Finalize, hostVars, chanVars, writerVars
  <2>2. pc \in Finalizing
    BY <1>13 DEF Synchronize, FinalizeRefused, FinalizeOpen, FinalizeWrite,
         FinalizeClose, FinalizeRename, Finalize, Finalizing
  <2>3. handling.step = End
    BY <2>2 DEF Order
  <2>4. handling.boot = boot => step = End
    <3>1. step <= End /\ End \in Nat
      BY StepsAreNat DEF Messages, Steps
    <3> QED  BY <1>1, <2>3, <3>1
  <2> QED  BY <2>1, <2>3, <2>4, CompleteSame
<1> QED  BY <1>3, <1>4, <1>5, <1>6, <1>7, <1>8, <1>9, <1>10, <1>11, <1>12, <1>13
         DEF Next

LEMMA CopiedStep ==
    ASSUME Types, Copied, [Next]_vars
    PROVE  Copied'
<1> USE DEF Copied
<1>1. CASE FinalizeWrite
  BY <1>1 DEF FinalizeWrite, Finalize, Types, SmbiosFile
<1>2. CASE FinalizeClose
  BY <1>2 DEF FinalizeClose, Finalize, Types, SmbiosFile
<1>3. CASE FinalizeRename
  BY <1>3 DEF FinalizeRename, Finalize
<1>4. CASE FinalizeRefused \/ FinalizeOpen \/ HandleEnd \/ Synchronize \/ Respond
           \/ Restart \/ Handle \/ HandleBegin \/ HandleRecord \/ Crash
  <2>1. pc' \notin {"close", "rename", "synchronize"}
    BY <1>4 DEF FinalizeRefused, FinalizeOpen, Finalize, HandleEnd, Synchronize,
         Respond, Restart, Handle, HandleBegin, HandleRecord, Crash
  <2> QED  BY <2>1
<1>5. CASE HostSend \/ HostRetry \/ HostReceive \/ HostReboot \/ MdrRead
           \/ UNCHANGED vars
  BY <1>5 DEF HostSend, HostRetry, HostReceive, HostReboot, MdrRead, vars,
       writerVars, threadVars, fileVars
<1> QED  BY <1>1, <1>2, <1>3, <1>4, <1>5 DEF Next

LEMMA InitComplete == Init => Fifo /\ Complete /\ Copied
<1> SUFFICES ASSUME Init PROVE Fifo /\ Complete /\ Copied
  OBVIOUS
<1>1. /\ boot = 1 /\ step = 0 /\ pc = "idle" /\ records = <<>> /\ crashes = 0
      /\ request.boot = 0 /\ answer.boot = 0 /\ handling.boot = 0
  BY DEF Init, Nothing
<1>2. Numbers(records) = {}
  BY <1>1 DEF Numbers
<1> QED  BY <1>1, <1>2 DEF Fifo, Complete, Copied

LEMMA CompleteInvariance ==
    Spec => [](IInv /\ Fifo /\ Complete /\ Copied)
<1>1. IInv /\ Types /\ Fifo /\ Complete /\ Copied /\ [Next]_vars
          => Fifo' /\ Complete' /\ Copied'
  BY FifoStep, CompleteStep, CopiedStep
<1> QED  BY <1>1, InitComplete, Invariance, PTL DEF Spec

\* What the host of this boot has had answered when its end is carried out.
LEMMA AllCollected ==
    ASSUME IInv, Complete, pc = "synchronize", handling.boot = boot,
           crashes = 0, RoomLeft(records)
    PROVE  /\ Numbers(records) = UNION {Carried(Blobs[i]) : i \in DOMAIN Blobs}
           /\ \A i \in DOMAIN records : records[i].boot = boot
<1> USE DEF IInv, Channel
<1>1. step = End /\ step > 0 /\ End \in Nat
  <2>1. handling.step = End
    BY DEF Order, Finalizing
  <2>2. handling.step <= step
    BY MessageFacts
  <2>3. step <= End /\ step \in Nat /\ End \in Nat \ {0}
    BY StepsAreNat DEF Messages, Steps
  <2> QED  BY <2>1, <2>2, <2>3
<1>2. \A i \in DOMAIN Blobs : i <= step - 1
  <2>1. DOMAIN Blobs = 1..Len(Blobs) /\ Len(Blobs) \in Nat
    BY TransferAssumption
  <2> QED  BY <1>1, <2>1 DEF End
<1>3. \A i \in DOMAIN Blobs : Carried(Blobs[i]) \subseteq Numbers(records)
  BY <1>1, <1>2 DEF Complete, Collected
<1>4. Numbers(records) \subseteq UNION {Carried(Blobs[i]) : i \in DOMAIN Blobs}
  BY DEF Complete
<1>5. UpTo(records, boot, step)
  BY <1>1 DEF Session, Open
<1> QED  BY <1>3, <1>4, <1>5 DEF UpTo

\* Once finalize returns true for the running boot, in a daemon that did not die
\* and with room for every record, the file holds each record that the boot's
\* blobs carry and none of another boot, however often begin, a blob or end was
\* repeated, whichever answer was lost and whichever finalize failed before.
THEOREM NothingLost == Spec => []NoRecordLost
<1>1. IInv /\ Complete /\ Copied => NoRecordLost
  <2> SUFFICES ASSUME IInv, Complete, Copied, pc = "synchronize",
                      handling.boot = boot, crashes = 0, RoomLeft(records)
               PROVE  /\ Numbers(final.records) =
                            UNION {Carried(Blobs[i]) : i \in DOMAIN Blobs}
                      /\ \A i \in DOMAIN final.records :
                            final.records[i].boot = boot
    BY DEF NoRecordLost
  <2>1. final.records = records
    BY DEF Copied
  <2> QED  BY <2>1, AllCollected
<1> QED  BY <1>1, CompleteInvariance, PTL
-----------------------------------------------------------------------------
(* Versions                                                                 *)

Writing == {"write", "close", "rename"}

LEMMA OnlyRename ==
    ASSUME [Next]_vars, final' # final
    PROVE  final' = temp /\ pc = "rename"
<1>1. FinalizeRename
  BY DEF Next, vars, HostSend, HostRetry, HostReceive, HostReboot, MdrRead,
     HandleEnd, Synchronize, Respond, Restart, Handle, HandleBegin,
     HandleRecord, Crash, FinalizeRefused, FinalizeOpen, FinalizeWrite,
     FinalizeClose, fileVars
<1> QED  BY <1>1 DEF FinalizeRename, Finalize, fileVars

\* Without errors of the disk each version goes into a file.
Consecutive ==
    /\ final.version \in 0..(VersionMod - 1)
    /\ pc \in Writing => temp.version = directoryVersion
    /\ crashes \in Nat
    /\ crashes = 0 =>
          IF pc \in Writing
          THEN directoryVersion = (final.version + 1) % VersionMod
          ELSE directoryVersion = final.version

LEMMA NextVersion ==
    ASSUME NEW v \in 0..(VersionMod - 1)
    PROVE  /\ (v + 1) % VersionMod \in 0..(VersionMod - 1)
           /\ VersionMod > 1 => (v + 1) % VersionMod # v
           /\ v + 1 < VersionMod => (v + 1) % VersionMod = v + 1
<1>1. VersionMod \in Nat \ {0}
  BY TransferAssumption
<1>2. CASE v + 1 < VersionMod
  BY <1>1, <1>2
<1>3. CASE v + 1 = VersionMod
  <2>1. (v + 1) % VersionMod = 0
    BY <1>1, <1>3
  <2> QED  BY <1>1, <1>3, <2>1
<1> QED  BY <1>1, <1>2, <1>3

LEMMA LastVersion == \A v \in Nat : v + 1 = VersionMod => (v + 1) % VersionMod = 0
  BY TransferAssumption

LEMMA ConsecutiveStep ==
    ASSUME Types, Consecutive, [Next]_vars, ~DiskErrors
    PROVE  Consecutive'
<1> USE DEF Consecutive, Writing
<1>1. CASE FinalizeOpen
  <2>1. /\ pc = "finalize" /\ pc' = "write" /\ UNCHANGED <<final, crashes>>
        /\ directoryVersion' = (directoryVersion + 1) % VersionMod
        /\ temp'.version = directoryVersion'
    BY <1>1 DEF FinalizeOpen, Finalize, Absent
  <2> QED  BY <2>1
<1>2. CASE FinalizeRename
  <2>1. /\ pc = "rename" /\ pc' = "synchronize" /\ final' = temp
        /\ UNCHANGED <<directoryVersion, crashes>>
    BY <1>2 DEF FinalizeRename, Finalize
  <2>2. directoryVersion \in 0..(VersionMod - 1)
    BY DEF Types
  <2> QED  BY <2>1, <2>2
<1>3. CASE FinalizeWrite \/ FinalizeClose
  BY <1>3 DEF FinalizeWrite, FinalizeClose, Finalize, Types, SmbiosFile
<1>4. CASE Crash
  BY <1>4 DEF Crash, fileVars
<1>5. CASE HostSend \/ HostRetry \/ HostReceive \/ HostReboot \/ MdrRead
           \/ UNCHANGED vars
  BY <1>5 DEF HostSend, HostRetry, HostReceive, HostReboot, MdrRead, vars,
       writerVars, threadVars, fileVars
<1>6. CASE FinalizeRefused
  BY <1>6 DEF FinalizeRefused, Finalize, fileVars
<1>7. CASE HandleEnd \/ Synchronize \/ Respond \/ Restart \/ Handle
           \/ HandleBegin \/ HandleRecord
  <2>1. /\ pc \notin Writing /\ pc' \notin Writing
        /\ UNCHANGED <<final, directoryVersion, crashes>>
    BY <1>7 DEF HandleEnd, Synchronize, Respond, Restart, Handle, HandleBegin,
         HandleRecord, writerVars, fileVars
  <2> QED  BY <2>1
<1> QED  BY <1>1, <1>2, <1>3, <1>4, <1>5, <1>6, <1>7 DEF Next

\* Where no file operation fails, a daemon that does not die gives two consecutive
\* files different versions, also when the byte starts again at 0.
THEOREM VersionsAdvance ==
    ASSUME ~DiskErrors, VersionMod > 1
    PROVE  Spec => VersionChanges
<1>1. Init => Consecutive
  BY TransferAssumption DEF Init, Consecutive, Absent, Writing
<1>2. Types /\ Consecutive /\ [Next]_vars => Consecutive'
  BY ConsecutiveStep
<1>3. Consecutive /\ [Next]_vars
        => [final' # final /\ final # Absent /\ crashes = 0
               => final'.version # final.version]_vars
  <2> SUFFICES ASSUME Consecutive, [Next]_vars, final' # final, crashes = 0
               PROVE  final'.version # final.version
    OBVIOUS
  <2>1. final' = temp /\ pc = "rename"
    BY OnlyRename
  <2> QED  BY <2>1, NextVersion DEF Consecutive, Writing
<1> QED  BY <1>1, <1>2, <1>3, Invariance, PTL DEF Spec, VersionChanges

\* A command to end that was sent and is not yet carried out.
Ends(m) == IF m.boot # 0 /\ m.step = End THEN 1 ELSE 0
Underway == IF pc \in {"command", "finalize"} THEN Ends(handling) ELSE 0
Ended == IF waits /\ step = End THEN 1 ELSE 0

\* The version counts attempts, and each attempt has its command to end: one of
\* each boot, and those repeated.
Counted ==
    /\ retries \in 0..MaxRetries
    /\ directoryVersion + Ends(request) + Underway
          <= (boot - 1) + retries + Ended
    /\ pc \in Finalizing => handling.boot # 0
    /\ pc \in Writing => temp.version = directoryVersion
    /\ crashes \in Nat
    /\ final.version \in Nat
    /\ crashes = 0 => final.version <= directoryVersion
    /\ crashes = 0 => final = Absent \/ final.version > 0
    /\ crashes = 0 /\ pc \in Writing => final.version < directoryVersion

\* The last command to end has made the byte start again at 0.
Exhausted ==
    /\ directoryVersion = 0 /\ Ends(request) = 0 /\ Underway = 0
    /\ waits /\ step = End /\ boot = MaxBoots /\ retries = MaxRetries
    /\ pc \in Finalizing => handling.boot # 0
    /\ crashes \in Nat
    /\ pc \in Writing => temp.version = 0
    /\ crashes = 0 /\ pc \in Writing => final = Absent \/ final.version > 0

LEMMA ExhaustedStep ==
    ASSUME IInv, Types, Fifo, Exhausted, [Next]_vars
    PROVE  Exhausted'
<1> USE DEF IInv, Channel, Exhausted, Writing
<1>1. Ends(Nothing) = 0 /\ retries \in Nat /\ boot \in Nat /\ MaxBoots \in Nat
  BY TransferAssumption DEF Ends, Nothing, Messages
<1>2. pc # "finalize" /\ ~(pc = "command" /\ handling.step = End)
  BY DEF Underway, Ends, Order, Finalizing, Fifo
<1>3. ~(HostSend \/ HostRetry \/ HostReboot \/ HandleEnd \/ FinalizeOpen)
  <2>1. ~HostSend
    BY DEF HostSend
  <2>2. ~(retries < MaxRetries) /\ ~(boot < MaxBoots)
    <3> DEFINE r == retries  n == boot
    <3>1. r \in Nat /\ n \in Nat /\ r = MaxRetries /\ n = MaxBoots
      BY <1>1
    <3> HIDE DEF r, n
    <3>2. ~(r < MaxRetries) /\ ~(n < MaxBoots)
      BY <3>1
    <3> QED  BY <3>2 DEF r, n
  <2>3. ~HandleEnd /\ ~FinalizeOpen
    BY <1>2 DEF HandleEnd, FinalizeOpen, Finalize
  <2> QED  BY <2>1, <2>2, <2>3 DEF HostRetry, HostReboot
<1>4. CASE HostReceive
  BY <1>4 DEF HostReceive, threadVars, writerVars, fileVars, Underway, Ends
<1>5. CASE Handle
  BY <1>1, <1>5 DEF Handle, hostVars, writerVars, fileVars, Underway, Ends,
                    Finalizing
<1>6. CASE FinalizeRename
  <2>1. /\ pc' \in {"synchronize", "respond"} /\ pc \in Finalizing
        /\ UNCHANGED <<boot, step, waits, retries, request, handling,
                       directoryVersion, crashes>>
    BY <1>6 DEF FinalizeRename, Finalize, hostVars, chanVars, Finalizing
  <2> QED  BY <2>1 DEF Underway, Ends
<1>7. CASE FinalizeRefused \/ FinalizeWrite \/ FinalizeClose
  <2>1. /\ pc \in Finalizing /\ (pc' \in Writing => pc \in Writing)
        /\ temp'.version = temp.version /\ pc' \notin {"command", "finalize"}
        /\ UNCHANGED <<boot, step, waits, retries, request, handling, final,
                       directoryVersion, crashes>>
    BY <1>7 DEF FinalizeRefused, FinalizeWrite, FinalizeClose, Finalize,
         Finalizing, hostVars, chanVars, fileVars, Types, SmbiosFile
  <2> QED  BY <2>1 DEF Underway, Ends
<1>8. CASE HandleBegin \/ HandleRecord \/ Synchronize \/ Respond \/ Restart
           \/ Crash
  <2>1. /\ pc' \in {"respond", "idle", "down"} /\ crashes' \in Nat
        /\ directoryVersion' = 0
        /\ UNCHANGED <<boot, step, waits, retries, request>>
    <3>1. CASE HandleBegin \/ HandleRecord
      BY <3>1 DEF HandleBegin, HandleRecord, hostVars, chanVars
    <3>2. CASE Synchronize \/ Respond \/ Restart
      BY <3>2 DEF Synchronize, Respond, Restart, hostVars, chanVars, writerVars
    <3>3. CASE Crash
      BY <3>3 DEF Crash, hostVars, chanVars
    <3> QED  BY <1>8, <3>1, <3>2, <3>3
  <2> QED  BY <2>1 DEF Underway, Ends, Finalizing
<1>9. CASE MdrRead \/ UNCHANGED vars
  BY <1>9 DEF MdrRead, vars, hostVars, chanVars, fileVars, writerVars,
       threadVars, Underway, Ends
<1> QED  BY <1>3, <1>4, <1>5, <1>6, <1>7, <1>8, <1>9 DEF Next

LEMMA CountedStep ==
    ASSUME IInv, Types, Fifo, Counted, [Next]_vars,
           MaxBoots + MaxRetries <= VersionMod
    PROVE  Counted' \/ Exhausted'
<1> USE DEF IInv, Channel, Writing
<1>1. /\ boot \in Nat \ {0} /\ boot <= MaxBoots /\ retries \in Nat
      /\ directoryVersion \in Nat /\ retries <= MaxRetries /\ MaxRetries \in Nat
      /\ MaxBoots \in Nat /\ waits \in BOOLEAN /\ VersionMod \in Nat
      /\ End \in Nat \ {0}
  BY TransferAssumption, StepsAreNat DEF Messages, Counted, Types
<1>2. /\ \A m : Ends(m) \in {0, 1} /\ Ends(Nothing) = 0
      /\ Underway \in {0, 1} /\ Ended \in {0, 1}
  BY DEF Ends, Underway, Ended, Nothing
<1>3. CASE HostSend \/ HostRetry
  <2>1. /\ request = Nothing /\ request' = Command /\ waits' = TRUE
        /\ UNCHANGED <<boot, step, pc, handling, directoryVersion, temp, final,
                       crashes>>
    BY <1>3 DEF HostSend, HostRetry, threadVars, writerVars, fileVars
  <2>2. \/ retries' = retries /\ waits = FALSE
        \/ retries' = retries + 1 /\ retries < MaxRetries
    BY <1>3 DEF HostSend, HostRetry
  <2>3. Ends(request) = 0 /\ Ends(request)' = IF step = End THEN 1 ELSE 0
    BY <1>1, <1>2, <2>1 DEF Ends, Command
  <2>4. Underway' = Underway /\ Ended' = (IF step = End THEN 1 ELSE 0)
    BY <2>1 DEF Underway, Ends, Ended
  <2>5. retries' \in 0..MaxRetries
    BY <1>1, <2>2
  <2>6. directoryVersion + Ends(request)' + Underway'
           <= (boot - 1) + retries' + Ended'
    BY <1>1, <1>2, <2>2, <2>3, <2>4 DEF Counted, Ended
  <2> QED  BY <2>1, <2>5, <2>6 DEF Counted
<1>4. CASE HostReceive
  <2>1. UNCHANGED <<boot, retries, request, pc, handling, directoryVersion,
                    temp, final, crashes>>
    BY <1>4 DEF HostReceive, threadVars, writerVars, fileVars
  <2>2. Ended' >= Ended /\ Ended' \in {0, 1}
    <3>1. UNCHANGED <<step, waits>> \/ step # End
      BY <1>4 DEF HostReceive
    <3> QED  BY <3>1 DEF Ended
  <2>3. Ends(request)' = Ends(request) /\ Underway' = Underway
    BY <2>1 DEF Ends, Underway
  <2> QED  BY <1>1, <1>2, <2>1, <2>2, <2>3 DEF Counted
<1>5. CASE HostReboot
  <2>1. /\ boot' = boot + 1 /\ step' = 0 /\ waits' = FALSE
        /\ UNCHANGED <<retries, request, pc, handling, directoryVersion, temp,
                       final, crashes>>
    BY <1>5 DEF HostReboot, chanVars, threadVars, writerVars, fileVars
  <2>2. Ended' = 0 /\ Ends(request)' = Ends(request) /\ Underway' = Underway
    BY <1>1, <2>1 DEF Ended, Ends, Underway
  <2> QED  BY <1>1, <1>2, <2>1, <2>2 DEF Counted
<1>6. CASE Handle
  <2>1. /\ handling' = request /\ request' = Nothing /\ pc = "idle"
        /\ pc' = "command"
        /\ UNCHANGED <<boot, step, waits, retries, directoryVersion, temp,
                       final, crashes>>
    BY <1>6 DEF Handle, hostVars, writerVars, fileVars
  <2>2. /\ Underway = 0 /\ Underway' = Ends(request) /\ Ends(request)' = 0
        /\ Ended' = Ended
    BY <1>2, <2>1 DEF Ended, Ends, Underway
  <2>3. pc' \notin Finalizing
    BY <2>1 DEF Finalizing
  <2> QED  BY <1>1, <1>2, <2>1, <2>2, <2>3 DEF Counted
<1>7. CASE HandleEnd
  <2>1. /\ pc = "command" /\ pc' = "finalize" /\ handling.boot # 0
        /\ UNCHANGED <<boot, step, waits, retries, request, handling,
                       directoryVersion, temp, final, crashes>>
    BY <1>7 DEF HandleEnd, hostVars, chanVars, writerVars, fileVars, Fifo
  <2>2. /\ Underway' = Underway /\ Ends(request)' = Ends(request)
        /\ Ended' = Ended
    BY <2>1 DEF Ended, Ends, Underway
  <2> QED  BY <1>1, <2>1, <2>2 DEF Counted
<1>8. CASE FinalizeOpen
  <2>1. /\ pc = "finalize" /\ pc' \in {"write", "respond"}
        /\ pc' = "write" => temp'.version = directoryVersion'
        /\ directoryVersion' = (directoryVersion + 1) % VersionMod
        /\ UNCHANGED <<boot, step, waits, retries, request, handling, final,
                       crashes>>
    BY <1>8 DEF FinalizeOpen, Finalize, hostVars, chanVars, Absent
  <2>2. Underway = 1 /\ handling.boot # 0
    BY <2>1 DEF Underway, Ends, Order, Finalizing, Counted
  <2>3. /\ Underway' = 0 /\ Ends(request)' = Ends(request) /\ Ended' = Ended
    BY <2>1 DEF Ended, Ends, Underway
  <2>4. directoryVersion + 1 <= (boot - 1) + retries + Ended
    BY <1>1, <1>2, <2>2 DEF Counted
  <2>5. directoryVersion \in 0..(VersionMod - 1)
    BY DEF Types
  <2>6. CASE directoryVersion + 1 < VersionMod
    <3>1. directoryVersion' = directoryVersion + 1
      BY <2>1, <2>5, <2>6, NextVersion
    <3>2. directoryVersion' + Ends(request)' + Underway'
             <= (boot - 1) + retries + Ended'
      BY <1>1, <1>2, <2>2, <2>3, <3>1 DEF Counted
    <3>3. crashes = 0 => final.version < directoryVersion'
      BY <1>1, <3>1 DEF Counted
    <3> QED  BY <1>1, <2>1, <2>2, <3>1, <3>2, <3>3 DEF Counted
  <2>7. CASE directoryVersion + 1 = VersionMod
    <3>1. directoryVersion' = 0
      BY <1>1, <2>1, <2>5, <2>7, LastVersion
    <3>2. /\ Ends(request) = 0 /\ boot = MaxBoots /\ retries = MaxRetries
          /\ Ended = 1
      BY <1>1, <1>2, <2>2, <2>7 DEF Counted
    <3> QED  BY <1>1, <2>1, <2>2, <2>3, <3>1, <3>2 DEF Counted, Exhausted, Ended
  <2> QED  BY <1>1, <2>5, <2>6, <2>7
<1>9. CASE FinalizeRename
  <2>1. /\ pc = "rename" /\ pc' \in {"synchronize", "respond"}
        /\ final' \in {temp, final}
        /\ UNCHANGED <<boot, step, waits, retries, request, handling,
                       directoryVersion, crashes>>
    BY <1>9 DEF FinalizeRename, Finalize, hostVars, chanVars, fileVars
  <2>2. /\ Underway' = 0 /\ Underway = 0 /\ Ends(request)' = Ends(request)
        /\ Ended' = Ended /\ handling.boot # 0
    BY <2>1 DEF Ended, Ends, Underway, Finalizing, Counted
  <2>3. /\ final'.version \in Nat
        /\ crashes = 0 => final'.version <= directoryVersion
        /\ crashes = 0 => final' = Absent \/ final'.version > 0
    BY <1>1, <2>1 DEF Counted
  <2> QED  BY <1>1, <2>1, <2>2, <2>3 DEF Counted
<1>10. CASE FinalizeRefused \/ FinalizeWrite \/ FinalizeClose
  <2>1. /\ pc \in Finalizing /\ (pc' \in Writing => pc \in Writing)
        /\ temp'.version = temp.version /\ pc' \notin {"command", "finalize"}
        /\ UNCHANGED <<boot, step, waits, retries, request, handling, final,
                       directoryVersion, crashes>>
    BY <1>10 DEF FinalizeRefused, FinalizeWrite, FinalizeClose, Finalize,
         Finalizing, hostVars, chanVars, fileVars, Types, SmbiosFile
  <2>2. /\ Underway' = 0 /\ Ends(request)' = Ends(request) /\ Ended' = Ended
        /\ handling.boot # 0
    BY <2>1 DEF Ended, Ends, Underway, Counted
  <2> QED  BY <1>1, <1>2, <2>1, <2>2 DEF Counted
<1>11. CASE HandleBegin \/ HandleRecord \/ Synchronize \/ Respond \/ Restart
  <2>1. /\ pc' \in {"respond", "idle"}
        /\ UNCHANGED <<boot, step, waits, retries, request, temp, final,
                       directoryVersion, crashes>>
    BY <1>11 DEF HandleBegin, HandleRecord, Synchronize, Respond, Restart,
         hostVars, chanVars, fileVars, writerVars
  <2>2. /\ Underway' = 0 /\ Ends(request)' = Ends(request) /\ Ended' = Ended
        /\ pc' \notin Finalizing
    BY <2>1 DEF Ended, Ends, Underway, Finalizing
  <2> QED  BY <1>1, <1>2, <2>1, <2>2 DEF Counted
<1>12. CASE Crash
  <2>1. /\ pc' = "down" /\ directoryVersion' = 0 /\ crashes' = crashes + 1
        /\ UNCHANGED <<boot, step, waits, retries, request, temp, final>>
    BY <1>12 DEF Crash, hostVars, chanVars, fileVars
  <2>2. /\ Underway' = 0 /\ Ends(request)' = Ends(request) /\ Ended' = Ended
        /\ pc' \notin Finalizing
    BY <2>1 DEF Ended, Ends, Underway, Finalizing
  <2> QED  BY <1>1, <1>2, <2>1, <2>2 DEF Counted
<1>13. CASE MdrRead \/ UNCHANGED vars
  <2>1. UNCHANGED <<boot, step, waits, retries, request, temp, final, pc,
                    handling, directoryVersion, crashes>>
    BY <1>13 DEF MdrRead, vars, hostVars, chanVars, fileVars, writerVars,
         threadVars
  <2>2. Underway' = Underway /\ Ends(request)' = Ends(request) /\ Ended' = Ended
    BY <2>1 DEF Ended, Ends, Underway
  <2> QED  BY <2>1, <2>2 DEF Counted
<1> QED  BY <1>3, <1>4, <1>5, <1>6, <1>7, <1>8, <1>9, <1>10, <1>11, <1>12, <1>13
         DEF Next

\* Whatever fails: a daemon that does not die gives two consecutive files different
\* versions, as long as the boots and the repeated commands together do not exceed
\* the values of the byte.
THEOREM VersionsGrow ==
    ASSUME MaxBoots + MaxRetries <= VersionMod
    PROVE  Spec => VersionChanges
<1>1. Init => Counted
  BY TransferAssumption
     DEF Init, Counted, Nothing, Absent, Ends, Underway, Ended, Writing, Finalizing
<1>2. IInv /\ Types /\ Fifo /\ (Counted \/ Exhausted) /\ [Next]_vars
          => (Counted \/ Exhausted)'
  BY CountedStep, ExhaustedStep
<1>3. (Counted \/ Exhausted) /\ [Next]_vars
        => [final' # final /\ final # Absent /\ crashes = 0
               => final'.version # final.version]_vars
  <2> SUFFICES ASSUME Counted \/ Exhausted, [Next]_vars, final' # final,
                      final # Absent, crashes = 0
               PROVE  final'.version # final.version
    OBVIOUS
  <2>1. final' = temp /\ pc = "rename"
    BY OnlyRename
  <2>2. CASE Counted
    BY <2>1, <2>2 DEF Counted, Writing
  <2>3. CASE Exhausted
    BY <2>1, <2>3 DEF Exhausted, Writing
  <2> QED  BY <2>2, <2>3
<1> QED  BY <1>1, <1>2, <1>3, Invariance, CompleteInvariance, PTL
         DEF Spec, VersionChanges
=============================================================================

-------------------------- MODULE ChifDaemonProofs --------------------------
(***************************************************************************)
(* For any script, limits and numbers of failing reads and writes: the      *)
(* types of the packet loop, that it never spins on a broken device, and    *)
(* that it answers what is due an answer, in order.                         *)
(*                                                                          *)
(* NoBusyLoop alone is not inductive: what bounds the failed reads since    *)
(* the last pause is consecutiveErrors, which a pause does not reset, and   *)
(* that the loop goes to its back-off as soon as that reaches the limit.    *)
(* AnsweredInOrder is about the loop's head only; Answered counts the       *)
(* packet in hand as not handled yet.                                       *)
(***************************************************************************)
EXTENDS ChifDaemon, FiniteSetTheorems, TLAPS

\* A packet is in hand where the loop handles one.
InHand == pc \in {"dispatch", "write"} => taken > 0

Spinning ==
    /\ spins <= consecutiveErrors
    /\ spins <= maxConsecutiveErrors
    /\ pc # "backoff" => spins < maxConsecutiveErrors

\* The parts of TypeOK.
Places ==
    /\ sent \in 0..Len(Script) /\ taken \in 0..sent
    /\ pc \in {"main", "loop", "enter", "read", "backoff", "dispatch",
               "write", "exit"}

Counters ==
    /\ errors \in 0..MaxErrors /\ writeErrors \in 0..MaxWriteErrors
    /\ consecutiveErrors \in 0..errors /\ spins \in 0..errors
    /\ errorRetryCounter \in 0..errors
    /\ delay \in 0..errorBackoffMaxDelay

\* Between two back-offs there is a failed read.
Retries ==
    /\ pc = "backoff" => errorRetryCounter < errors
    /\ errorRetryCounter <= errors

Answers == answers \in Seq([sequence : Nat, command : Nat])

StopPlace ==
    stopAt \in {"never", "main", "loop", "enter", "read", "backoff",
                "dispatch", "write"}

IInv ==
    /\ StopPlace /\ Places /\ Counters /\ Answers /\ running \in BOOLEAN
    /\ InHand /\ Spinning /\ Retries

LEMMA Limits ==
  /\ maxConsecutiveErrors \in Nat \ {0} /\ errorBackoffMaxDelay \in Nat \ {0}
  /\ MaxErrors \in Nat /\ MaxWriteErrors \in Nat /\ Len(Script) \in Nat
  BY DaemonAssumption

\* The conversion of the power of two never gives a pause of no length.
LEMMA PowerPositive ==
  ASSUME NEW n \in Nat
  PROVE  PowerOfTwo(n) \in Nat /\ PowerOfTwo(n) > 0
<1>1. CASE n >= 31
  BY <1>1 DEF PowerOfTwo
<1>2. CASE n < 31
  <2> DEFINE ok(k) == 2^k \in Nat /\ 2^k > 0
  <2>1. /\ ok(0) /\ ok(1) /\ ok(2) /\ ok(3) /\ ok(4) /\ ok(5)
        /\ ok(6) /\ ok(7) /\ ok(8) /\ ok(9) /\ ok(10) /\ ok(11)
        /\ ok(12) /\ ok(13) /\ ok(14) /\ ok(15) /\ ok(16) /\ ok(17)
        /\ ok(18) /\ ok(19) /\ ok(20) /\ ok(21) /\ ok(22) /\ ok(23)
        /\ ok(24) /\ ok(25) /\ ok(26) /\ ok(27) /\ ok(28) /\ ok(29)
        /\ ok(30)
    OBVIOUS
  <2>2. \/ n = 0 \/ n = 1 \/ n = 2 \/ n = 3 \/ n = 4 \/ n = 5
        \/ n = 6 \/ n = 7 \/ n = 8 \/ n = 9 \/ n = 10 \/ n = 11
        \/ n = 12 \/ n = 13 \/ n = 14 \/ n = 15 \/ n = 16 \/ n = 17
        \/ n = 18 \/ n = 19 \/ n = 20 \/ n = 21 \/ n = 22 \/ n = 23
        \/ n = 24 \/ n = 25 \/ n = 26 \/ n = 27 \/ n = 28 \/ n = 29
        \/ n = 30
    BY <1>2
  <2> HIDE DEF ok
  <2>3. ok(n)
    BY <2>1, <2>2
  <2> QED
    BY <1>2, <2>3 DEF PowerOfTwo, ok
<1> QED
  BY <1>1, <1>2

LEMMA InitEstablishes == Init => IInv
<1> SUFFICES ASSUME Init PROVE IInv
  OBVIOUS
<1>0. StopPlace /\ running \in BOOLEAN /\ InHand
  BY DEF Init, InHand, StopPlace
<1>1. Places
  BY <1>0, Limits DEF Init, Places
<1>2. Counters /\ Spinning /\ Retries
  BY Limits DEF Init, Counters, Spinning, Retries
<1>3. Answers
  BY DEF Init, Answers
<1> QED
  BY <1>0, <1>1, <1>2, <1>3 DEF IInv

\* A step of the loop that counts nothing.
LEMMA QuietStep ==
  ASSUME IInv, UNCHANGED <<loopVars, writeErrors, answers>>,
         pc # "backoff", pc' # "backoff", pc' \in {"main", "loop", "enter",
                                "read", "dispatch", "write", "exit"},
         sent' \in sent..Len(Script), taken' \in taken..sent', StopPlace',
         running' \in BOOLEAN,
         pc' \in {"dispatch", "write"} => taken' > 0
  PROVE  IInv'
<1>1. Places' /\ InHand'
  BY Limits DEF IInv, Places, InHand
<1>2. Counters' /\ Spinning' /\ Retries' /\ Answers'
  BY DEF loopVars, IInv, Counters, Spinning, Retries, Answers
<1> QED
  BY <1>1, <1>2 DEF IInv

LEMMA StepKeeps == IInv /\ [Next]_vars => IInv'
<1> SUFFICES ASSUME IInv, [Next]_vars PROVE IInv'
  OBVIOUS
<1>0. /\ sent \in Nat /\ taken \in Nat /\ taken <= sent /\ sent <= Len(Script)
      /\ sent \in sent..Len(Script) /\ taken \in taken..sent
      /\ StopPlace /\ running \in BOOLEAN
  BY Limits DEF IInv, Places
<1>1. CASE Run \/ Loop \/ EnterRead
  BY <1>0, <1>1, QuietStep DEF Run, Loop, EnterRead, Go, stopVars, StopPlace
<1>2. CASE ReadNothing
  BY <1>0, <1>2, QuietStep DEF ReadNothing, Go, stopVars, StopPlace
<1>3. CASE Dispatch
  BY <1>0, <1>3, QuietStep DEF Dispatch, Go, stopVars, StopPlace, IInv, InHand
<1>4. CASE ReadPacket
  <2>1. Places' /\ InHand' /\ StopPlace' /\ running' \in BOOLEAN /\ Answers'
    BY <1>0, <1>4, Limits
    DEF ReadPacket, Go, stopVars, StopPlace, IInv, Places, InHand, Answers
  <2>2. Counters' /\ Spinning' /\ Retries'
    BY <1>4, Limits
    DEF ReadPacket, Go, IInv, Counters, Spinning, Retries
  <2> QED
    BY <2>1, <2>2 DEF IInv
<1>5. CASE ReadError
  <2>1. Places' /\ InHand' /\ StopPlace' /\ running' \in BOOLEAN /\ Answers'
    BY <1>0, <1>5, Limits
    DEF ReadError, Go, stopVars, StopPlace, IInv, Places, InHand, Answers
  <2>2. Counters' /\ Spinning' /\ Retries'
    BY <1>5, Limits
    DEF ReadError, Go, IInv, Counters, Spinning, Retries
  <2> QED
    BY <2>1, <2>2 DEF IInv
<1>6. CASE Backoff
  <2>1. Places' /\ InHand' /\ StopPlace' /\ running' \in BOOLEAN /\ Answers'
    BY <1>0, <1>6, Limits
    DEF Backoff, Go, stopVars, StopPlace, IInv, Places, InHand, Answers
  <2>2. errorRetryCounter \in Nat
    BY Limits DEF IInv, Counters
  <2>3. delay' \in 1..errorBackoffMaxDelay /\ spins' = 0
    <3> DEFINE p == PowerOfTwo(errorRetryCounter)
    <3>1. p \in Nat /\ p > 0
      BY <2>2, PowerPositive
    <3>2. delay' = IF p < errorBackoffMaxDelay THEN p ELSE errorBackoffMaxDelay
      BY <1>6 DEF Backoff
    <3> HIDE DEF p
    <3>3. delay' \in 1..errorBackoffMaxDelay
      BY <3>1, <3>2, Limits
    <3> QED
      BY <1>6, <3>3 DEF Backoff
  <2>4. Counters' /\ Spinning' /\ Retries'
    BY <1>6, <2>3, Limits
    DEF Backoff, Go, IInv, Counters, Spinning, Retries
  <2> QED
    BY <2>1, <2>4 DEF IInv
<1>7. CASE Write
  <2>1. Places' /\ InHand' /\ StopPlace' /\ running' \in BOOLEAN
    BY <1>0, <1>7 DEF Write, Go, stopVars, StopPlace, IInv, Places, InHand
  <2>2. Counters' /\ Spinning' /\ Retries'
    BY <1>7 DEF Write, Go, loopVars, IInv, Counters, Spinning, Retries
  <2>3. taken \in 1..Len(Script)
    BY <1>0, <1>7, Limits DEF Write, Go, IInv, InHand
  <2>4. Script[taken] \in Packet
    BY <2>3, DaemonAssumption
  <2>5. Response(taken) \in [sequence : Nat, command : Nat]
    BY <1>0, <2>4 DEF Response, Packet, responseBit
  <2>6. Answers'
    BY <1>7, <2>5 DEF Write, IInv, Answers
  <2> QED
    BY <2>1, <2>2, <2>6 DEF IInv
<1>8. CASE WriteError
  <2>1. Places' /\ InHand' /\ StopPlace' /\ running' \in BOOLEAN /\ Answers'
    BY <1>0, <1>8
    DEF WriteError, Go, stopVars, StopPlace, IInv, Places, InHand, Answers
  <2>2. Counters' /\ Spinning' /\ Retries'
    BY <1>8, Limits
    DEF WriteError, Go, loopVars, IInv, Counters, Spinning, Retries
  <2> QED
    BY <2>1, <2>2 DEF IInv
<1>9. CASE HostSend
  <2>1. Places' /\ InHand' /\ StopPlace' /\ running' \in BOOLEAN /\ Answers'
    BY <1>0, <1>9, Limits
    DEF HostSend, stopVars, StopPlace, IInv, Places, InHand, Answers
  <2>2. Counters' /\ Spinning' /\ Retries'
    BY <1>9 DEF HostSend, loopVars, IInv, Counters, Spinning, Retries
  <2> QED
    BY <2>1, <2>2 DEF IInv
<1>10. CASE Stop
  <2>3. StopPlace' /\ running' \in BOOLEAN
    BY <1>10 DEF Stop, IInv, Places, StopPlace
  <2>1. Places' /\ InHand' /\ Answers'
    BY <1>0, <1>10, <2>3 DEF Stop, Go, IInv, Places, InHand, Answers
  <2>2. Counters' /\ Spinning' /\ Retries'
    BY <1>10 DEF Stop, Go, loopVars, IInv, Counters, Spinning, Retries
  <2> QED
    BY <2>1, <2>2, <2>3 DEF IInv
<1>11. CASE UNCHANGED vars
  BY <1>11 DEF vars, stopVars, loopVars, StopPlace, IInv, Places, InHand,
               Answers, Counters, Spinning, Retries
<1> QED
  BY <1>1, <1>2, <1>3, <1>4, <1>5, <1>6, <1>7, <1>8, <1>9, <1>10, <1>11
  DEF Next, Daemon

LEMMA Invariance == Spec => []IInv
  BY InitEstablishes, StepKeeps, PTL DEF Spec

\* The type invariant of ChifDaemon::run, for any script and any limits.
THEOREM TypeCorrect == Spec => []TypeOK
<1>1. IInv => TypeOK
  BY DEF IInv, Places, Counters, Answers, StopPlace, TypeOK
<1> QED
  BY <1>1, Invariance, PTL

\* However long the device fails, and whatever signals and packets come in
\* between, no more than maxConsecutiveErrors reads fail in a row without a
\* pause (the back-off of ChifDaemon::run).
THEOREM NeverSpins == Spec => []NoBusyLoop
<1>1. IInv => NoBusyLoop
  BY DEF IInv, Spinning, NoBusyLoop
<1> QED
  BY <1>1, Invariance, PTL
-----------------------------------------------------------------------------
(* Answers                                                                  *)

\* The packets that are done with.
Handled == IF pc \in {"dispatch", "write"} THEN taken - 1 ELSE taken

Answered ==
    /\ Len(answers) + writeErrors = Cardinality(Due(Handled))
    /\ \A n \in DOMAIN answers : \E i \in Due(Handled) : answers[n] = Response(i)
    /\ \A m, n \in DOMAIN answers :
          m < n => answers[m].sequence < answers[n].sequence
    /\ pc = "write" => Answerable(packet)

LEMMA NextDue ==
    ASSUME NEW n \in Nat
    PROVE  /\ Cardinality(Due(n)) \in Nat
           /\ Due(n) \subseteq Due(n + 1)
           /\ Cardinality(Due(n + 1)) =
                 Cardinality(Due(n)) + IF Answerable(Script[n + 1]) THEN 1 ELSE 0
           /\ Answerable(Script[n + 1]) => n + 1 \in Due(n + 1)
<1>1. IsFiniteSet(Due(n))
  <2>1. IsFiniteSet(1..n) /\ Due(n) \subseteq 1..n
    BY FS_Interval DEF Due
  <2> QED  BY <2>1, FS_Subset
<1>2. CASE Answerable(Script[n + 1])
  <2>1. Due(n + 1) = Due(n) \cup {n + 1} /\ n + 1 \notin Due(n)
    BY <1>2 DEF Due
  <2> QED  BY <1>1, <1>2, <2>1, FS_AddElement, FS_CardinalityType
<1>3. CASE ~Answerable(Script[n + 1])
  <2>1. Due(n + 1) = Due(n)
    BY <1>3 DEF Due
  <2> QED  BY <1>1, <1>3, <2>1, FS_CardinalityType
<1> QED  BY <1>2, <1>3

\* The packet in hand is done with, and was not due an answer.
LEMMA PassedOver ==
    ASSUME IInv, Answered, UNCHANGED <<answers, writeErrors>>, pc' # "write",
           Handled' = Handled + 1, ~Answerable(Script[Handled + 1])
    PROVE  Answered'
<1>1. Handled \in Nat
  BY Limits DEF Handled, IInv, Places, InHand
<1> DEFINE n == Handled
<1>2. n \in Nat /\ Handled' = n + 1 /\ ~Answerable(Script[n + 1])
  BY <1>1
<1>3. /\ Len(answers) + writeErrors = Cardinality(Due(n))
      /\ \A k \in DOMAIN answers : \E i \in Due(n) : answers[k] = Response(i)
      /\ \A k, m \in DOMAIN answers :
            k < m => answers[k].sequence < answers[m].sequence
  BY DEF Answered
<1> HIDE DEF n
<1>4. /\ Due(n) \subseteq Due(n + 1) /\ Cardinality(Due(n)) \in Nat
      /\ Cardinality(Due(n + 1)) = Cardinality(Due(n))
  BY <1>2, NextDue
<1>5. Due(Handled)' = Due(n + 1)
  BY <1>2 DEF Due, Answerable
<1> QED  BY <1>2, <1>3, <1>4, <1>5 DEF Answered

\* Nothing is done with in this step.
LEMMA NothingDone ==
    ASSUME Answered, UNCHANGED <<answers, writeErrors, Handled>>,
           pc' = "write" => Answerable(packet)'
    PROVE  Answered'
<1>1. Due(Handled)' = Due(Handled)
  BY DEF Due, Answerable
<1> QED  BY <1>1 DEF Answered, Response

LEMMA AnsweredStep ==
    ASSUME IInv, Answered, [Next]_vars
    PROVE  Answered'
<1>1. /\ taken \in Nat /\ Len(Script) \in Nat /\ taken <= Len(Script)
      /\ Handled \in Nat /\ (pc \in {"dispatch", "write"} => taken > 0)
      /\ writeErrors \in Nat
      /\ answers \in Seq([sequence : Nat, command : Nat])
  BY Limits DEF Handled, IInv, Places, InHand, Counters, Answers
<1>2. CASE Run \/ Loop \/ EnterRead \/ Backoff \/ ReadError
  BY <1>2, NothingDone DEF Run, Loop, EnterRead, Backoff, ReadError, Go, Handled
<1>3. CASE HostSend \/ UNCHANGED vars
  <2>1. UNCHANGED <<answers, writeErrors, pc, taken>>
    BY <1>3 DEF HostSend, vars
  <2> QED  BY <2>1, NothingDone DEF Handled, Answered, packet, Answerable
<1>4. CASE Stop
  <2>1. /\ UNCHANGED <<answers, writeErrors, taken>>
        /\ pc' = pc \/ (pc = "read" /\ pc' = "loop")
    BY <1>4 DEF Stop, Go
  <2> QED  BY <2>1, NothingDone DEF Handled, Answered, packet, Answerable
<1>5. CASE ReadNothing
  <2>1. /\ UNCHANGED <<answers, writeErrors>> /\ pc = "read" /\ pc' = "loop"
        /\ taken' = taken + 1 /\ Script[taken + 1].size = "empty"
    BY <1>5 DEF ReadNothing, Go
  <2>2. Handled = taken /\ Handled' = taken + 1
    BY <2>1 DEF Handled
  <2> QED  BY <2>1, <2>2, PassedOver DEF Answerable
<1>6. CASE ReadPacket
  <2>1. /\ UNCHANGED <<answers, writeErrors>> /\ pc = "read"
        /\ pc' = "dispatch" /\ taken' = taken + 1
    BY <1>6 DEF ReadPacket, Go
  <2>2. Handled' = Handled
    BY <1>1, <2>1 DEF Handled
  <2> QED  BY <2>1, <2>2, NothingDone
<1>7. CASE Dispatch
  <2>1. /\ UNCHANGED <<answers, writeErrors, taken>> /\ pc = "dispatch"
        /\ pc' = IF Answerable(packet) THEN "write" ELSE "loop"
    BY <1>7 DEF Dispatch, Go
  <2>2. CASE Answerable(packet)
    BY <2>1, <2>2, NothingDone DEF Handled, packet, Answerable
  <2>3. CASE ~Answerable(packet)
    <3>1. /\ Handled = taken - 1 /\ Handled' = taken /\ taken > 0
          /\ pc' = "loop"
      BY <1>1, <2>1, <2>3 DEF Handled
    <3>2. Handled' = Handled + 1 /\ Handled + 1 = taken
      BY <1>1, <3>1
    <3> QED  BY <2>1, <2>3, <3>1, <3>2, PassedOver DEF packet
  <2> QED  BY <2>2, <2>3
<1>8. CASE Write \/ WriteError
  <2> DEFINE n == Handled
  <2>1. /\ taken' = taken /\ pc = "write" /\ pc' = "loop"
        /\ \/ /\ answers' = Append(answers, Response(taken))
              /\ writeErrors' = writeErrors
           \/ answers' = answers /\ writeErrors' = writeErrors + 1
    BY <1>8 DEF Write, WriteError, Go, loopVars
  <2>2. n \in Nat /\ n + 1 = taken /\ Handled' = n + 1
    BY <1>1, <2>1 DEF Handled
  <2>3. /\ Len(answers) + writeErrors = Cardinality(Due(n))
        /\ \A k \in DOMAIN answers : \E i \in Due(n) : answers[k] = Response(i)
        /\ \A k, m \in DOMAIN answers :
              k < m => answers[k].sequence < answers[m].sequence
        /\ Answerable(Script[n + 1])
    BY <2>1, <2>2 DEF Answered, packet
  <2> HIDE DEF n
  <2>4. /\ Due(n) \subseteq Due(n + 1) /\ Cardinality(Due(n)) \in Nat
        /\ Cardinality(Due(n + 1)) = Cardinality(Due(n)) + 1
        /\ n + 1 \in Due(n + 1)
    BY <2>2, <2>3, NextDue
  <2>5. Due(Handled)' = Due(n + 1)
    BY <2>2 DEF Due, Answerable
  <2>6. CASE answers' = answers /\ writeErrors' = writeErrors + 1
    <3>1. Len(answers') + writeErrors' = Cardinality(Due(n + 1))
      BY <1>1, <2>3, <2>4, <2>6
    <3> QED  BY <2>1, <2>3, <2>4, <2>5, <2>6, <3>1 DEF Answered, Response
  <2>7. CASE answers' = Append(answers, Response(taken))
             /\ writeErrors' = writeErrors
    <3>1. /\ Len(answers') = Len(answers) + 1 /\ Len(answers) \in Nat
          /\ DOMAIN answers = 1..Len(answers)
          /\ DOMAIN answers' = 1..(Len(answers) + 1)
          /\ \A k \in 1..Len(answers) : answers'[k] = answers[k]
          /\ answers'[Len(answers) + 1] = Response(n + 1)
      BY <1>1, <2>2, <2>7
    <3>2. Len(answers') + writeErrors' = Cardinality(Due(n + 1))
      BY <1>1, <2>3, <2>4, <2>7, <3>1
    <3>3. \A k \in DOMAIN answers' :
             \E i \in Due(n + 1) : answers'[k] = Response(i)
      BY <2>3, <2>4, <3>1
    <3>4. Response(n + 1).sequence = n + 1
      BY DEF Response
    <3>5. \A k \in DOMAIN answers : answers[k].sequence < n + 1
      <4>1. \A i \in Due(n) : i < n + 1 /\ Response(i).sequence = i
        BY <2>2 DEF Due, Response
      <4> QED  BY <2>3, <4>1
    <3>6. \A k, m \in DOMAIN answers' :
             k < m => answers'[k].sequence < answers'[m].sequence
      BY <2>3, <3>1, <3>4, <3>5
    <3> QED  BY <2>1, <2>5, <3>2, <3>3, <3>6 DEF Answered, Response
  <2> QED  BY <2>1, <2>6, <2>7
<1> QED  BY <1>2, <1>3, <1>4, <1>5, <1>6, <1>7, <1>8 DEF Next, Daemon

\* For any script, and wherever writes fail, signals and bad reads come in: at the
\* head of the loop the answers are those to the packets that are due one, each
\* numbered like its request and in their order, but for the writes that failed.
THEOREM AnswersInOrder == Spec => []AnsweredInOrder
<1>1. Init => Answered
  <2> SUFFICES ASSUME Init PROVE Answered
    OBVIOUS
  <2>1. Handled = 0 /\ answers = <<>> /\ writeErrors = 0 /\ pc = "main"
    BY DEF Init, Handled
  <2>2. Due(0) = {}
    BY DEF Due
  <2> QED  BY <2>1, <2>2, FS_EmptySet DEF Answered
<1>2. IInv /\ Answered /\ [Next]_vars => Answered'
  BY AnsweredStep
<1>3. Answered => AnsweredInOrder
  BY DEF Answered, AnsweredInOrder, Handled
<1> QED  BY <1>1, <1>2, <1>3, Invariance, PTL DEF Spec
=============================================================================

----------------------------- MODULE ChifDaemon -----------------------------
(***************************************************************************)
(* The packet loop of the chif daemon (chif_daemon.cpp, started by          *)
(* main.cpp): read a packet, find the handler of its service, write what it *)
(* answers, until stop() is called from a signal handler, which may run     *)
(* between any two steps of the loop.  A signal that arrives while read()   *)
(* sleeps ends it with EINTR; one that arrives before read() is entered     *)
(* only clears running_.                                                    *)
(***************************************************************************)
EXTENDS Integers, Sequences, FiniteSets

CONSTANTS
    Script,                 \* the packets the host sends, in order
    Handlers,               \* services with a registered handler
    RomCommands,            \* the commands RomService::handle knows
    maxConsecutiveErrors,
    errorBackoffMaxDelay,   \* in units of errorBackoffBaseDelay, one second
    MaxErrors,              \* bound: reads that fail
    MaxWriteErrors          \* bound: writes that fail

\* What the loop looks at: the size read() returns and the header.
Sizes == {"empty", "short", "whole"}
Packet == [size : Sizes, service : STRING, command : Nat]

ASSUME DaemonAssumption ==
    /\ Script \in Seq(Packet)
    /\ {maxConsecutiveErrors, errorBackoffMaxDelay} \subseteq Nat \ {0}
    /\ {MaxErrors, MaxWriteErrors} \subseteq Nat

VARIABLES
    sent,               \* how many packets of the script the host has sent
    taken,              \* how many of them read() has returned
    answers,            \* the responses written: sequence number and command
    pc,                 \* where main and ChifDaemon::run are
    running,            \* running_
    stopAt,             \* where the loop was when stop() was called
    consecutiveErrors, errorRetryCounter,
    delay,              \* the time of the last sleep_for
    spins,              \* failed reads since the last success or sleep
    errors, writeErrors

loopVars  == <<consecutiveErrors, errorRetryCounter, delay, spins, errors>>
stopVars  == <<running, stopAt>>
vars == <<sent, taken, answers, pc, stopVars, loopVars, writeErrors>>

Init ==
    /\ sent = 0 /\ taken = 0 /\ answers = <<>>
    /\ pc = "main" /\ running = FALSE /\ stopAt = "never"
    /\ consecutiveErrors = 0 /\ errorRetryCounter = 0
    /\ delay = 0 /\ spins = 0 /\ errors = 0 /\ writeErrors = 0

\* The packet being handled; its place in the script is its sequence number.
packet == Script[taken]

\* RomService drops commands it does not know; the other handlers answer
\* every packet that has a header.
Answerable(p) ==
    /\ p.size = "whole"
    /\ p.service \in Handlers
    /\ p.service = "rom" => p.command \in RomCommands

\* initResponse sets the response bit, initRomResponse does not.
responseBit == 32768
Response(i) ==
    [sequence |-> i,
     command  |-> IF Script[i].service = "rom" THEN Script[i].command
                  ELSE Script[i].command + responseBit]

-----------------------------------------------------------------------------
HostSend ==
    /\ sent < Len(Script)
    /\ sent' = sent + 1
    /\ UNCHANGED <<taken, answers, pc, stopVars, loopVars, writeErrors>>

Go(from, to) == pc = from /\ pc' = to /\ UNCHANGED sent

\* The signal handlers are installed; run() begins and sets running_, whatever
\* stop() did in between.
Run ==
    /\ Go("main", "loop")
    /\ running' = TRUE
    /\ UNCHANGED <<taken, answers, stopAt, loopVars, writeErrors>>

\* while (running_)
Loop ==
    /\ Go("loop", IF running THEN "enter" ELSE "exit")
    /\ UNCHANGED <<taken, answers, stopVars, loopVars, writeErrors>>

\* The system call: from here a signal wakes it.
EnterRead ==
    /\ Go("enter", "read")
    /\ UNCHANGED <<taken, answers, stopVars, loopVars, writeErrors>>

\* read() returns 0: no error, no success, no pause.
ReadNothing ==
    /\ taken < sent /\ Script[taken + 1].size = "empty"
    /\ Go("read", "loop")
    /\ taken' = taken + 1
    /\ UNCHANGED <<answers, stopVars, loopVars, writeErrors>>

ReadPacket ==
    /\ taken < sent /\ Script[taken + 1].size # "empty"
    /\ Go("read", "dispatch")
    /\ taken' = taken + 1
    /\ consecutiveErrors' = 0 /\ errorRetryCounter' = 0 /\ spins' = 0
    /\ UNCHANGED <<answers, stopVars, delay, errors, writeErrors>>

\* Any errno but EINTR.
ReadError ==
    /\ errors < MaxErrors
    /\ Go("read", IF consecutiveErrors + 1 >= maxConsecutiveErrors
                  THEN "backoff" ELSE "loop")
    /\ errors' = errors + 1 /\ spins' = spins + 1
    /\ consecutiveErrors' = consecutiveErrors + 1
    /\ UNCHANGED <<taken, answers, stopVars, errorRetryCounter, delay,
                   writeErrors>>

\* Mutant of PowerOfTwo: the conversion gives INT_MIN, as on x86.
PowerOfTwoWraps(n) == IF n >= 31 THEN -2147483647 - 1 ELSE 2^n

\* static_cast<int>(std::pow(2, n)): from 2^31 on the value does not fit; the
\* conversion instruction of the ARM build saturates.
PowerOfTwo(n) == IF n >= 31 THEN 2147483647 ELSE 2^n

\* Mutant of Backoff: no errorBackoffMaxDelay.
BackoffUncapped ==
    /\ Go("backoff", "loop")
    /\ delay' = PowerOfTwo(errorRetryCounter) /\ spins' = 0
    /\ errorRetryCounter' = errorRetryCounter + 1
    /\ UNCHANGED <<taken, answers, stopVars, consecutiveErrors, errors,
                   writeErrors>>

\* sleep_for goes on sleeping when a signal interrupts it.
Backoff ==
    /\ Go("backoff", "loop")
    /\ delay' = IF PowerOfTwo(errorRetryCounter) < errorBackoffMaxDelay
                THEN PowerOfTwo(errorRetryCounter) ELSE errorBackoffMaxDelay
    /\ spins' = IF delay' > 0 THEN 0 ELSE spins
    /\ errorRetryCounter' = errorRetryCounter + 1
    /\ UNCHANGED <<taken, answers, stopVars, consecutiveErrors, errors,
                   writeErrors>>

\* Mutant of Dispatch: no test for the size of a header.
DispatchShort ==
    /\ Go("dispatch", IF packet.service \in Handlers THEN "write" ELSE "loop")
    /\ UNCHANGED <<taken, answers, stopVars, loopVars, writeErrors>>

\* A short packet, a service without handler, a handler without an answer.
Dispatch ==
    /\ Go("dispatch", IF Answerable(packet) THEN "write" ELSE "loop")
    /\ UNCHANGED <<taken, answers, stopVars, loopVars, writeErrors>>

Write ==
    /\ Go("write", "loop")
    /\ answers' = Append(answers, Response(taken))
    /\ UNCHANGED <<taken, stopVars, loopVars, writeErrors>>

\* The driver drops the response (-EIO); the daemon logs it and goes on.
WriteError ==
    /\ writeErrors < MaxWriteErrors
    /\ Go("write", "loop")
    /\ writeErrors' = writeErrors + 1
    /\ UNCHANGED <<taken, answers, stopVars, loopVars>>

\* Mutant of Stop: SA_RESTART in sa_flags, the read is entered again.
StopRestartsRead ==
    /\ stopAt = "never" /\ pc # "exit"
    /\ stopAt' = pc /\ running' = FALSE
    /\ Go(pc, pc)
    /\ UNCHANGED <<taken, answers, loopVars, writeErrors>>

\* SIGTERM or SIGINT: signalHandler calls stop(), and a sleeping read() fails
\* with EINTR, since sa_flags is 0.
Stop ==
    /\ stopAt = "never" /\ pc # "exit"
    /\ stopAt' = pc /\ running' = FALSE
    /\ Go(pc, IF pc = "read" THEN "loop" ELSE pc)
    /\ UNCHANGED <<taken, answers, loopVars, writeErrors>>

Daemon ==
    \/ Run \/ Loop \/ EnterRead \/ ReadNothing \/ ReadPacket \/ ReadError
    \/ Backoff \/ Dispatch \/ Write \/ WriteError

Next == HostSend \/ Daemon \/ Stop

Spec == Init /\ [][Next]_vars

\* The process runs whenever it can; the host need not send anything.
FairSpec ==
    Spec /\ WF_vars(Run \/ Loop \/ EnterRead \/ ReadNothing \/ ReadPacket
                    \/ Backoff \/ Dispatch \/ Write)

-----------------------------------------------------------------------------
(* Properties                                                               *)

TypeOK ==
    /\ sent \in 0..Len(Script) /\ taken \in 0..sent
    /\ answers \in Seq([sequence : Nat, command : Nat])
    /\ pc \in {"main", "loop", "enter", "read", "backoff", "dispatch",
               "write", "exit"}
    /\ running \in BOOLEAN
    /\ stopAt \in {"never", "main", "loop", "enter", "read", "backoff",
                   "dispatch", "write"}
    /\ errors \in 0..MaxErrors /\ writeErrors \in 0..MaxWriteErrors
    /\ consecutiveErrors \in 0..errors /\ spins \in 0..errors
    /\ errorRetryCounter \in 0..errors
    /\ delay \in 0..errorBackoffMaxDelay

\* Those of the first n packets that are due an answer.
Due(n) == {i \in 1..n : Answerable(Script[i])}

\* Between two packets the host has been answered what it asked and in that
\* order, each answer numbered like its request; only writes that failed are
\* missing.
AnsweredInOrder ==
    pc = "loop" =>
        /\ Len(answers) + writeErrors = Cardinality(Due(taken))
        /\ \A n \in DOMAIN answers :
              \E i \in Due(taken) : answers[n] = Response(i)
        /\ \A m, n \in DOMAIN answers :
              m < n => answers[m].sequence < answers[n].sequence

\* "Prevents CPU busy-loop on persistent hardware faults": no more than
\* maxConsecutiveErrors reads fail in a row without a pause, however long the
\* fault lasts and whatever signals and empty packets come in between.
NoBusyLoop == spins <= maxConsecutiveErrors

\* stop() makes run() return from a back-off, a handler or a sleeping read
\* alike, unless it comes before run() sets running_ or between the loop's test
\* and the system call.
StopsUnlessMissed ==
    stopAt \notin {"never", "main", "enter"} ~> pc = "exit"

\* "Run the main packet loop. Blocks until stop() is called.": stop() makes
\* run() return.
Stops == stopAt # "never" ~> pc = "exit"
=============================================================================

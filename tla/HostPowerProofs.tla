--------------------------- MODULE HostPowerProofs ---------------------------
(***************************************************************************)
(* For any debounce and any number of edges, PCIe resets and restarts of    *)
(* the BMC: a host that is off can be powered again, its shutdown was       *)
(* acknowledged, it never runs unprepared, and the regulator's consumers    *)
(* hear of a settled level only.                                            *)
(*                                                                           *)
(* The argument is about who still has to write: as long as the gate is not  *)
(* open, or the shutdown not acknowledged, either the PGOOD thread is in its *)
(* sequence, or an edge is on its way to it (Pending), or probe() or set()   *)
(* is in theirs.  The two sequences may interleave: the caller's writes only *)
(* open, and what the thread closes it opens again itself (Gate).            *)
(***************************************************************************)
EXTENDS HostPower, TLAPS

\* An edge of PGOOD is on its way to the thread.
Pending ==
    \/ "pgood" \in latched \/ "pgood" \in events
    \/ powerWoken \/ powerThread = "hold"

GateOpen == bootControl = "release" /\ socReleased

Gate ==
    /\ powerThread \in {"rearm", "open"} => socReleased
    /\ caller = "gate" /\ powerThread # "set" => socReleased
    /\ powerThread \in {"idle", "hold", "forward"} =>
          GateOpen \/ caller # "idle" \/ pgood \/ missed \/ Pending

Acked == unacked => pgood \/ missed \/ Pending \/ powerThread = "clear"

\* Before the flash is selected the gate is closed and nobody would open it but
\* probe(), whose first write selects the flash.
Prepared ==
    \/ flashSelect
    \/ /\ bootControl = "hold" /\ ~pgood
       /\ ~Pending /\ powerThread = "idle" /\ caller \in {"probe", "flash"}

\* The timer and the quiet time behind it.
Timed == timer # Off => timer + quiet = Debounce

\* The two parts of HostTypeOK: what is true or false, and the rest.
Flags ==
    /\ pgood \in BOOLEAN /\ socReleased \in BOOLEAN /\ flashSelect \in BOOLEAN
    /\ unacked \in BOOLEAN /\ missed \in BOOLEAN
    /\ powerWoken \in BOOLEAN /\ supplyWoken \in BOOLEAN

Values ==
    /\ bootControl \in {"hold", "release"}
    /\ latched \subseteq {"pgood", "perst"} /\ events \subseteq {"pgood", "perst"}
    /\ powerThread \in {"idle", "hold", "clear", "set", "rearm", "open", "forward"}
    /\ caller \in {"probe", "idle", "flash", "soc", "gate"}
    /\ told \in {"unknown", "enable", "disable"}
    /\ timer \in Off..Debounce /\ quiet \in Nat
    /\ work \in {"idle", "enable", "disable"}
    /\ event \in {"none", "enable", "disable"}
    /\ edges \in 0..MaxEdges /\ persts \in 0..MaxPerst
    /\ restarts \in 0..MaxRestarts

IInv == Flags /\ Values /\ Gate /\ Acked /\ Prepared /\ Timed

-----------------------------------------------------------------------------
(* The sequences of register writes, a step at a time                       *)

LEMMA AcknowledgeWrites ==
    ASSUME AcknowledgeStep
    PROVE  /\ \/ /\ powerThread = "hold" /\ powerThread' = "clear"
                 /\ bootControl' = "hold" /\ UNCHANGED <<socReleased, unacked>>
              \/ /\ powerThread = "clear" /\ powerThread' = "set"
                 /\ socReleased' = FALSE /\ unacked' = FALSE
                 /\ UNCHANGED bootControl
              \/ /\ powerThread = "set" /\ powerThread' = "rearm"
                 /\ socReleased' = TRUE /\ UNCHANGED <<bootControl, unacked>>
              \/ /\ powerThread = "rearm" /\ powerThread' = "open"
                 /\ socReleased' = TRUE /\ UNCHANGED <<bootControl, unacked>>
              \/ /\ powerThread = "open" /\ powerThread' = "forward"
                 /\ bootControl' = "release"
                 /\ UNCHANGED <<socReleased, unacked>>
           /\ UNCHANGED <<pgood, flashSelect, fn2Vars, caller, told, supplyVars,
                          wokenVars, bounds>>
<1>1. powerThread \in {"hold", "clear", "set", "rearm", "open"}
  BY DEF AcknowledgeStep, Acknowledging
<1>2. CASE powerThread = "hold"
  BY <1>2 DEF AcknowledgeStep, Acknowledging, Write
<1>3. CASE powerThread = "clear"
  BY <1>3 DEF AcknowledgeStep, Acknowledging, Write
<1>4. CASE powerThread = "set"
  BY <1>4 DEF AcknowledgeStep, Acknowledging, Write
<1>5. CASE powerThread = "rearm"
  BY <1>5 DEF AcknowledgeStep, Acknowledging, Write
<1>6. CASE powerThread = "open"
  BY <1>6 DEF AcknowledgeStep, Acknowledging, Write
<1> QED  BY <1>1, <1>2, <1>3, <1>4, <1>5, <1>6

LEMMA PrepareWrites ==
    ASSUME PrepareStep
    PROVE  /\ \/ /\ caller = "flash" /\ caller' = "soc" /\ flashSelect' = TRUE
                 /\ UNCHANGED <<bootControl, socReleased>>
              \/ /\ caller = "soc" /\ caller' = "gate" /\ socReleased' = TRUE
                 /\ UNCHANGED <<bootControl, flashSelect>>
              \/ /\ caller = "gate" /\ caller' = "idle"
                 /\ bootControl' = "release"
                 /\ UNCHANGED <<socReleased, flashSelect>>
           /\ UNCHANGED <<pgood, unacked, fn2Vars, powerThread, told, supplyVars,
                          wokenVars, bounds>>
<1>1. caller \in {"flash", "soc", "gate"}
  BY DEF PrepareStep, Preparing
<1>2. CASE caller = "flash"
  BY <1>2 DEF PrepareStep, Preparing, Write
<1>3. CASE caller = "soc"
  BY <1>3 DEF PrepareStep, Preparing, Write
<1>4. CASE caller = "gate"
  BY <1>4 DEF PrepareStep, Preparing, Write
<1> QED  BY <1>1, <1>2, <1>3, <1>4

-----------------------------------------------------------------------------
(* Each group of actions keeps the invariant                                *)

LEMMA InitInv == HostInit => IInv
<1> SUFFICES ASSUME HostInit PROVE IInv
  OBVIOUS
<1> USE HostPowerAssumption DEF HostInit
<1>1. Flags
  BY DEF Flags
<1>3. Values
  BY DEF Values, Off
<1>2. Gate /\ Acked /\ Prepared /\ Timed
  BY DEF Gate, Acked, Prepared, Pending, GateOpen, Timed
<1> QED  BY <1>1, <1>2, <1>3 DEF IInv

LEMMA EdgeInv ==
    ASSUME IInv, PowerUp \/ PowerDown
    PROVE  IInv'
<1> USE DEF IInv
<1>0. /\ edges' = edges + 1 /\ edges < MaxEdges
      /\ latched' = latched \cup {"pgood"} /\ pgood' \in BOOLEAN
      /\ unacked' \in BOOLEAN /\ unacked' = (unacked \/ pgood)
      /\ UNCHANGED <<bootControl, socReleased, flashSelect, events, missed,
                     powerVars, supplyVars, wokenVars, persts, restarts>>
  BY DEF PowerUp, PowerDown, Edge, Flags
<1>1. Flags' /\ Values'
  <2>1. Flags'
    BY <1>0, HostPowerAssumption DEF Flags, powerVars, supplyVars, wokenVars
  <2>2. Values'
    BY <1>0, HostPowerAssumption DEF Values, powerVars, supplyVars, wokenVars
  <2> QED  BY <2>1, <2>2
<1>2. Gate' /\ Acked' /\ Timed'
  BY <1>0 DEF Gate, Acked, Pending, GateOpen, Timed, powerVars, supplyVars,
              wokenVars
<1>3. flashSelect
  BY DEF Prepared, PowerUp, PowerDown
<1> QED  BY <1>0, <1>1, <1>2, <1>3 DEF Prepared

LEMMA InterruptInv ==
    ASSUME IInv, PcieReset \/ Interrupt
    PROVE  IInv'
<1> USE DEF IInv
<1>1. CASE PcieReset
  <2>0. /\ persts < MaxPerst /\ persts' = persts + 1
        /\ latched' = latched \cup {"perst"}
        /\ UNCHANGED <<cpldVars, events, missed, powerVars, supplyVars,
                       wokenVars, edges, restarts>>
    BY <1>1 DEF PcieReset
  <2>1. Flags' /\ Values'
    <3>1. Flags'
      BY <2>0, HostPowerAssumption
         DEF Flags, cpldVars, powerVars, supplyVars, wokenVars
    <3>2. Values'
      BY <2>0, HostPowerAssumption
         DEF Values, cpldVars, powerVars, supplyVars, wokenVars
    <3> QED  BY <3>1, <3>2
  <2>2. Gate' /\ Acked' /\ Prepared' /\ Timed'
    BY <2>0 DEF Gate, Acked, Prepared, Pending, GateOpen, Timed, cpldVars,
                powerVars, supplyVars, wokenVars
  <2> QED  BY <2>1, <2>2
<1>2. CASE IrqRead
  <2>1. Flags' /\ Values'
    <3>1. Flags'
      BY <1>2 DEF IrqRead, Flags, cpldVars, powerVars, supplyVars, wokenVars,
                  bounds
    <3>2. Values'
      BY <1>2 DEF IrqRead, Values, cpldVars, powerVars, supplyVars, wokenVars,
                  bounds
    <3> QED  BY <3>1, <3>2
  <2>2. Gate' /\ Acked' /\ Prepared' /\ Timed'
    BY <1>2 DEF IrqRead, Gate, Acked, Prepared, Pending, GateOpen, Timed,
                cpldVars, powerVars, supplyVars, wokenVars
  <2> QED  BY <2>1, <2>2
<1>3. CASE IrqPgood
  <2>1. Flags' /\ Values'
    <3>1. Flags'
      BY <1>3 DEF IrqPgood, Acknowledge, Flags, cpldVars, powerVars,
                  supplyVars, bounds
    <3>2. Values'
      BY <1>3 DEF IrqPgood, Acknowledge, Values, cpldVars, powerVars,
                  supplyVars, bounds
    <3> QED  BY <3>1, <3>2
  <2>2. Gate' /\ Acked' /\ Prepared' /\ Timed'
    BY <1>3 DEF IrqPgood, Acknowledge, Gate, Acked, Prepared, Pending, GateOpen,
                Timed, cpldVars, powerVars, supplyVars
  <2> QED  BY <2>1, <2>2
<1>4. CASE IrqPerst
  <2>0. missed' = (missed \/ "pgood" \in latched) /\ "pgood" \notin events
    BY <1>4 DEF IrqPerst
  <2>1. Flags' /\ Values'
    <3>1. Flags'
      BY <1>4, <2>0 DEF IrqPerst, Acknowledge, Flags, cpldVars, powerVars,
                  supplyVars, wokenVars, bounds
    <3>2. Values'
      BY <1>4, <2>0 DEF IrqPerst, Acknowledge, Values, cpldVars, powerVars,
                  supplyVars, wokenVars, bounds
    <3> QED  BY <3>1, <3>2
  <2>2. Gate' /\ Acked' /\ Prepared' /\ Timed'
    BY <1>4, <2>0 DEF IrqPerst, Acknowledge, Gate, Acked, Prepared, Pending,
                GateOpen, Timed, cpldVars, powerVars, supplyVars, wokenVars
  <2> QED  BY <2>1, <2>2
<1> QED  BY <1>1, <1>2, <1>3, <1>4 DEF Interrupt

LEMMA ThreadInv ==
    ASSUME IInv, PowerThread
    PROVE  IInv'
<1> USE DEF IInv
<1>1. CASE PgoodIrq
  <2>1. Flags' /\ Values'
    <3>1. Flags'
      BY <1>1 DEF PgoodIrq, Flags, cpldVars, fn2Vars, supplyVars, bounds
    <3>2. Values'
      BY <1>1 DEF PgoodIrq, Values, cpldVars, fn2Vars, supplyVars, bounds
    <3> QED  BY <3>1, <3>2
  <2>2. Gate' /\ Acked' /\ Timed'
    BY <1>1 DEF PgoodIrq, Gate, Acked, Pending, GateOpen, Timed, Values,
                cpldVars, fn2Vars, supplyVars
  <2>3. flashSelect' 
    BY <1>1 DEF PgoodIrq, Prepared, Pending, cpldVars
  <2> QED  BY <2>1, <2>2, <2>3 DEF Prepared
<1>2. CASE AcknowledgeStep
  <2> USE AcknowledgeWrites
  <2>1. Flags' /\ Values'
    <3>1. Flags'
      BY <1>2 DEF Flags, fn2Vars, supplyVars, wokenVars, bounds
    <3>2. Values'
      BY <1>2 DEF Values, fn2Vars, supplyVars, wokenVars, bounds
    <3> QED  BY <3>1, <3>2
  <2>2. Gate' /\ Timed'
    BY <1>2 DEF Gate, Pending, GateOpen, Timed, fn2Vars, supplyVars, wokenVars
  <2>3. Acked'
    BY <1>2 DEF Acked, Pending, fn2Vars, wokenVars
  <2>4. flashSelect
    BY <1>2 DEF Prepared
  <2> QED  BY <1>2, <2>1, <2>2, <2>3, <2>4 DEF Prepared
<1>3. CASE Forward
  <2>1. Flags' /\ Values'
    <3>1. Flags'
      BY <1>3 DEF Forward, Level, Flags, cpldVars, fn2Vars, supplyVars,
                  wokenVars, bounds
    <3>2. Values'
      BY <1>3 DEF Forward, Level, Values, cpldVars, fn2Vars, supplyVars,
                  wokenVars, bounds
    <3> QED  BY <3>1, <3>2
  <2>2. Gate' /\ Acked' /\ Prepared' /\ Timed'
    BY <1>3 DEF Forward, Gate, Acked, Prepared, Pending, GateOpen, Timed,
                cpldVars, fn2Vars, supplyVars, wokenVars
  <2> QED  BY <2>1, <2>2
<1> QED  BY <1>1, <1>2, <1>3 DEF PowerThread

LEMMA CallerInv ==
    ASSUME IInv, Caller \/ Watch \/ PowerButton
    PROVE  IInv'
<1> USE DEF IInv
<1>1. CASE InitPlatform
  <2>1. Flags' /\ Values'
    <3>1. Flags'
      BY <1>1 DEF InitPlatform, Flags, cpldVars, fn2Vars, supplyVars,
                  wokenVars, bounds
    <3>2. Values'
      BY <1>1 DEF InitPlatform, Values, cpldVars, fn2Vars, supplyVars,
                  wokenVars, bounds
    <3> QED  BY <3>1, <3>2
  <2>2. Gate' /\ Acked' /\ Prepared' /\ Timed'
    BY <1>1 DEF InitPlatform, Gate, Acked, Prepared, Pending, GateOpen, Timed,
                cpldVars, fn2Vars, supplyVars, wokenVars
  <2> QED  BY <2>1, <2>2
<1>2. CASE PrepareStep
  <2> USE PrepareWrites
  <2>1. Flags' /\ Values'
    <3>1. Flags'
      BY <1>2 DEF Flags, fn2Vars, supplyVars, wokenVars, bounds
    <3>2. Values'
      BY <1>2 DEF Values, fn2Vars, supplyVars, wokenVars, bounds
    <3> QED  BY <3>1, <3>2
  <2>2. Gate'
    BY <1>2 DEF Gate, Pending, GateOpen, fn2Vars, wokenVars
  <2>3. Acked' /\ Timed'
    BY <1>2 DEF Acked, Pending, Timed, fn2Vars, supplyVars, wokenVars
  <2>4. flashSelect'
    BY <1>2 DEF Prepared
  <2> QED  BY <2>1, <2>2, <2>3, <2>4 DEF Prepared
<1>3. CASE Watch \/ PowerButton
  <2>1. Flags' /\ Values'
    <3>1. Flags'
      BY <1>3 DEF Watch, PowerButton, Level, Flags, cpldVars, fn2Vars,
                  supplyVars, wokenVars, bounds
    <3>2. Values'
      BY <1>3 DEF Watch, PowerButton, Level, Values, cpldVars, fn2Vars,
                  supplyVars, wokenVars, bounds
    <3> QED  BY <3>1, <3>2
  <2>2. Gate' /\ Acked' /\ Prepared' /\ Timed'
    BY <1>3 DEF Watch, PowerButton, Gate, Acked, Prepared, Pending, GateOpen,
                Timed, cpldVars, fn2Vars, supplyVars, wokenVars
  <2> QED  BY <2>1, <2>2
<1> QED  BY <1>1, <1>2, <1>3 DEF Caller

LEMMA SupplyInv ==
    ASSUME IInv, Supply
    PROVE  IInv'
<1> USE DEF IInv
<1>0. UNCHANGED <<cpldVars, fn2Vars, powerVars, powerWoken, bounds>>
  BY DEF Supply, SupplyIrq, Tick, WorkReads, Notify, wokenVars
<1>1. Gate' /\ Acked' /\ Prepared'
  BY <1>0 DEF Gate, Acked, Prepared, Pending, GateOpen, cpldVars, fn2Vars,
              powerVars
<1>2. /\ timer' \in Off..Debounce /\ quiet' \in Nat /\ supplyWoken' \in BOOLEAN
      /\ work' \in {"idle", "enable", "disable"}
      /\ event' \in {"none", "enable", "disable"}
  <2> USE HostPowerAssumption DEF Flags, Values, Level, Off, wokenVars
  <2>1. CASE SupplyIrq
    <3>1. supplyWoken' = FALSE /\ timer' = Debounce /\ quiet' = 0
      BY <2>1 DEF SupplyIrq
    <3>2. UNCHANGED <<work, event>>
      BY <2>1 DEF SupplyIrq
    <3>3. timer' \in Off..Debounce /\ quiet' \in Nat
      BY <3>1
    <3> QED  BY <3>1, <3>2, <3>3
  <2>2. CASE Tick
    BY <2>2 DEF Tick
  <2>3. CASE WorkReads
    BY <2>3 DEF WorkReads
  <2>4. CASE Notify
    BY <2>4 DEF Notify
  <2> QED  BY <2>1, <2>2, <2>3, <2>4 DEF Supply
<1>3. Flags' /\ Values'
  <2>1. Flags'
    BY <1>0, <1>2 DEF Flags, cpldVars, fn2Vars, powerVars, bounds
  <2>2. Values'
    BY <1>0, <1>2 DEF Values, cpldVars, fn2Vars, powerVars, bounds
  <2> QED  BY <2>1, <2>2
<1>4. Timed'
  BY HostPowerAssumption
     DEF Timed, Supply, SupplyIrq, Tick, WorkReads, Notify, Off, Values
<1> QED  BY <1>1, <1>3, <1>4

LEMMA RestartInv ==
    ASSUME IInv, Restart
    PROVE  IInv'
<1> USE DEF IInv, Restart
<1>1. Flags' /\ Values'
  <2>1. Flags'
    BY HostPowerAssumption DEF Flags, Off
  <2>2. Values'
    BY HostPowerAssumption DEF Values, Off
  <2> QED  BY <2>1, <2>2
<1>2. Gate' /\ Acked' /\ Timed'
  BY DEF Gate, Acked, Timed
<1>3. Prepared'
  BY DEF Prepared, Pending
<1> QED  BY <1>1, <1>2, <1>3

LEMMA StutterInv ==
    ASSUME IInv, UNCHANGED hostVars
    PROVE  IInv'
<1> USE DEF IInv, hostVars, cpldVars, fn2Vars, powerVars, supplyVars, wokenVars,
            bounds
<1>1. Flags' /\ Values'
  <2>1. Flags'
    BY DEF Flags
  <2>2. Values'
    BY DEF Values
  <2> QED  BY <2>1, <2>2
<1>2. Gate' /\ Acked' /\ Prepared' /\ Timed'
  BY DEF Gate, Acked, Prepared, Pending, GateOpen, Timed
<1> QED  BY <1>1, <1>2

LEMMA Invariance == HostSpec => []IInv
<1>1. IInv /\ [HostNext]_hostVars => IInv'
  BY EdgeInv, InterruptInv, ThreadInv, CallerInv, SupplyInv, RestartInv,
     StutterInv DEF HostNext
<1> QED  BY <1>1, InitInv, PTL DEF HostSpec

-----------------------------------------------------------------------------
(* The theorems                                                             *)

\* The registers, latches, threads and timers stay within their values; the
\* timer never exceeds the debounce.
THEOREM TypeCorrect == HostSpec => []HostTypeOK
<1>1. IInv => HostTypeOK
  BY DEF IInv, Flags, Values, HostTypeOK
<1> QED  BY <1>1, Invariance, PTL

\* However the thread, the button, probe() and restarts interleave, a host that
\* is off can be powered again once all is done, unless an edge was missed.
THEOREM HostComesBack == HostSpec => []CanPowerUp
<1>1. IInv => CanPowerUp
  BY DEF IInv, CanPowerUp, PowerQuiet, Gate, GateOpen, Pending
<1> QED  BY <1>1, Invariance, PTL

\* A shutdown is acknowledged by a cycle of soc_release once all is done, unless
\* its edge was missed.
THEOREM ShutdownAcknowledged == HostSpec => []OffAcknowledged
<1>1. IInv => OffAcknowledged
  BY DEF IInv, OffAcknowledged, PowerQuiet, Acked, Pending
<1> QED  BY <1>1, Invariance, PTL

\* The host never runs before the flash with its variables was selected.
THEOREM NeverUnprepared == HostSpec => []BootsPrepared
<1>1. IInv => BootsPrepared
  BY DEF IInv, BootsPrepared, Prepared
<1> QED  BY <1>1, Invariance, PTL

\* The regulator's work reads the level only after the interrupt was quiet for
\* the whole time of the debounce.
THEOREM DebouncedAlways == HostSpec => Debounced
<1>1. IInv => [WorkReads => quiet >= Debounce]_hostVars
  BY HostPowerAssumption DEF IInv, Timed, Values, WorkReads, Off
<1> QED  BY <1>1, Invariance, PTL DEF Debounced
=============================================================================

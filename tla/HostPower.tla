----------------------------- MODULE HostPower -----------------------------
(***************************************************************************)
(* The power of the host as the BMC's kernel sees it: the CPLD with its     *)
(* power good signal and its gates, the FN2 block that latches the edges of *)
(* the signal, the two threads that share FN2's interrupt (the power        *)
(* controller's and the host power regulator's), and the GPIO lines that    *)
(* the power daemon drives (gxp-fn2, gxp-power-ctrl, gxp-cpld-regulator).   *)
(* No lock orders the threads and the daemon: each register access and each *)
(* reading of the live signal is a step of its own.  The CPLD is external,  *)
(* as the comments of the drivers have it.                                  *)
(***************************************************************************)
EXTENDS Integers

CONSTANTS
    Debounce,       \* GXP_CPLD_PGOOD_DEBOUNCE_MS, in ticks
    MaxEdges,       \* bound: edges of PGOOD after a start of the BMC
    MaxPerst,       \* bound: PCIe reset events after a start
    MaxRestarts     \* bound: restarts of the BMC

ASSUME HostPowerAssumption ==
    /\ Debounce \in Nat \ {0}
    /\ MaxEdges \in Nat /\ MaxPerst \in Nat /\ MaxRestarts \in Nat

VARIABLES
    \* The CPLD's registers, and bit 3 of soc_release.
    pgood, bootControl, socReleased, flashSelect,
    unacked,        \* PGOOD fell and soc_release was not cycled since
    \* FN2: the latched events, and those the interrupt handler has yet to do.
    latched, events,
    missed,         \* an edge of PGOOD was cleared before it was read
    \* gxp-power-ctrl: its interrupt thread, woken or not; a call of set(), or
    \* probe(); what the daemon was told last.
    powerWoken, powerThread, caller, told,
    \* gxp-cpld-regulator: its thread, the timer of its work, the level that the
    \* running work has read, and the last event its consumers got.
    supplyWoken, timer, work, event,
    quiet,          \* ticks since the regulator's thread last ran
    edges, persts, restarts

cpldVars == <<pgood, bootControl, socReleased, flashSelect, unacked>>
fn2Vars == <<latched, events, missed>>
powerVars == <<powerThread, caller, told>>
supplyVars == <<timer, work, event, quiet>>
wokenVars == <<powerWoken, supplyWoken>>
bounds == <<edges, persts, restarts>>
hostVars == <<cpldVars, fn2Vars, powerVars, supplyVars, wokenVars, bounds>>

Off == -1           \* the timer does not run
Level(on) == IF on THEN "enable" ELSE "disable"

\* The BMC starts beside a host that is off, its gate in any state, or on.
HostInit ==
    /\ pgood \in BOOLEAN /\ bootControl \in {"hold", "release"}
    /\ socReleased \in BOOLEAN
    /\ flashSelect = (pgood \/ bootControl = "release")
    /\ pgood => bootControl = "release" /\ socReleased
    /\ unacked = FALSE
    /\ latched = {} /\ events = {} /\ missed = FALSE
    /\ powerWoken = FALSE /\ powerThread = "idle"
    /\ caller = "probe" /\ told = "unknown"
    /\ supplyWoken = FALSE /\ timer = Off /\ work = "idle" /\ event = "none"
    /\ quiet = 0 /\ edges = 0 /\ persts = 0 /\ restarts = 0

-----------------------------------------------------------------------------
(* The hardware                                                             *)

Edge(level) ==
    /\ edges < MaxEdges /\ edges' = edges + 1
    /\ pgood' = level
    /\ latched' = latched \cup {"pgood"}
    /\ UNCHANGED <<bootControl, socReleased, flashSelect, events,
                   missed, powerVars, supplyVars, wokenVars, persts, restarts>>

\* The gate open, the CPLD powers the host, by the button or in the power cycle
\* that the firmware asked for; it may bounce.
PowerUp ==
    /\ ~pgood /\ bootControl = "release" /\ socReleased
    /\ Edge(TRUE) /\ UNCHANGED unacked

PowerDown == pgood /\ Edge(FALSE) /\ unacked' = TRUE

PcieReset ==
    /\ persts < MaxPerst /\ persts' = persts + 1
    /\ latched' = latched \cup {"perst"}
    /\ UNCHANGED <<cpldVars, events, missed, powerVars, supplyVars, wokenVars,
                   edges, restarts>>

-----------------------------------------------------------------------------
(* gxp-fn2                                                                  *)

\* gxp_fn2_irq_handle reads the latches once.
IrqRead ==
    /\ events = {} /\ latched # {}
    /\ events' = latched
    /\ UNCHANGED <<cpldVars, latched, missed, powerVars, supplyVars, wokenVars,
                   bounds>>

\* irq_ack, before handle_edge_irq wakes the threads: it clears every latch.
Acknowledge == latched' = {}

\* Mutant of IrqPgood: the second event is tested against a second reading.
IrqPgoodRereads ==
    /\ "pgood" \in events
    /\ Acknowledge
    /\ powerWoken' = ("perst" \notin events)
    /\ supplyWoken' = ("perst" \notin events)
    /\ missed' = FALSE
    /\ events' = events \ {"pgood"}
    /\ UNCHANGED <<cpldVars, powerVars, supplyVars, bounds>>

IrqPgood ==
    /\ "pgood" \in events
    /\ Acknowledge
    /\ powerWoken' = TRUE /\ supplyWoken' = TRUE
    /\ missed' = FALSE
    /\ events' = events \ {"pgood"}
    /\ UNCHANGED <<cpldVars, powerVars, supplyVars, bounds>>

\* The acknowledgement of PERST, whose line nobody uses, clears PGOOD's latch too.
IrqPerst ==
    /\ events = {"perst"}
    /\ Acknowledge
    /\ missed' = (missed \/ "pgood" \in latched)
    /\ events' = {}
    /\ UNCHANGED <<cpldVars, powerVars, supplyVars, wokenVars, bounds>>

-----------------------------------------------------------------------------
(* gxp-power-ctrl                                                           *)

Write(register) ==
    CASE register = "bootHold"    -> /\ bootControl' = "hold"
                                     /\ UNCHANGED <<socReleased, flashSelect, unacked>>
      [] register = "bootRelease" -> /\ bootControl' = "release"
                                     /\ UNCHANGED <<socReleased, flashSelect, unacked>>
      [] register = "socClear"    -> /\ socReleased' = FALSE /\ unacked' = FALSE
                                     /\ UNCHANGED <<bootControl, flashSelect>>
      [] register = "socRelease"  -> /\ socReleased' = TRUE
                                     /\ UNCHANGED <<bootControl, flashSelect, unacked>>
      [] register = "flashSelect" -> /\ flashSelect' = TRUE
                                     /\ UNCHANGED <<bootControl, socReleased, unacked>>

\* The register writes of the thread and of the caller, each with what follows.
\* Mutant of Acknowledging: the gate is not armed again.
AcknowledgingUnarmed ==
    [hold  |-> [write |-> "bootHold",    then |-> "clear"],
     clear |-> [write |-> "socClear",    then |-> "set"],
     set   |-> [write |-> "socRelease",  then |-> "forward"]]

\* gxp_power_ctrl_shutdown_ack, then gxp_power_ctrl_rearm_boot_gate.
Acknowledging ==
    [hold  |-> [write |-> "bootHold",    then |-> "clear"],
     clear |-> [write |-> "socClear",    then |-> "set"],
     set   |-> [write |-> "socRelease",  then |-> "rearm"],
     rearm |-> [write |-> "socRelease",  then |-> "open"],
     open  |-> [write |-> "bootRelease", then |-> "forward"]]

\* Mutant of Preparing: the gate opens first.
PreparingGateFirst ==
    [flash |-> [write |-> "bootRelease", then |-> "soc"],
     soc   |-> [write |-> "socRelease",  then |-> "gate"],
     gate  |-> [write |-> "flashSelect", then |-> "idle"]]

\* gxp_power_ctrl_prepare_boot.
Preparing ==
    [flash |-> [write |-> "flashSelect", then |-> "soc"],
     soc   |-> [write |-> "socRelease",  then |-> "gate"],
     gate  |-> [write |-> "bootRelease", then |-> "idle"]]

\* gxp_power_ctrl_pgood_irq.
PgoodIrq ==
    /\ powerWoken /\ powerThread = "idle"
    /\ powerWoken' = FALSE
    /\ powerThread' = IF pgood THEN "forward" ELSE "hold"
    /\ UNCHANGED <<cpldVars, fn2Vars, caller, told, supplyVars, supplyWoken,
                   bounds>>

AcknowledgeStep ==
    /\ powerThread \in DOMAIN Acknowledging
    /\ Write(Acknowledging[powerThread].write)
    /\ powerThread' = Acknowledging[powerThread].then
    /\ UNCHANGED <<pgood, fn2Vars, caller, told, supplyVars, wokenVars,
                   bounds>>

\* handle_nested_irq: gpiolib reads the line anew for the event of the daemon,
\* once that has asked for events.
Forward ==
    /\ powerThread = "forward" /\ powerThread' = "idle"
    /\ told' = IF told = "unknown" THEN told ELSE Level(pgood)
    /\ UNCHANGED <<cpldVars, fn2Vars, caller, supplyVars, wokenVars, bounds>>

\* The daemon starts: it asks for events and reads the line.
Watch ==
    /\ caller = "idle" /\ told = "unknown"
    /\ told' = Level(pgood)
    /\ UNCHANGED <<cpldVars, fn2Vars, powerThread, caller, supplyVars, wokenVars,
                   bounds>>

\* probe() ends with gxp_power_ctrl_init_platform; set() of the power button,
\* pressed. A host that is on is left alone.
InitPlatform ==
    /\ caller = "probe"
    /\ caller' = IF pgood THEN "idle" ELSE "flash"
    /\ UNCHANGED <<cpldVars, fn2Vars, powerThread, told, supplyVars, wokenVars,
                   bounds>>

PowerButton ==
    /\ caller = "idle" /\ told # "unknown" /\ ~pgood
    /\ caller' = "flash"
    /\ UNCHANGED <<cpldVars, fn2Vars, powerThread, told, supplyVars, wokenVars,
                   bounds>>

PrepareStep ==
    /\ caller \in DOMAIN Preparing
    /\ Write(Preparing[caller].write)
    /\ caller' = Preparing[caller].then
    /\ UNCHANGED <<pgood, fn2Vars, powerThread, told, supplyVars,
                   wokenVars, bounds>>

-----------------------------------------------------------------------------
(* gxp-cpld-regulator                                                       *)

\* Mutant of SupplyIrq: schedule_delayed_work, which leaves a running timer.
SupplyIrqScheduled ==
    /\ supplyWoken /\ supplyWoken' = FALSE
    /\ timer' = IF timer = Off THEN Debounce ELSE timer
    /\ quiet' = 0
    /\ UNCHANGED <<cpldVars, fn2Vars, powerVars, powerWoken, work, event, bounds>>

\* Mutant of SupplyIrq: an edge that comes while the work runs is dropped.
SupplyIrqBusy ==
    /\ supplyWoken /\ supplyWoken' = FALSE
    /\ timer' = IF work = "idle" THEN Debounce ELSE timer
    /\ quiet' = 0
    /\ UNCHANGED <<cpldVars, fn2Vars, powerVars, powerWoken, work, event, bounds>>

\* Mutant of SupplyIrq: an edge lengthens the wait instead of starting it anew.
SupplyIrqLengthens ==
    /\ supplyWoken /\ supplyWoken' = FALSE
    /\ timer' = IF timer = Off THEN Debounce ELSE timer + Debounce
    /\ quiet' = 0
    /\ UNCHANGED <<cpldVars, fn2Vars, powerVars, powerWoken, work, event, bounds>>

\* gxp_cpld_reg_pgood_irq: the timer starts anew.
SupplyIrq ==
    /\ supplyWoken /\ supplyWoken' = FALSE
    /\ timer' = Debounce /\ quiet' = 0
    /\ UNCHANGED <<cpldVars, fn2Vars, powerVars, powerWoken, work, event, bounds>>

Tick ==
    /\ timer > 0 /\ timer' = timer - 1
    /\ quiet' = quiet + 1
    /\ UNCHANGED <<cpldVars, fn2Vars, powerVars, wokenVars, work, event, bounds>>

\* gxp_cpld_reg_pgood_work_fn starts, never beside itself, and reads the level.
WorkReads ==
    /\ timer = 0 /\ work = "idle"
    /\ timer' = Off /\ work' = Level(pgood)
    /\ UNCHANGED <<cpldVars, fn2Vars, powerVars, wokenVars, event, quiet, bounds>>

Notify ==
    /\ work # "idle" /\ event' = work /\ work' = "idle"
    /\ UNCHANGED <<cpldVars, fn2Vars, powerVars, wokenVars, timer, quiet, bounds>>

-----------------------------------------------------------------------------
(* The BMC restarts: the CPLD keeps its registers, the host its power.      *)

Restart ==
    /\ restarts < MaxRestarts /\ restarts' = restarts + 1
    /\ edges' = 0 /\ persts' = 0
    /\ unacked' = FALSE
    /\ latched' = {} /\ events' = {} /\ missed' = FALSE
    /\ powerWoken' = FALSE /\ powerThread' = "idle"
    /\ caller' = "probe" /\ told' = "unknown"
    /\ supplyWoken' = FALSE /\ timer' = Off /\ work' = "idle" /\ event' = "none"
    /\ quiet' = 0
    /\ UNCHANGED <<pgood, bootControl, socReleased, flashSelect>>

Interrupt == IrqRead \/ IrqPgood \/ IrqPerst
PowerThread == PgoodIrq \/ AcknowledgeStep \/ Forward
Caller == InitPlatform \/ PrepareStep
Supply == SupplyIrq \/ Tick \/ WorkReads \/ Notify

HostNext ==
    \/ PowerUp \/ PowerDown \/ PcieReset
    \/ Interrupt \/ PowerThread \/ Caller \/ Supply
    \/ Watch \/ PowerButton \/ Restart

\* The kernel runs its threads, work and timers; the host may do nothing.
HostFairness ==
    /\ WF_hostVars(Interrupt) /\ WF_hostVars(PowerThread)
    /\ WF_hostVars(Caller) /\ WF_hostVars(Supply)

HostSpec == HostInit /\ [][HostNext]_hostVars /\ HostFairness

-----------------------------------------------------------------------------
(* Properties                                                               *)

HostTypeOK ==
    /\ pgood \in BOOLEAN /\ bootControl \in {"hold", "release"}
    /\ socReleased \in BOOLEAN /\ flashSelect \in BOOLEAN
    /\ unacked \in BOOLEAN /\ missed \in BOOLEAN
    /\ latched \subseteq {"pgood", "perst"} /\ events \subseteq {"pgood", "perst"}
    /\ powerWoken \in BOOLEAN /\ supplyWoken \in BOOLEAN
    /\ powerThread \in {"idle", "hold", "clear", "set", "rearm", "open", "forward"}
    /\ caller \in {"probe", "idle", "flash", "soc", "gate"}
    /\ told \in {"unknown", "enable", "disable"}
    /\ timer \in Off..Debounce /\ quiet \in Nat
    /\ work \in {"idle", "enable", "disable"}
    /\ event \in {"none", "enable", "disable"}
    /\ edges \in 0..MaxEdges /\ persts \in 0..MaxPerst
    /\ restarts \in 0..MaxRestarts

\* Nothing is left to do for the power controller.
PowerQuiet ==
    /\ latched = {} /\ events = {} /\ ~powerWoken
    /\ powerThread = "idle" /\ caller = "idle"

\* A host that is off can be powered again, unless an edge was missed: whoever
\* wrote the CPLD's registers between whose steps, and wherever a restart cut a
\* sequence short, the gate is open and the SoC released once all is done.
CanPowerUp ==
    PowerQuiet /\ ~pgood /\ ~missed => bootControl = "release" /\ socReleased

\* A host that went off had soc_release cycled, without which the CPLD would not
\* power it again, unless the edge was missed.
OffAcknowledged == PowerQuiet /\ ~pgood /\ ~missed => ~unacked

\* The host never runs with the flash not selected that holds its variables.
BootsPrepared == pgood => flashSelect

\* The regulator's consumers hear of a level only after PGOOD's interrupt was
\* quiet for the whole time of the debounce.
Debounced == [][WorkReads => quiet >= Debounce]_hostVars

\* What the daemon, and the regulator's consumers, were told last is true once
\* the signal has settled, unless an edge was missed.
TruthTold ==
    /\ []<>(told \in {"unknown", Level(pgood)} \/ missed)
    /\ []<>(event = Level(pgood) \/ edges = 0 \/ missed)
=============================================================================

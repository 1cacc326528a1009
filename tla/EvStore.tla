------------------------------- MODULE EvStore -------------------------------
(***************************************************************************)
(* What EvStorage promises, without files: a map from variable names to     *)
(* values, changed one operation at a time, and what a restart would        *)
(* recover of it.  An operation is acknowledged only when that is the whole *)
(* map.  While it is under way, or after it was refused, a restart may      *)
(* recover less than the map, but never an entry that is not in it.         *)
(***************************************************************************)
CONSTANTS Names, Values, NoValue

VARIABLES
    kv,         \* the map the operations see
    durable,    \* the map a restart of the daemon would recover
    flashed,    \* the map a restart after a power loss would recover
    phase       \* "down", "idle", "busy", "acked" or "refused"

vars == <<kv, durable, flashed, phase>>

Map == [Names -> Values \cup {NoValue}]
Nothing == [n \in Names |-> NoValue]

\* m holds some of the entries of w and no other.
SubMap(m, w) == \A n \in Names : m[n] \in {w[n], NoValue}

Init ==
    /\ kv = Nothing /\ durable = Nothing /\ flashed = Nothing
    /\ phase = "down"

Recover ==
    /\ phase = "down"
    /\ kv' = durable
    /\ phase' = "idle"
    /\ UNCHANGED <<durable, flashed>>

\* What is recoverable cannot be read.
RecoverNothing ==
    /\ phase = "down"
    /\ kv' = Nothing
    /\ phase' = "idle"
    /\ UNCHANGED <<durable, flashed>>

Assign ==
    /\ phase = "idle"
    /\ \E n \in Names, v \in Values \cup {NoValue} : kv' = [kv EXCEPT ![n] = v]
    /\ phase' = "busy"
    /\ UNCHANGED <<durable, flashed>>

Clear ==
    /\ phase = "idle"
    /\ kv' = Nothing
    /\ phase' = "busy"
    /\ UNCHANGED <<durable, flashed>>

Persist ==
    /\ phase = "busy"
    /\ durable' \in Map /\ SubMap(durable', kv)
    /\ UNCHANGED <<kv, flashed, phase>>

Ack ==
    /\ phase = "busy" /\ durable = kv
    /\ phase' = "acked"
    /\ UNCHANGED <<kv, durable, flashed>>

Refuse ==
    /\ phase \in {"idle", "busy"}
    /\ phase' = "refused"
    /\ UNCHANGED <<kv, durable, flashed>>

Return ==
    /\ phase \in {"acked", "refused"}
    /\ phase' = "idle"
    /\ UNCHANGED <<kv, durable, flashed>>

Writeback ==
    /\ flashed' = durable
    /\ UNCHANGED <<kv, durable, phase>>

Crash ==
    /\ phase # "down"
    /\ phase' = "down" /\ kv' = Nothing
    /\ UNCHANGED <<durable, flashed>>

PowerLoss ==
    /\ phase' = "down" /\ kv' = Nothing
    /\ durable' = flashed
    /\ UNCHANGED flashed

Next ==
    \/ Recover \/ RecoverNothing \/ Assign \/ Clear \/ Persist \/ Ack \/ Refuse \/ Return
    \/ Writeback \/ Crash \/ PowerLoss

Spec == Init /\ [][Next]_vars
=============================================================================

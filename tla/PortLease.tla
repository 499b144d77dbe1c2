----------------------------- MODULE PortLease -----------------------------
(***************************************************************************)
(* What MeterManager promises about the port of each meter, without any    *)
(* thread, lock or worker object: the port passes from hand to hand only   *)
(* through being free; the background reader gets it only while the config *)
(* wants the meter read and the gateway has not been stopped; and whoever  *)
(* borrows it for a PIN operation gives it back.                           *)
(***************************************************************************)
CONSTANTS Meters

VARIABLES
    holder,     \* who has the port of each meter
    wanted,     \* meters the current config wants read
    down        \* the gateway has been told to stop

leaseVars == <<holder, wanted, down>>

Holders == {"nobody", "reader", "pin"}

LeaseInit ==
    /\ holder = [m \in Meters |-> "nobody"]
    /\ wanted \in SUBSET Meters
    /\ down = FALSE

\* The config is replaced; whoever holds a port keeps it for the moment.
Edit ==
    /\ ~down
    /\ wanted' \in SUBSET Meters
    /\ UNCHANGED <<holder, down>>

Shutdown ==
    /\ down' = TRUE
    /\ UNCHANGED <<holder, wanted>>

StartReading(m) ==
    /\ holder[m] = "nobody"
    /\ m \in wanted
    /\ ~down
    /\ holder' = [holder EXCEPT ![m] = "reader"]
    /\ UNCHANGED <<wanted, down>>

Lend(m) ==
    /\ holder[m] = "nobody"
    /\ holder' = [holder EXCEPT ![m] = "pin"]
    /\ UNCHANGED <<wanted, down>>

GiveBack(m) ==
    /\ holder[m] # "nobody"
    /\ holder' = [holder EXCEPT ![m] = "nobody"]
    /\ UNCHANGED <<wanted, down>>

LeaseNext ==
    \/ Edit \/ Shutdown
    \/ \E m \in Meters : StartReading(m) \/ Lend(m) \/ GiveBack(m)

LeaseSpec == LeaseInit /\ [][LeaseNext]_leaseVars
=============================================================================

--------------------------- MODULE DeviceRegistry ---------------------------
(***************************************************************************)
(* What the devices table promises to the three writers that share it      *)
(* (the API's handlers, gateway discovery and the routing-table sweep) and *)
(* to anyone who keeps an id: an address is registered at most once, an id *)
(* names one address for ever, and no id is handed out twice.              *)
(***************************************************************************)
EXTENDS Naturals

CONSTANTS
    Addresses,
    MaxId           \* the last id there is

VARIABLES
    registry,       \* set of [id, ip]
    last            \* ids up to this one have been used

registryVars == <<registry, last>>

Init == registry = {} /\ last = 0

Register(ip) ==
    /\ \A e \in registry : e.ip # ip
    /\ \E id \in (last + 1) .. MaxId :
           /\ registry' = registry \cup {[id |-> id, ip |-> ip]}
           /\ last' = id

Deregister(e) ==
    /\ registry' = registry \ {e}
    /\ UNCHANGED last

Next ==
    \/ \E ip \in Addresses : Register(ip)
    \/ \E e \in registry : Deregister(e)

Spec == Init /\ [][Next]_registryVars
=============================================================================

------------------------- MODULE ResourceIdentity -------------------------
(***************************************************************************)
(* Which allocations share a physical machine (resource_identity.go).      *)
(*                                                                         *)
(* An allocation is what a holder records when it takes a machine: the     *)
(* configured machine, its resource key, and the SSH entry point.  Names   *)
(* are opaque: trimming and lower-casing have been applied.                *)
(***************************************************************************)
EXTENDS Naturals

CONSTANTS
    Machines,      \* machine IDs of the configuration
    ResourceIDs,   \* declared physical resource IDs
    Hosts,         \* SSH host names, loopback names included
    LoopbackHosts, \* the hosts that only forward to a node
    Localhost,     \* the name every loopback host is normalised to
    None           \* the empty string

ASSUME HostAssumption == LoopbackHosts \subseteq Hosts /\ Localhost \in LoopbackHosts

ResourceKey == ({"physical"} \X ResourceIDs) \cup ({"host"} \X Hosts)

Allocation ==
    [machineID: Machines, resourceKey: ResourceKey, host: Hosts, port: Nat]

\* A machine of the configuration, as far as occupancy depends on it.
Entry == [resourceID: ResourceIDs \cup {None}, host: Hosts, port: Nat, enabled: BOOLEAN]

machineResource(e) ==
    IF e.resourceID # None THEN <<"physical", e.resourceID>> ELSE <<"host", e.host>>

machineAllocation(m, e) ==
    [machineID |-> m, resourceKey |-> machineResource(e), host |-> e.host, port |-> e.port]

resourceHost(h) == IF h \in LoopbackHosts THEN Localhost ELSE h

physicalResource(key) == key[1] = "physical"

ValidPort(p) == p \in 1..65535

\* Two loopback entries are told apart by distinct valid ports, and only when
\* both name their physical node.
DistinctForwards(a, b) ==
    /\ a.host \in LoopbackHosts
    /\ a.port # b.port
    /\ ValidPort(a.port) /\ ValidPort(b.port)
    /\ physicalResource(a.resourceKey) /\ physicalResource(b.resourceKey)

resourcesConflict(a, b) ==
    \/ a.machineID = b.machineID
    \/ a.resourceKey = b.resourceKey
    \/ resourceHost(a.host) = resourceHost(b.host) /\ ~DistinctForwards(a, b)

\* A form of conflictsWithAny that trusts the machine ID alone.
conflictsWithAnyByMachine(a, held) == \E b \in held : a.machineID = b.machineID

conflictsWithAny(a, held) == \E b \in held : resourcesConflict(a, b)
===========================================================================

---------------------------- MODULE MCFleetScope ----------------------------
(* Two locations with a datacenter each, the name of one being part of the   *)
(* other's, and small inventories: one where VMs have two parents, one with  *)
(* cycles, one deeper than the walk goes. The resource "new" is not there    *)
(* at first.                                                                 *)
EXTENDS FleetScope, TLC

MCResources == 
  {"d1", "d2", "folder", "c1", "c2", "h1", "h2", "h3", "v1", "v2", "v3", "new"}

MCKind == [r \in MCResources |->
  CASE r \in {"d1", "d2"} -> "Datacenter"
    [] r = "folder" -> "VMFolder"
    [] r \in {"c1", "c2"} -> "ClusterComputeResource"
    [] r \in {"h1", "h2", "h3"} -> "HostSystem"
    [] OTHER -> "VirtualMachine"]

MCNameOf == [r \in MCResources |->
  CASE r = "d1" -> "dc1" [] r = "d2" -> "dc10" [] OTHER -> r]

MCPartsOf == [n \in {"dc1", "dc10"} |-> IF n = "dc1" THEN {"dc1"} ELSE {"dc1", "dc10"}]

MCContainerKinds == {"Datacenter", "VMFolder", "ClusterComputeResource", "HostSystem"}

MCSites == [l \in {"Madrid", "Lisbon"} |-> IF l = "Madrid" THEN <<"dc1", "dc10">> ELSE <<"dc1">>]

Graph(edges) == [r \in MCResources |-> IF r \in DOMAIN edges THEN edges[r] ELSE <<>>]

\* The places of a new VM are all that differ in the order of the VMs.
MCInventories ==
  LET all == <<"v1", "d1", "h1", "v2", "folder", "d2", "h2", "v3">>
  IN  {[order |-> all, children |-> Graph(g), changes |-> 1,
            new |-> {"new"}, places |-> {0, 1, 4, 8}] : g \in {
    \* Each VM is beneath a host and beneath the folder.
    [d1 |-> <<"h1", "folder", "h2">>, h1 |-> <<"v1", "v2">>, h2 |-> <<"v3">>,
     folder |-> <<"v1", "v2", "v3">>],
    \* Hosts and a folder beneath each other, and a host beneath both datacenters.
    [d1 |-> <<"folder", "h1">>, d2 |-> <<"h1">>, folder |-> <<"folder", "h2", "v1">>,
     h1 |-> <<"h2", "v2", "v3">>, h2 |-> <<"h1", "folder">>],
    \* A chain.
    [d1 |-> <<"folder">>, folder |-> <<"h1">>, h1 |-> <<"v1", "h2">>, h2 |-> <<"v2", "v3">>]}}

Asked ==
  {[location |-> l, kind |-> k] : l \in {NoLocation, "Madrid", "Lisbon", "Atlantis"},
                                  k \in {"VirtualMachine", "HostSystem"}}
=============================================================================

---------------------------- MODULE MCFleetTools ----------------------------
(* The inventories of MCFleetScope, asked for all resources of a kind; a     *)
(* small one that does not change, with hosts beneath two clusters, asked by *)
(* each tool with every combination of a few telling statistics.             *)
EXTENDS MCFleetScope, FleetTools

ScopeCases ==
  {[stats |-> <<>>,
    request |-> q @@ [tool |-> "query", statKeys |-> {}, sortBy |-> Nothing,
                      descending |-> TRUE, top |-> 10]] @@ i :
     q \in Asked, i \in MCInventories}

Estate ==
  [order |-> <<"c1", "h1", "d2", "v1", "c2", "h2", "v2", "h3", "v3">>,
   children |-> Graph([d2 |-> <<"folder">>, folder |-> <<"c1", "c2">>,
                       c1 |-> <<"h1", "h3">>, c2 |-> <<"h2", "h3">>]),
   changes |-> 0, new |-> {}, places |-> {}]

\* The estate with three resources whose statistics are of the given ones, or
\* missing.
Estates(rs, readings, rest) ==
  {[stats |-> f @@ rest] @@ Estate : f \in UNION {[S -> readings] : S \in SUBSET rs}}

Host(mhz, cores, usage, mem, memUsage) ==
  ("mhz" :> mhz) @@ ("cores" :> cores) @@ ("cpu usage" :> usage)
  @@ ("host mem" :> mem) @@ ("mem usage" :> memUsage)

\* For a VM of 4 vCPU and 32 GB: hosts it fits, one of them exactly, hosts that
\* lack one or the other, and hosts with figures missing or zero.
Hosts == {
  Host(200, 10, 30, 64, 20),
  Host(200, 10, 50, 128, 50),
  Host(200, 10, 60, 64, 50),
  Host(200, 10, 10, 128, 90),
  Host(200, 10, 61, 256, 10),
  Host(0, 4, 0, 64, 45),
  Host(200, 0, 0, 64, 0),
  ("host mem" :> 512) @@ ("mem usage" :> 0),
  ("mhz" :> 100) @@ ("cores" :> 7) @@ ("cpu usage" :> 20)
    @@ ("cluster mem" :> 96) @@ ("mem usage" :> 40)}

Place(location, size, n) ==
  [tool |-> "placement", location |-> location, kind |-> "ClusterComputeResource",
   vm |-> [vcpu |-> size[1], gb |-> size[2]], top |-> n]

PlacementCases ==
  {[request |-> Place(NoLocation, <<4, 32>>, 1)] @@ e :
     e \in Estates({"h1", "h2"}, Hosts, "h3" :> Host(200, 10, 50, 128, 50))}
  \cup
  {[request |-> Place(location, size, n)] @@ e :
     location \in {"Madrid", "Lisbon", "Atlantis"}, size \in {<<4, 32>>, <<4, 0>>, <<Nothing, 1>>},
     n \in {0, 3}, e \in Estates({}, Hosts, "h3" :> Host(200, 10, 50, 128, 50))}

Capacity(i, remaining, usable, usage) ==
  (Dimensions[i].remaining :> remaining) @@ (Dimensions[i].usable :> usable)
  @@ (IF Dimensions[i].usage = Nothing THEN <<>> ELSE Dimensions[i].usage :> usage)

Capacities == {
  Capacity(1, 300, 900, 10) @@ Capacity(2, 50, 100, 20),
  Capacity(1, 0, 0, 20) @@ Capacity(3, 60, 80, 0),
  Capacity(3, 0, 0, 0),
  ("mem usage" :> 70) @@ ("mem remaining" :> 5)}

CapacityCases ==
  {[request |-> [tool |-> "capacity", location |-> NoLocation, kind |-> "HostSystem",
                 mostFree |-> m, top |-> n]] @@ e :
     m \in BOOLEAN, n \in 0 .. 2,
     e \in Estates({"h1", "h3"}, Capacities, "h2" :> Capacity(1, 31, 100, 0))}

Vm(vcpus, mhz, mhzWanted, mem, memWanted) ==
  ("vcpus" :> vcpus) @@ ("vm mhz" :> mhz) @@ ("recommended mhz" :> mhzWanted)
  @@ ("mem" :> mem) @@ ("recommended mem" :> memWanted)

Vms == {
  Vm(8, 160, 40, 16, 16),
  Vm(4, 80, 90, 32, 22),
  Vm(6, 90, 80, 8, 4),
  ("vcpus" :> 8) @@ ("mem" :> 8) @@ ("recommended mem" :> 0),
  Vm(2, 0, 0, 4, 8),
  Vm(3, 700, 699, 8, 8),
  Vm(3, 700, 351, 12, 6)}

OversizedCases ==
  {[request |-> [tool |-> "oversized", location |-> NoLocation, kind |-> "VirtualMachine",
                 floor |-> floor, top |-> n]] @@ e :
     floor \in {Nothing, 900}, n \in {1, 2},
     e \in Estates({"v1", "v3"}, Vms, "v2" :> Vm(4, 40, 20, 8, 2))}

QueryCases ==
  {[request |-> [tool |-> "query", location |-> NoLocation, kind |-> kk[1], statKeys |-> {"load"},
                 sortBy |-> kk[2], descending |-> d, top |-> 2]] @@ e :
     kk \in {<<"HostSystem", "load">>, <<"HostSystem", "other">>, <<Nothing, "load">>},
     d \in BOOLEAN,
     e \in Estates({"h1", "h2", "h3"}, {"load" :> n : n \in 1 .. 3}, <<>>)}

MCToolCases == ScopeCases \cup PlacementCases \cup CapacityCases \cup OversizedCases \cup QueryCases

ASSUME NothingCut == Uncut
=============================================================================

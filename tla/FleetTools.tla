----------------------------- MODULE FleetTools -----------------------------
(* One call of a fleet tool: a query, a capacity or an oversized-VM report   *)
(* (reports.py) or a placement recommendation (placement.py). The tool finds *)
(* its scope as FleetScope does, fetches the statistics of what is in scope  *)
(* in chunks (attach_stats) and ranks it; the placement does so again for    *)
(* the hosts of each cluster it has found.                                   *)
(*                                                                           *)
(* given.stats are the statistics the server has; they do not change during  *)
(* the call.                                                                 *)
EXTENDS FleetScope, FleetRanking

CONSTANT ChunkSize   \* resources per request of get_latest_stats_bulk

ASSUME ChunkAssumption == ChunkSize \in Nat \ {0}
\* Statistics are numbers, and the number and speed of processors and the size
\* of memory not negative ones; so are the numbers among the arguments.
ASSUME StatsAssumption ==
  /\ \A c \in Cases, r \in Resources : r \in DOMAIN c.stats =>
       \A k \in DOMAIN c.stats[r] :
         /\ c.stats[r][k] \in Int
         /\ k \in {"mhz", "host mem", "cluster mem", "vcpus", "vm mhz", "recommended mhz"} =>
              c.stats[r][k] >= 0
  /\ \A c \in Cases : LET q == c.request
                      IN  /\ q.top \in Int
                          /\ q.tool = "placement" => {q.vm.vcpu, q.vm.gb} \subseteq Int \cup {Nothing}
                          /\ q.tool = "query" => q.descending \in BOOLEAN
                          /\ q.tool = "capacity" => q.mostFree \in BOOLEAN
                          /\ q.tool = "oversized" => q.floor \in Int \cup {Nothing}

VARIABLES
  stage,
  rows,        \* the resources whose statistics are fetched
  asked,       \* how many of them have been asked for
  stats,       \* what was answered
  clusters,    \* of a placement: the clusters still to be gone through
  candidates,  \* ... and the hosts evaluated
  report

scope == vars
attached == <<rows, asked, stats>>
placing == <<clusters, candidates>>
toolVars == <<scope, stage, attached, placing, report>>

ToolInit ==
  /\ Init
  /\ stage = "beginning"
  /\ rows = <<>> /\ asked = 0 /\ stats = <<>>
  /\ clusters = <<>> /\ candidates = <<>>
  /\ report = <<>>

Reports(r) ==
  /\ stage' = "reported"
  /\ report' = r
  /\ UNCHANGED <<scope, attached, placing>>

Says(what) == [says |-> what, shown |-> <<>>]

\* Arguments that are missing or out of range.
Unusable ==
  \/ /\ request.tool = "placement"
     /\ \E size \in {request.vm.vcpu, request.vm.gb} : IF size = Nothing THEN TRUE ELSE size <= 0
  \/ /\ request.tool = "query"
     /\ \/ request.kind = Nothing
        \/ request.sortBy \notin {Nothing} \cup request.statKeys

BeginTool ==
  /\ stage = "beginning"
  /\ IF Unusable
     THEN Reports(Says("unusable arguments"))
     ELSE stage' = "scope" /\ UNCHANGED <<scope, attached, placing, report>>

Scoping ==
  /\ stage \in {"scope", "host scope"}
  /\ Query
  /\ UNCHANGED <<stage, attached, placing, report>>

ReportUnknown ==
  /\ stage = "scope"
  /\ pc = "unknown location"
  /\ Reports(Says("unknown location"))

-----------------------------------------------------------------------------
(* attach_stats                                                              *)

Attach ==
  /\ stage \in {"scope", "host scope"}
  /\ pc = "done"
  /\ stage' = IF stage = "scope" THEN "stats" ELSE "host stats"
  /\ rows' = IF stage = "scope" /\ request.location = NoLocation THEN out ELSE found
  /\ asked' = 0
  /\ stats' = <<>>
  /\ UNCHANGED <<scope, placing, report>>

Ids == Distinct(rows)

\* Chunks that overlap the end of the list are left out.
FullChunk == SubSeq(Ids, asked + 1,
               IF asked + ChunkSize <= Len(Ids) THEN asked + ChunkSize ELSE asked)

Chunk == SubSeq(Ids, asked + 1, Smaller(asked + ChunkSize, Len(Ids)))

\* A request that fails leaves its chunk without statistics.
FetchStats ==
  /\ stage \in {"stats", "host stats"}
  /\ asked < Len(Ids)
  /\ asked' = asked + ChunkSize
  /\ \/ /\ stats' = [r \in DOMAIN stats \cup (ToSet(Chunk) \cap DOMAIN given.stats) |-> given.stats[r]]
        /\ UNCHANGED failed
     \/ failed' = TRUE /\ UNCHANGED stats
  /\ UNCHANGED <<inventory, walk, given, kind, pc, names, roots, page, out>>
  /\ UNCHANGED <<stage, rows, placing, report>>

Attached(at) == stage = at /\ asked >= Len(Ids)

StatsOf(r) == IF r \in DOMAIN stats THEN stats[r] ELSE <<>>

-----------------------------------------------------------------------------
(* The reports                                                               *)

\* list.sort(key=key.get, reverse=reverse)
SortedBy(list, key, reverse) ==
  Ranked(list, LAMBDA r, q : IF reverse THEN key[r] > key[q] ELSE key[r] < key[q])

Table(ranked) ==
  [says  |-> "table",
   total |-> Len(ranked),
   shown |-> Top(ranked, request.top)]

ReportQuery ==
  /\ request.tool = "query"
  /\ Attached("stats")
  /\ LET value == [r \in ToSet(rows) |-> Num(StatsOf(r), request.sortBy)]
         numeric == Among(rows, {r \in ToSet(rows) : value[r] # Nothing})
         ranked == IF request.sortBy = Nothing THEN rows
                   ELSE SortedBy(numeric, value, request.descending)
     IN  Reports([Table(ranked) EXCEPT !.total = Len(rows)])

\* The report refers to the first row, which an empty table does not have.
ReportCapacity ==
  /\ request.tool = "capacity"
  /\ Attached("stats")
  /\ \E least \in {[r \in ToSet(rows) |-> LeastFree(StatsOf(r))]} :
     \E scored \in {Among(rows, {r \in ToSet(rows) : least[r] # Nothing})} :
     \E table \in {Table(SortedBy(scored, least, request.mostFree))} :
       Reports(CASE scored = <<>> -> Says("no data")
                 [] scored # <<>> /\ table.shown = <<>> -> Says("failed")
                 [] OTHER -> [says |-> "table", total |-> table.total, shown |-> table.shown,
                              tightest |-> Bottleneck(StatsOf(Head(table.shown)))])

ReportOversized ==
  /\ request.tool = "oversized"
  /\ Attached("stats")
  /\ \E score \in {[r \in ToSet(rows) |-> OversizeScore(StatsOf(r))]} :
     \E oversized \in {Among(rows, {r \in ToSet(rows) :
                       score[r] > 0 /\ (request.floor = Nothing \/ ~Higher(request.floor, score[r]))})} :
       Reports(IF oversized = <<>> THEN Says("none oversized")
               ELSE Table(SortedBy(oversized, score, TRUE)))

-----------------------------------------------------------------------------
(* The placement                                                             *)

BeginHosts ==
  /\ request.tool = "placement"
  /\ Attached("stats")
  /\ IF rows = <<>>
     THEN Reports(Says("no clusters"))
     ELSE /\ stage' = "clusters"
          /\ clusters' = rows
          /\ UNCHANGED <<scope, attached, candidates, report>>

\* collect_descendants beneath the next cluster.
NextCluster ==
  /\ stage = "clusters"
  /\ clusters # <<>>
  /\ stage' = "host scope"
  /\ pc' = "walking"
  /\ kind' = "HostSystem"
  /\ roots' = <<Head(clusters)>> /\ frontier' = <<Head(clusters)>>
  /\ nxt' = <<>> /\ visited' = {} /\ depth' = 0 /\ found' = <<>>
  /\ page' = 0 /\ out' = <<>>
  /\ UNCHANGED <<inventory, given, names, failed, attached, placing, report>>

Candidate(r, granted) ==
  LET fit == Evaluate(StatsOf(r), request.vm, granted)
  IN  [host |-> r, cluster |-> Head(clusters), blockers |-> fit.blockers, head |-> fit.head]

EvaluateHosts ==
  /\ Attached("host stats")
  /\ stage' = "clusters"
  /\ \E granted \in [ToSet(rows) -> SUBSET {"cpu", "memory"}] :
       candidates' = candidates \o [i \in DOMAIN rows |-> Candidate(rows[i], granted[rows[i]])]
  /\ clusters' = Tail(clusters)
  /\ UNCHANGED <<scope, attached, report>>

Recommend ==
  /\ stage = "clusters"
  /\ clusters = <<>>
  /\ LET top == Top(Ranked(candidates, Better), request.top)
     IN  Reports(IF top = <<>> THEN Says("no hosts")
                 ELSE IF Head(top).blockers = {}
                 THEN [says |-> "place", host |-> Head(top).host, cluster |-> Head(top).cluster,
                       shown |-> top]
                 ELSE [says |-> "nothing fits", blockers |-> Head(top).blockers, shown |-> top])

-----------------------------------------------------------------------------

Tool ==
  \/ BeginTool \/ Scoping \/ ReportUnknown \/ Attach \/ FetchStats
  \/ ReportQuery \/ ReportCapacity \/ ReportOversized
  \/ BeginHosts \/ NextCluster \/ EvaluateHosts \/ Recommend

InventoryChanges ==
  /\ Inventory
  /\ UNCHANGED <<stage, attached, placing, report>>

ToolNext == Tool \/ InventoryChanges

\* The tool runs in the thread of a turn, and every request has a timeout.
ToolSpec == ToolInit /\ [][ToolNext]_toolVars /\ WF_toolVars(Tool)

-----------------------------------------------------------------------------
(* Properties                                                                *)

ToolTypeOK ==
  /\ TypeOK
  /\ kind \in {request.kind, "HostSystem"}
  /\ stage \in {"beginning", "scope", "stats", "clusters", "host scope", "host stats", "reported"}
  /\ {rows, clusters} \subseteq Seq(Resources)
  /\ asked \in Nat
  /\ DOMAIN stats \subseteq Resources
  /\ \A i \in DOMAIN candidates : candidates[i].host \in Resources
  /\ stage = "reported" <=> report # <<>>

\* What is in scope: of the whole estate or of the datacenters of a location.
InScope(sought) ==
  LET site == {r \in ToSet(given.order) : /\ Kind[r] = "Datacenter"
                                          /\ PartsOf[NameOf[r]] \cap ToSet(Sites[request.location]) # {}}
  IN  IF request.location = NoLocation
      THEN {r \in ToSet(given.order) : Kind[r] = sought}
      ELSE Beneath(site, sought)

\* Nothing in scope is left out of a list: fewer resources than a listing is cut
\* at, and no more datacenters than a search returns.
Uncut == \A c \in Cases :
  /\ Len(Among(c.order, {r \in Resources : Kind[r] = c.request.kind})) < MaxResources
  /\ Len(Among(c.order, {r \in Resources : Kind[r] = "Datacenter"})) <= SearchSize

\* Fractions <<n, d>>, d > 0, compared without rounding: whether f is more than
\* g by more than 1 / slack.
Exceeds(f, g, slack) == slack * (f[1] * g[2] - g[1] * f[2]) > f[2] * g[2]

\* The least of fs is more than the least of gs by more than 1 / slack.
LeastExceeds(fs, gs, slack) == \E g \in gs : \A f \in fs : Exceeds(f, g, slack)

\* The statistics say that the VM fits: what it needs of CPU and memory is free.
Fits(r) ==
  LET s == given.stats[r]
      vm == request.vm
  IN  /\ r \in DOMAIN given.stats
      /\ {"mhz", "cores", "cpu usage", "mem usage"} \subseteq DOMAIN s
      /\ {"host mem", "cluster mem"} \cap DOMAIN s # {}
      /\ s["cores"] > 0
      /\ 100 * vm.vcpu * s["mhz"] <= s["cores"] * s["mhz"] * (100 - s["cpu usage"])
      /\ 100 * vm.gb <= MemTotal(s) * (100 - s["mem usage"])

\* The shares of its CPU and of its memory that a host would have left.
SharesLeft(r) ==
  LET s == given.stats[r]
      vm == request.vm
  IN  {l \in {<<100 - s["cpu usage"], 100 * vm.vcpu, s["cores"], s["mhz"]>>,
              <<100 - s["mem usage"], 100 * vm.gb, MemTotal(s), MemTotal(s)>>} : l[4] > 0}

Left(r) == {<<l[1] * l[3] - l[2], l[3]>> : l \in SharesLeft(r)}

\* The host recommended for a VM has the CPU and the memory free that the VM
\* needs, and is beneath the cluster it is said to be in, whichever statistics
\* are missing and whichever requests fail (placement.py:34-163).
PlacedFits ==
  (stage = "reported" /\ report.says = "place") =>
    /\ Fits(report.host)
    /\ changes = 0 => report.host \in Beneath({report.cluster}, "HostSystem")

\* A placement that was not told a place it does not know.
PlacementDone ==
  /\ request.tool = "placement" /\ changes = 0 /\ stage = "reported"
  /\ report.says \notin {"unusable arguments", "unknown location"}

\* The hosts of the clusters in scope.
HostsInScope == UNION {Beneath({c}, "HostSystem") : c \in InScope(request.kind)}

\* The VM would leave something of either resource. One that takes all that is
\* free may be refused: floats are compared (placement.py:55, 65).
Spare(r) == \A l \in Left(r) : l[1] > 0

\* When no request fails, a host is recommended if any host of any cluster in
\* scope has more than the VM needs, wherever its cluster ranks, and no host that
\* has what it needs has more than a tenth of a percent more left of its scarcer
\* resource than the one recommended (placement.py:96-99, placement.py:137-163).
BestHost ==
  (PlacementDone /\ ~failed) =>
    \A h \in HostsInScope : Fits(h) =>
      /\ (request.top > 0 /\ Spare(h)) => report.says = "place"
      /\ report.says = "place" => ~LeastExceeds(Left(h), Left(report.host), 10)

\* What a resource is ranked by: a set of fractions, the least of which counts.
PctFree(r, dim) ==
  LET s == IF r \in DOMAIN given.stats THEN given.stats[r] ELSE <<>>
  IN  IF {dim.remaining, dim.usable} \subseteq DOMAIN s /\ Num(s, dim.usable) > 0
      THEN {<<100 * s[dim.remaining], s[dim.usable]>>}
      ELSE {<<100 - s[k], 1>> : k \in {dim.usage} \cap DOMAIN s}

\* In GB, a vCPU counting as two.
Reclaimable(r) ==
  LET s == IF r \in DOMAIN given.stats THEN given.stats[r] ELSE <<>>
      has(keys) == keys \subseteq DOMAIN s /\ \A k \in keys : s[k] > 0
      cpu == IF has({"vcpus", "vm mhz", "recommended mhz"})
             THEN <<2 * s["vcpus"] * (s["vm mhz"] - s["recommended mhz"]), s["vm mhz"]>>
             ELSE <<0, 1>>
      mem == IF {"mem", "recommended mem"} \subseteq DOMAIN s THEN s["mem"] - s["recommended mem"] ELSE 0
      gain(n) == IF n > 0 THEN n ELSE 0
  IN  <<gain(cpu[1]) + gain(mem) * cpu[2], cpu[2]>>

Worth(r) ==
  CASE request.tool = "query" ->
         IF r \in DOMAIN given.stats /\ request.sortBy \in DOMAIN given.stats[r]
         THEN {<<given.stats[r][request.sortBy], 1>>} ELSE {}
    [] request.tool = "capacity" -> UNION {PctFree(r, dim) : dim \in ToSet(Dimensions)}
    [] request.tool = "oversized" -> {Reclaimable(r)}

\* What a ranked report is about: the resources in scope that have the
\* statistics, and of VMs those that could give back as much as asked for, and
\* that many hundredths of a GB more.
Rated(more) ==
  LET floor == IF Higher(request.floor, 0) THEN request.floor ELSE 0
  IN  {r \in InScope(request.kind) :
        /\ Worth(r) # {}
        /\ request.tool = "oversized" =>
             /\ Reclaimable(r)[1] > 0
             /\ 100 * Reclaimable(r)[1] >= (floor + more) * Reclaimable(r)[2]}

\* Rounding hides a tenth of a percent, and two hundredths of a GB.
Outranks(r, q) ==
  CASE request.tool = "query" ->
         IF request.descending THEN LeastExceeds(Worth(r), Worth(q), 1000)
         ELSE LeastExceeds(Worth(q), Worth(r), 1000)
    [] request.tool = "capacity" ->
         IF request.mostFree THEN LeastExceeds(Worth(r), Worth(q), 10)
         ELSE LeastExceeds(Worth(q), Worth(r), 10)
    [] request.tool = "oversized" -> LeastExceeds(Worth(r), Worth(q), 50)

\* No row of a ranked report belongs before one above it, by the statistics
\* themselves, and the type of capacity it calls the tightest is. When nothing
\* failed, as many rows are shown as were asked for and there are, and none that
\* is left out belongs before one that is shown. Whether a VM could give back as
\* much as asked for depends on rounding, within two hundredths of a GB
\* (reports.py:100-290, vrops_client.py:1069-1100).
RankedTruly ==
  (stage = "reported" /\ changes = 0
    /\ \/ request.tool \in {"capacity", "oversized"}
       \/ request.tool = "query" /\ request.sortBy # Nothing
    /\ report.says \notin {"unusable arguments", "unknown location"})
  => LET shown == report.shown
         most == Rated(-2)
         least == Rated(2)
     IN  /\ ToSet(shown) \subseteq most
         /\ \A i, j \in DOMAIN shown : i < j => ~Outranks(shown[j], shown[i])
         /\ request.tool = "capacity" /\ shown # <<>> =>
              LET tight == PctFree(shown[1], report.tightest)
              IN  tight # {} /\ ~LeastExceeds(tight, Worth(shown[1]), 10)
         /\ (~failed /\ request.top > 0) =>
              /\ Len(shown) >= Smaller(request.top, Cardinality(least))
              /\ Len(shown) <= Smaller(request.top, Cardinality(most))
              /\ \A r \in least \ ToSet(shown) : \A q \in ToSet(shown) : ~Outranks(r, q)

\* A tool call ends with a report or an error, whatever the relations are,
\* whatever fails and however the inventory changes meanwhile.
ToolEnds == <>(stage = "reported")
=============================================================================

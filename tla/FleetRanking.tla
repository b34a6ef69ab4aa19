---------------------------- MODULE FleetRanking ----------------------------
(* What the fleet tools make of the latest statistics of resources:          *)
(* _evaluate and the ranking of placement.py, the capacity and rightsizing   *)
(* reports of reports.py, and the scores of analysis.py they share.          *)
(*                                                                           *)
(* The statistics of a resource are a function from those keys that have a   *)
(* value to numbers. Percentages are whole numbers and sizes are in units    *)
(* that make them so; quotients are computed exactly and then rounded as the *)
(* code rounds them, except that a tie is rounded up. The code compares what *)
(* is free with what a VM takes as floats: at the exact limit, and only      *)
(* there, the comparison may come out either way.                            *)
EXTENDS Lists

CONSTANT Nothing   \* None

\* It is not a number, nor a fraction.
ASSUME NothingAssumption == Nothing \notin Int \cup [n : Int, d : Int]

Num(stats, key) == IF key \in DOMAIN stats THEN stats[key] ELSE Nothing

Known(values) == Nothing \notin values

\* round(n / d, 1), in tenths.
Tenths(n, d) == (20 * n + d) \div (2 * d)

\* The least of the values there are.
LeastOf(values) ==
  LET known == values \ {Nothing}
  IN  IF known = {} THEN Nothing ELSE CHOOSE v \in known : \A w \in known : v <= w

Higher(a, b) == a # Nothing /\ (b = Nothing \/ a > b)

-----------------------------------------------------------------------------
(* Placement of a VM                                                         *)

\* headroom_after_pct, before it is rounded: what is left of the total once the
\* VM has its share.
CpuLeft(stats, vm) ==
  LET cores == Num(stats, "cores")
      usage == Num(stats, "cpu usage")
  IN  IF Known({cores, usage, Num(stats, "mhz")}) /\ cores > 0
      THEN [n |-> (100 - usage) * cores - 100 * vm.vcpu, d |-> cores]
      ELSE Nothing

\* Both the MHz free and the MHz a vCPU takes are shares of the total: of none,
\* both are zero. "cpu" \in granted: at the limit, the comparison comes out true.
CpuFits(stats, vm, granted) ==
  LET left == CpuLeft(stats, vm)
  IN  /\ left # Nothing
      /\ left.n > 0 \/ (left.n = 0 /\ "cpu" \in granted) \/ Num(stats, "mhz") = 0

CpuHead(stats, vm) ==
  LET left == CpuLeft(stats, vm)
  IN  IF left = Nothing \/ Num(stats, "mhz") = 0 THEN Nothing ELSE Tenths(left.n, left.d)

MemTotal(stats) ==
  IF Num(stats, "host mem") # Nothing THEN Num(stats, "host mem")
  ELSE Num(stats, "cluster mem")

\* A VM that is compared with all there is rather than with what is free.
MemLeftOfAll(stats, vm) ==
  IF MemTotal(stats) = Nothing THEN Nothing
  ELSE [n |-> 100 * MemTotal(stats) - 100 * vm.gb, d |-> MemTotal(stats)]

MemLeft(stats, vm) ==
  LET total == MemTotal(stats)
      usage == Num(stats, "mem usage")
  IN  IF Known({total, usage})
      THEN [n |-> (100 - usage) * total - 100 * vm.gb, d |-> total]
      ELSE Nothing

MemFits(stats, vm, granted) ==
  LET left == MemLeft(stats, vm)
  IN  left # Nothing /\ (left.n > 0 \/ (left.n = 0 /\ "memory" \in granted))

MemHead(stats, vm) ==
  LET left == MemLeft(stats, vm)
  IN  IF left = Nothing \/ MemTotal(stats) <= 0 THEN Nothing ELSE Tenths(left.n, left.d)

\* headroom_after_pct of the scarcer of both.
HeadLeft(stats, vm) == LeastOf({CpuHead(stats, vm), MemHead(stats, vm)})

Evaluate(stats, vm, granted) ==
  [blockers |-> (IF CpuFits(stats, vm, granted) THEN {} ELSE {"cpu"}) \cup
                (IF MemFits(stats, vm, granted) THEN {} ELSE {"memory"}),
   head     |-> HeadLeft(stats, vm)]

\* _rank_key that leaves out what would be left.
BetterByFit(a, b) == a.blockers = {} /\ b.blockers # {}

\* _rank_key
Better(a, b) ==
  LET fits(c) == c.blockers = {}
  IN  \/ fits(a) /\ ~fits(b)
      \/ fits(a) = fits(b) /\ Higher(a.head, b.head)

-----------------------------------------------------------------------------
(* Free capacity of a cluster or a host                                      *)

\* The keys of each type of capacity; storage has none for its usage.
Dimensions == <<
  [remaining |-> "cpu remaining", usable |-> "cpu usable", usage |-> "cpu usage"],
  [remaining |-> "mem remaining", usable |-> "mem usable", usage |-> "mem usage"],
  [remaining |-> "disk remaining", usable |-> "disk usable", usage |-> Nothing]>>

\* pct_remaining
EnginePct(remaining, usable) ==
  IF Nothing \in {remaining, usable} THEN Nothing
  ELSE IF usable <= 0 THEN Nothing ELSE Tenths(100 * remaining, usable)

\* _capacity_dimension: what the capacity engine says, else the raw headroom.
PctRemaining(stats, dim) ==
  LET pct   == EnginePct(Num(stats, dim.remaining), Num(stats, dim.usable))
      usage == Num(stats, dim.usage)
  IN  IF pct = Nothing /\ usage # Nothing THEN 10 * (100 - usage) ELSE pct

LeastFree(stats) == LeastOf({PctRemaining(stats, Dimensions[i]) : i \in DOMAIN Dimensions})

\* The first of the types that has the least.
Bottleneck(stats) ==
  Head(Among(Dimensions, {dim \in ToSet(Dimensions) : PctRemaining(stats, dim) = LeastFree(stats)}))

-----------------------------------------------------------------------------
(* Oversized VMs, in hundredths of a vCPU and of a GB                        *)

ReclaimableVcpu(stats) ==
  LET sizes == {Num(stats, "vcpus"), Num(stats, "vm mhz"), Num(stats, "recommended mhz")}
      spare == Num(stats, "vm mhz") - Num(stats, "recommended mhz")
  IN  IF Known(sizes) /\ 0 \notin sizes /\ spare > 0
      THEN Tenths(10 * Num(stats, "vcpus") * spare, Num(stats, "vm mhz"))
      ELSE 0

\* Sizes of memory are in whole GB.
ReclaimableMem(stats) ==
  LET sizes == {Num(stats, "mem"), Num(stats, "recommended mem")}
      spare == Num(stats, "mem") - Num(stats, "recommended mem")
  IN  IF Known(sizes) /\ spare > 0 THEN 100 * spare ELSE 0

\* Each vCPU counts as 2 GB.
OversizeScore(stats) == 2 * ReclaimableVcpu(stats) + ReclaimableMem(stats)
=============================================================================

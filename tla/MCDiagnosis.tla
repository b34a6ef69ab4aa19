----------------------------- MODULE MCDiagnosis -----------------------------
(* Every short listing of alerts with every health and a few series, and     *)
(* every short series of CPU samples around the threshold.                   *)
EXTENDS Diagnosis

MCLevels == {"INFORMATION", "WARNING", "IMMEDIATE"}
UpTo(n, S) == UNION {[1 .. i -> S] : i \in 0 .. n}

Of(cpu, latency, net) ==
  [k \in Metrics |-> CASE k = "cpu" -> cpu [] k = "disk latency" -> latency
                       [] k = "net" -> net [] OTHER -> <<>>]

Fact(n, h, levels, s) ==
  [tool |-> "diagnose", matches |-> n, health |-> h, series |-> s,
   alerts |-> [i \in DOMAIN levels |-> [level |-> levels[i]]]]

MCEstates ==
  {Fact(1, h, a, s) : h \in {"GREEN", "GREY", "YELLOW", "RED"}, a \in UpTo(3, MCLevels),
     s \in {Of(<<>>, <<>>, <<>>), Of(<<>>, <<>>, <<99, 99>>), Of(<<>>, <<19, 20>>, <<>>)}}
  \cup
  {Fact(1, h, a, Of(cpu, latency, <<>>)) : h \in {"GREEN", "RED"},
     a \in {<<>>, <<"INFORMATION">>}, cpu \in UpTo(4, {0, 85, 89, 90}),
     latency \in {<<>>, <<19, 20>>}}
  \cup
  {Fact(n, "GREEN", <<>>, Of(<<>>, <<>>, <<>>)) : n \in {0, 2}}
=============================================================================

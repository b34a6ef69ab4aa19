---------------------------- MODULE AlertSummary ----------------------------
(* One call of vrops_get_alerts (_vrops_get_alerts of actions.py), which     *)
(* lists alerts as a diagnosis does, looks up the names of their resources   *)
(* in chunks (get_resource_names of vrops_client.py) and summarizes them     *)
(* (summarize_alerts of analysis.py). A call is of this tool or of Diagnosis,*)
(* as estate.tool says.                                                      *)
(*                                                                           *)
(* Here an alert has an id, a level, a status, a name, a resource and a time *)
(* of its start, with values of their own for those that are missing, and    *)
(* estate.named are the resources the server finds.                          *)
EXTENDS Diagnosis

CONSTANTS
  ChunkSize,   \* resources per request of get_resource_names
  TopN,        \* alerts in detail
  NameGroups,  \* names with a count
  NoResource   \* of an alert that names none

ASSUME SummaryAssumption == ChunkSize \in Nat \ {0} /\ {TopN, NameGroups} \subseteq Nat

ASSUME AlertsAssumption ==
  \A e \in Estates : e.tool = "get alerts" =>
    /\ NoResource \notin e.named
    /\ \A a \in ToSet(e.alerts) : a.start \in Int

VARIABLES
  asked,    \* how many resources have been asked for
  named,    \* the resources whose names were answered
  summary

looked == <<asked, named, summary>>
toolVars == <<vars, looked>>

ToolInit ==
  /\ Init
  /\ asked = 0
  /\ named = {}
  /\ summary = <<>>

BeginList ==
  /\ pc = "search"
  /\ pc' = "alerts"
  /\ UNCHANGED <<estate, health, alerts, page, series, failed, gaps, verdict, recommendations, looked>>

\* Of every resource once.
Ids ==
  LET resources == [i \in DOMAIN alerts |-> alerts[i].resource]
  IN  Among(Distinct(resources), ToSet(resources) \ {NoResource})

FetchNames ==
  /\ pc = "listed"
  /\ asked < Len(Ids)
  /\ asked' = asked + ChunkSize
  /\ \/ /\ named' = named \cup (ToSet(SubSeq(Ids, asked + 1, Smaller(asked', Len(Ids)))) \cap estate.named)
        /\ UNCHANGED failed
     \/ failed' = failed \cup {"names"} /\ UNCHANGED named
  /\ UNCHANGED <<estate, pc, health, alerts, page, series, gaps, verdict, recommendations, summary>>

-----------------------------------------------------------------------------
(* summarize_alerts                                                          *)

Tally(list, field) ==
  [v \in {list[i][field] : i \in DOMAIN list} |->
     Cardinality({i \in DOMAIN list : list[i][field] = v})]

SeverityOrder == <<"CRITICAL", "IMMEDIATE", "WARNING", "INFORMATION">>

\* _severity_rank, where unknown levels come first.
UnknownFirst(level) ==
  IF Contains(SeverityOrder, level)
  THEN CHOOSE i \in DOMAIN SeverityOrder : SeverityOrder[i] = level
  ELSE 0

\* _severity_rank: unknown levels come last.
SeverityRank(level) ==
  IF Contains(SeverityOrder, level)
  THEN CHOOSE i \in DOMAIN SeverityOrder : SeverityOrder[i] = level
  ELSE Len(SeverityOrder) + 1

\* Most severe first, then the most recent.
Before(a, b) ==
  \/ SeverityRank(a.level) < SeverityRank(b.level)
  \/ SeverityRank(a.level) = SeverityRank(b.level) /\ a.start > b.start

MostCommon(list) ==
  LET count == Tally(list, "name")
      distinct == Distinct([i \in DOMAIN list |-> list[i].name])
  IN  Top(Ranked(distinct, LAMBDA n, m : count[n] > count[m]), NameGroups)

Row(a) == [alert |-> a, named |-> a.resource \in named]

Summarize ==
  /\ pc = "listed"
  /\ asked >= Len(Ids)
  /\ pc' = "summarized"
  /\ summary' = [total  |-> Len(alerts),
                 levels |-> Tally(alerts, "level"),
                 states |-> Tally(alerts, "status"),
                 names  |-> MostCommon(alerts),
                 top    |-> LET ranked == Top(Ranked(alerts, Before), TopN)
                            IN  [i \in DOMAIN ranked |-> Row(ranked[i])]]
  /\ UNCHANGED <<estate, health, alerts, page, series, failed, gaps, verdict, recommendations, asked, named>>

-----------------------------------------------------------------------------

Diagnose == estate.tool = "diagnose" /\ Next /\ UNCHANGED looked

GetAlerts ==
  /\ estate.tool = "get alerts"
  /\ \/ BeginList
     \/ AlertsPage /\ UNCHANGED looked
     \/ AlertsFail /\ UNCHANGED looked
     \/ FetchNames
     \/ Summarize

ToolNext == Diagnose \/ GetAlerts

ToolSpec == ToolInit /\ [][ToolNext]_toolVars

-----------------------------------------------------------------------------
(* Properties                                                                *)

ToolTypeOK ==
  /\ estate.tool = "diagnose" => TypeOK
  /\ asked \in Nat
  /\ named # {} => named \subseteq estate.named
  /\ pc = "summarized" <=> summary # <<>>

\* How many of the alerts that there are have v in a field.
Number(field, v) == Cardinality({i \in DOMAIN estate.alerts : estate.alerts[i][field] = v})

\* Levels that are not known are less severe than the others.
LessSevere(a, b) ==
  LET known == ToSet(SeverityOrder)
      at(level) == CHOOSE i \in DOMAIN SeverityOrder : SeverityOrder[i] = level
  IN  /\ b.level \in known
      /\ a.level \in known => at(a.level) > at(b.level)

\* The summary of a listing that is complete counts every alert, of each level
\* and status, and neither an alert it leaves out is more severe, nor a name
\* more common, than one it shows; an incomplete listing is never counted for
\* more than there is. The alerts shown come by severity, then by time, each
\* with the name of its resource if that was found (analysis.py:142-194,
\* actions.py:256-280, vrops_client.py:853-934).
SummaryTrue == pc = "summarized" =>
  LET shown == [i \in DOMAIN summary.top |-> summary.top[i].alert]
      left == ToSet(estate.alerts) \ ToSet(shown)
  IN  /\ \A l \in DOMAIN summary.levels : summary.levels[l] <= Number("level", l)
      /\ \A i, j \in DOMAIN shown : i < j =>
           /\ ~LessSevere(shown[i], shown[j])
           /\ shown[i].level = shown[j].level => shown[i].start >= shown[j].start
      /\ failed = {} => \A i \in DOMAIN summary.top :
           summary.top[i].named <=> shown[i].resource \in estate.named
      /\ ("alerts" \notin failed /\ Len(estate.alerts) < MaxAlerts) =>
           /\ summary.total = Len(estate.alerts)
           /\ Len(shown) = Smaller(TopN, Len(estate.alerts))
           /\ \A i \in DOMAIN estate.alerts :
                LET a == estate.alerts[i]
                IN  /\ summary.levels[a.level] = Number("level", a.level)
                    /\ summary.states[a.status] = Number("status", a.status)
           /\ \A a \in left, b \in ToSet(shown) : ~LessSevere(b, a)
           /\ \A n \in {a.name : a \in ToSet(estate.alerts)} \ ToSet(summary.names) :
                /\ Len(summary.names) = NameGroups
                /\ \A m \in ToSet(summary.names) : Number("name", m) >= Number("name", n)
=============================================================================

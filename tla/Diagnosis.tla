----------------------------- MODULE Diagnosis -----------------------------
(* One call of vrops_diagnose (src/actions/builtin/vrops/diagnose.py): the   *)
(* facts of a resource are fetched one after the other, any of which may     *)
(* fail, and a verdict and recommendations are made of what was fetched      *)
(* (analysis.py).                                                            *)
(*                                                                           *)
(* Samples are natural numbers. Wording, and the figures a report shows but  *)
(* does not decide by, are left out. AlertSummary extends this module with   *)
(* the other tool that lists alerts.                                         *)
EXTENDS Lists

CONSTANTS
  Estates,    \* what is true: number of matches, health, alerts, series
  PageSize,   \* of the listing of alerts
  MaxAlerts   \* where it is cut

ASSUME LimitsAssumption == PageSize \in Nat \ {0} /\ MaxAlerts \in Nat \ {0}

VARIABLES
  estate,   \* the facts as they are
  pc,
  health,   \* the state fetched, or "unknown"
  alerts,   \* the alerts fetched
  page,
  series,   \* series[k]: the samples fetched of metric k
  failed,   \* what was not, or not completely, fetched
  gaps,     \* what the report notes as missing
  verdict, recommendations

vars == <<estate, pc, health, alerts, page, series, failed, gaps, verdict, recommendations>>

-----------------------------------------------------------------------------
(* analysis.py                                                               *)

Metrics == {"cpu", "mem", "disk latency", "net", "disk throughput"}

ASSUME EstatesAssumption ==
  \A e \in Estates : /\ e.alerts \in Seq(ToSet(e.alerts))
                    /\ e.series \in [Metrics -> Seq(Nat)]

\* METRIC_CATALOG; two metrics have no threshold.
Threshold ==
  [k \in {"cpu", "mem", "disk latency"} |-> IF k = "disk latency" THEN 20 ELSE 90]

Total(s) == FoldLeft(LAMBDA a, b : a + b, 0, s)
Absolute(n) == IF n < 0 THEN -n ELSE n

\* Offset is twice the distance of a sample from the middle of the window, so
\* that the slope is 2 * Rise / SumSq.
Offset(s, i) == 2 * i - Len(s) - 1
Rise(s) == Total([i \in 1 .. Len(s) |-> Offset(s, i) * s[i]])
SumSq(s) == Total([i \in 1 .. Len(s) |-> Offset(s, i) * Offset(s, i)])

\* A change against 5% of the first sample.
TrendAgainstFirst(s) ==
  LET change == Rise(s)
  IN  IF Len(s) < 2 \/ 40 * Absolute(change) * (Len(s) - 1) < s[1] * SumSq(s)
      THEN "stable"
      ELSE IF change > 0 THEN "rising" ELSE "falling"

\* compute_trend: the change over the window, slope * (n - 1), against 5% of the
\* mean. A change of zero is stable, whatever the mean.
Trend(s) ==
  LET change == Rise(s)
  IN  IF \/ Len(s) < 2
         \/ change = 0
         \/ 40 * Absolute(change) * (Len(s) - 1) * Len(s) < Total(s) * SumSq(s)
      THEN "stable"
      ELSE IF change > 0 THEN "rising" ELSE "falling"

Breached(all, k) ==
  k \in DOMAIN Threshold /\ \E i \in 1 .. Len(all[k]) : all[k][i] >= Threshold[k]

LevelsOf(list) == {list[i].level : i \in DOMAIN list}

Critical == {"CRITICAL", "IMMEDIATE"}
Degraded == {"RED", "ORANGE", "YELLOW"}

\* rollup_verdict.
Rollup(state, levels, all) ==
  IF state = "RED" \/ levels \cap Critical # {} THEN "CRITICAL"
  ELSE IF \/ state \in {"ORANGE", "YELLOW"}
          \/ \E k \in Metrics : Breached(all, k)
          \/ "WARNING" \in levels
  THEN "WARNING"
  ELSE "OK"

Advice(levels, all) ==
  {a \in {"alert", "cpu climbing", "cpu", "mem", "disk latency"} :
    CASE a = "alert" -> levels \cap Critical # {}
      [] a = "cpu climbing" -> Breached(all, "cpu") /\ Trend(all["cpu"]) = "rising"
      [] a = "cpu" -> Breached(all, "cpu") /\ Trend(all["cpu"]) # "rising"
      [] OTHER -> Breached(all, a)}

\* Recommendations that look at breaches and critical alerts only.
RecommendAboutBreaches(state, levels, all) ==
  IF Advice(levels, all) # {} THEN Advice(levels, all) ELSE {"none needed"}

\* build_recommendations.
Recommend(state, levels, all) ==
  IF Advice(levels, all) # {} THEN Advice(levels, all)
  ELSE IF levels # {} THEN {"review alerts"}
  ELSE IF state \in Degraded THEN {"health degraded"}
  ELSE {"none needed"}

-----------------------------------------------------------------------------
(* _vrops_diagnose                                                           *)

Nothing == [k \in Metrics |-> <<>>]

Init ==
  /\ estate \in Estates
  /\ pc = "search"
  /\ health = "unknown"
  /\ alerts = <<>>
  /\ page = 0
  /\ series = Nothing
  /\ failed = {}
  /\ gaps = {}
  /\ verdict = "none"
  /\ recommendations = {}

\* Anything but exactly one match ends the call; a search that fails finds none.
Search ==
  /\ pc = "search"
  /\ \E seen \in {estate.matches, 0} :
       pc' = IF seen = 1 THEN "health" ELSE "no diagnosis"
  /\ UNCHANGED <<estate, health, alerts, page, series, failed, gaps, verdict, recommendations>>

\* A state that says nothing of the resource noted as missing.
GetKnownHealth ==
  /\ pc = "health"
  /\ \/ health' = estate.health /\ UNCHANGED failed
     \/ failed' = failed \cup {"health"} /\ UNCHANGED health
  /\ gaps' = IF health' \in {"unknown", "GREY"} THEN gaps \cup {"health"} ELSE gaps
  /\ pc' = "alerts"
  /\ UNCHANGED <<estate, alerts, page, series, verdict, recommendations>>

GetHealth ==
  /\ pc = "health"
  /\ \/ health' = estate.health /\ UNCHANGED <<failed, gaps>>
     \/ /\ failed' = failed \cup {"health"}
        /\ gaps' = gaps \cup {"health"}
        /\ UNCHANGED health
  /\ pc' = "alerts"
  /\ UNCHANGED <<estate, alerts, page, series, verdict, recommendations>>

Batch(p) == Page(estate.alerts, PageSize, p)

\* The listing of get_alerts stops after its first page.
FetchedOnePage(fetched, p) == p = 0

Fetched(fetched, p) ==
  \/ Batch(p) = <<>>
  \/ Len(fetched) >= Len(estate.alerts)
  \/ Len(fetched) >= MaxAlerts

AlertsPage ==
  /\ pc = "alerts"
  /\ alerts' = alerts \o Batch(page)
  /\ IF Fetched(alerts', page)
     THEN pc' = "listed" /\ UNCHANGED page
     ELSE page' = page + 1 /\ UNCHANGED pc
  /\ UNCHANGED <<estate, health, series, failed, gaps, verdict, recommendations>>

\* After an error status the listing returns what it has, after an exception
\* nothing. Neither is noted as a gap.
AlertsFail ==
  /\ pc = "alerts"
  /\ alerts' \in {alerts, <<>>}
  /\ failed' = failed \cup {"alerts"}
  /\ pc' = "listed"
  /\ UNCHANGED <<estate, health, page, series, gaps, verdict, recommendations>>

\* Without any series at all there is a gap, too, but not when there are series
\* and no samples in them.
GetSeries ==
  /\ pc = "listed"
  /\ \/ /\ series' = estate.series
        /\ UNCHANGED <<failed, gaps>>
     \/ /\ estate.series = Nothing
        /\ gaps' = gaps \cup {"metrics"}
        /\ UNCHANGED <<series, failed>>
     \/ /\ failed' = failed \cup {"metrics"}
        /\ gaps' = gaps \cup {"metrics"}
        /\ UNCHANGED series
  /\ pc' = "report"
  /\ UNCHANGED <<estate, health, alerts, page, verdict, recommendations>>

Report ==
  /\ pc = "report"
  /\ verdict' = Rollup(health, LevelsOf(alerts), series)
  /\ recommendations' = Recommend(health, LevelsOf(alerts), series)
  /\ pc' = "reported"
  /\ UNCHANGED <<estate, health, alerts, page, series, failed, gaps>>

Next == Search \/ GetHealth \/ AlertsPage \/ AlertsFail \/ GetSeries \/ Report

Spec == Init /\ [][Next]_vars

-----------------------------------------------------------------------------
(* Properties                                                                *)

Verdicts == <<"OK", "WARNING", "CRITICAL">>
Badness(v) == CHOOSE i \in 1 .. 3 : Verdicts[i] = v

TypeOK ==
  /\ pc \in {"search", "no diagnosis", "health", "alerts", "listed", "report", "reported"}
  /\ health \in {estate.health, "unknown"}
  /\ alerts \in Seq(ToSet(estate.alerts))
  /\ page \in Nat
  /\ series \in {Nothing, estate.series}
  /\ gaps \subseteq failed \cup {"metrics"}
  /\ failed \subseteq {"health", "alerts", "metrics"}
  /\ verdict \in ToSet(Verdicts) \cup {"none"}

\* What is true of the resource by its health, alerts and thresholds.
IsCritical == estate.health = "RED" \/ LevelsOf(estate.alerts) \cap Critical # {}

IsSound ==
  /\ estate.health \notin Degraded
  /\ LevelsOf(estate.alerts) \cap (Critical \cup {"WARNING"}) = {}
  /\ \A k \in DOMAIN Threshold : \A i \in 1 .. Len(estate.series[k]) :
       estate.series[k][i] < Threshold[k]

TrueVerdict == IF IsCritical THEN "CRITICAL" ELSE IF IsSound THEN "OK" ELSE "WARNING"

\* The verdict is never worse than what is true, whatever was not fetched
\* ("never fabricate"), and is the truth when everything was, and no alert was
\* cut off (analysis.py:129-139, diagnose.py:54-82, vrops_client.py:853-907).
VerdictTrue == pc = "reported" =>
  /\ Badness(verdict) <= Badness(TrueVerdict)
  /\ (failed = {} /\ Len(estate.alerts) < MaxAlerts) => verdict = TrueVerdict

\* The recommendation that nothing is needed never comes with a verdict that
\* something is wrong: the two are worked out apart from the same facts
\* (analysis.py:94-139).
AdviceAgrees == (pc = "reported" /\ verdict # "OK") => "none needed" \notin recommendations

\* A series read backwards has the opposite trend, and one that never goes down
\* is never falling (analysis.py:33-54).
Opposite(t) == CASE t = "rising" -> "falling" [] t = "falling" -> "rising" [] OTHER -> t

TrendConsistent == \A k \in Metrics :
  LET s == estate.series[k]
  IN  /\ Trend(Reverse(s)) = Opposite(Trend(s))
      /\ (\A i \in 1 .. Len(s) - 1 : s[i] <= s[i + 1]) => Trend(s) # "falling"

\* Whatever could not be fetched is noted as a gap (the design document of the
\* diagnosis, 166-167).
GapsNoted == pc = "reported" => failed \subseteq gaps
=============================================================================

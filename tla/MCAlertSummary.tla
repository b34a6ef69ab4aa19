--------------------------- MODULE MCAlertSummary ---------------------------
(* The estates of MCDiagnosis, and every listing of up to three alerts, on   *)
(* two resources of which one may not be found, by level, name and time.     *)
EXTENDS MCDiagnosis, AlertSummary

\* A status and a resource go with each level, to keep the listings few.
Alert(i, level, name, start) ==
  [id |-> i, level |-> level, name |-> name, start |-> start,
   status |-> IF level = "WARNING" THEN "CANCELED" ELSE "ACTIVE",
   resource |-> CASE i = 2 -> "vm2" [] level = "UNKNOWN" -> NoResource [] OTHER -> "vm1"]

Listings ==
  UNION {{[i \in 1 .. n |-> Alert(i, levels[i], names[i], i % start)] :
             levels \in [1 .. n -> {"CRITICAL", "WARNING", "INFORMATION", "UNKNOWN"}],
             names \in [1 .. n -> {"cpu", "disk"}],
             start \in {1, 2, 4}} : n \in 0 .. 3}

MCToolEstates ==
  MCEstates \cup
  {[tool |-> "get alerts", health |-> "unknown", series |-> Of(<<>>, <<>>, <<>>),
    alerts |-> list, named |-> known] :
     list \in Listings, known \in {{"vm1", "vm2"}, {"vm2"}}}
=============================================================================

--------------------------- MODULE MCAlertWebhook ---------------------------
(* Requests for the alert webhook: two alerts are accepted and processed at  *)
(* the same time, a third is below the floor when there is one; or two       *)
(* alerts without an id.                                                     *)
EXTENDS AlertWebhook

CONSTANTS r1, r2, r3

\* A good request, and one that fails each check alone.
Good == [path |-> "expected", method |-> "POST", length |-> 2,
         token |-> "secret", body |-> "object"]
MCArrivals == {Good,
  [Good EXCEPT !.path = "other"], [Good EXCEPT !.method = "GET"],
  [Good EXCEPT !.length = 3], [Good EXCEPT !.token = ""],
  [Good EXCEPT !.length = 0, !.body = "broken"], [Good EXCEPT !.body = "list"]}

Running == [enabled |-> TRUE, token |-> "secret", channel |-> "alerts", floor |-> "warning"]
MCSettings == {Running, [Running EXCEPT !.floor = ""], [Running EXCEPT !.floor = "SEVERE"],
  [Running EXCEPT !.enabled = FALSE], [Running EXCEPT !.token = ""],
  [Running EXCEPT !.channel = ""]}

\* The template of the payload is the sender's: each names the fields in a way
\* of its own, and r2's has no level but a status.
MCPayload == [r \in Requests |->
  CASE r = r1 -> [alertId |-> "a1", id |-> "o1", criticality |-> "", alertLevel |-> "Warning"]
    [] r = r2 -> [alert_id |-> "a2", id |-> "o1", status |-> "UPDATED"]
    [] OTHER  -> [alertId |-> "", id |-> "a3", criticality |-> "INFORMATION", status |-> "NEW"]]

\* Templates without an id, or with an empty one.
MCNoIds == [r \in Requests |->
  CASE r = r1 -> [alertLevel |-> "Warning"]
    [] OTHER  -> [alertId |-> "", status |-> "UPDATED"]]

MCUpper == [v \in {"", "warning", "Warning", "UPDATED", "INFORMATION", "NEW", "SEVERE"} |->
  IF v \in {"warning", "Warning"} THEN "WARNING" ELSE v]
=============================================================================

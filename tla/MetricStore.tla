---------------------------- MODULE MetricStore ----------------------------
(***************************************************************************)
(* The Prometheus series of one operator process, metricStore/metrics.go:  *)
(* the run_failed gauge of every project.  The dependency_issues gauge is  *)
(* set and deleted with it and depends only on log text; the counter       *)
(* project_executions_total is never read by the operator.  Both are left  *)
(* out.                                                                    *)
(***************************************************************************)

GaugeValues == {"none", "ok", "failed"}

NoSeries == "none"

\* Defect: the gauge is set on failure and never cleared.
SetOnlyFailure(metrics, project, failed) ==
    IF failed THEN [metrics EXCEPT ![project] = "failed"] ELSE metrics

\* SetRunFailed for a run that ended.
SetRunFailed(metrics, project, failed) ==
    [metrics EXCEPT ![project] = IF failed THEN "failed" ELSE "ok"]

\* DeleteProjectMetrics for every project of the set.
DeleteProjectMetrics(metrics, removed) ==
    [p \in DOMAIN metrics |-> IF p \in removed THEN NoSeries ELSE metrics[p]]
============================================================================

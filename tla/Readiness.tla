----------------------------- MODULE Readiness -----------------------------
(***************************************************************************)
(* Health and readiness (services/health.py, api/v1/health.py): every      *)
(* dependency is probed at once, each within a timeout, and the required   *)
(* ones decide.                                                            *)
(* Left out: latencies, details, versions.                                 *)
(***************************************************************************)
EXTENDS Naturals, FiniteSets, FiniteSetsExt

CONSTANTS
    Dependency,  \* the probes: postgres, redis, qdrant, minio
    Timeout      \* probe_timeout_seconds

\* _run_probe: ends is "answers", "raises", or "hangs"; after is when.  What comes
\* at the deadline or later is a timeout.
Report(probe, required) ==
    [state |-> CASE probe.ends = "hangs" \/ probe.after >= Timeout -> "timeout"
                 [] probe.ends = "raises" /\ probe.after < Timeout -> "unavailable"
                 [] OTHER -> "ok",
     required |-> required]

Healthy(r) == r.state = "ok"

\* When the probe is done with.
Took(probe) ==
    IF probe.ends = "hangs" \/ probe.after >= Timeout THEN Timeout ELSE probe.after

\* check: gathered, so as long as the slowest; a required name that is no
\* dependency requires nothing.
Check(probes, required) ==
    LET reports == [d \in Dependency |-> Report(probes[d], d \in required)] IN
    [ready |-> \A d \in Dependency : reports[d].required => Healthy(reports[d]),
     dependencies |-> reports,
     took |-> IF Dependency = {} THEN 0 ELSE Max({Took(probes[d]) : d \in Dependency})]

FailingRequired(report) ==
    {d \in Dependency : report.dependencies[d].required /\ ~Healthy(report.dependencies[d])}

\* health, readiness: the body is the same either way.
Answer(report) ==
    [code |-> IF report.ready THEN 200 ELSE 503,
     status |-> IF report.ready THEN "ok" ELSE "degraded",
     dependencies |-> report.dependencies]

\* liveness: asks nobody.
Live == [code |-> 200, status |-> "alive"]
=============================================================================

----------------------------- MODULE Monitoring -----------------------------
(***************************************************************************)
(* The anomaly detector and the incidents it opens and resolves            *)
(* (services/anomaly-detector.service.ts, incident.service.ts,             *)
(* reliability.service.ts), the heartbeats it watches (utils/jobMonitor.ts *)
(* and the other reporters), and the incidents of critical security        *)
(* events (services/securityEvent.service.ts, threat-score.service.ts).    *)
(*                                                                         *)
(* setInterval starts a cycle whether or not the last one has ended, so    *)
(* cycles overlap; each call to the database is one step, and throws when  *)
(* the database is away.  Events that no code reads or resolves (a missed  *)
(* or slow job, a failure spike, a rate spike, a slow endpoint) are not    *)
(* kept.                                                                   *)
(***************************************************************************)
EXTENDS Naturals, Sequences, FiniteSets, FiniteSetsExt, SequencesExt

CONSTANTS
  Cycles,           \* cycles of the detector that can be under way at once
  Watched,          \* the components of ReliabilityComponent, a sequence
  Recorders,        \* calls of recordSecurityEvent that can be under way at once
  BaseScores,       \* scores of the types of security events
  Often, Persistent \* frequencies at which a score rises: 5 and 10 in 15 minutes

ASSUME MonitoringAssumption ==
  /\ Watched \in Seq(Range(Watched))
  /\ BaseScores \subseteq Nat
  /\ Often \in Nat /\ Persistent \in Nat /\ Often <= Persistent

Components == Range(Watched)

VARIABLES
  dbUp,
  phase, turn,   \* what a cycle does next, and which detector it is at
  open,          \* number of open rows of incident_events of each source
  events,        \* sources with an unresolved reliability event
  beat, old,     \* latest heartbeat of each component; older than the threshold?
  rates,         \* the newest row of exchange_rates: "none", "fresh" or "stale"
  spike,         \* are there 5xx answers in the window to the threshold's number?
  rstep, sev,    \* what a recorder does next, and the severity it has computed
  recent,        \* security events of the last 15 minutes, up to Persistent
  recorded       \* severities of the rows of security_events

detector == <<phase, turn, events>>
inputs == <<beat, old, rates, spike>>
security == <<rstep, sev, recent, recorded>>
vars == <<dbUp, detector, open, inputs, security>>

\* The detectors of runAnomalyDetectionCycle in their order; a detector is
\* named as the source of its incident.
Detectors ==
  <<"database_unavailable", "heartbeat_missing", "jobs", "transactions",
    "api_error_spike", "api_heartbeat">> \o Watched

Sources == {"database_unavailable", "heartbeat_missing", "api_error_spike",
            "security_critical_threat"} \cup Components
Phases == {"idle", "observe", "beat", "resolve", "settle", "failed", "event", "look", "insert"}
Severities == {"LOW", "MEDIUM", "HIGH", "CRITICAL"}

Init ==
  /\ dbUp = TRUE
  /\ phase = [d \in Cycles |-> "idle"] /\ turn = [d \in Cycles |-> 1]
  /\ open = [s \in Sources |-> 0]
  /\ events = {}
  /\ beat = [c \in Components |-> "none"] /\ old = [c \in Components |-> FALSE]
  /\ rates = "none" /\ spike = FALSE
  /\ rstep = [r \in Recorders |-> "idle"] /\ sev = [r \in Recorders |-> "LOW"]
  /\ recent = 0 /\ recorded = {}

-----------------------------------------------------------------------------
(* What the rows say.                                                      *)

\* As Status, but looking at what the heartbeat said before its age.
StatusOfLastWord(c) ==
  IF beat[c] = "failed" THEN "degraded"
  ELSE IF beat[c] = "none" \/ old[c] THEN "failed" ELSE beat[c]

\* getComponentStatus
Status(c) ==
  IF beat[c] = "none" \/ old[c] THEN "failed"
  ELSE IF beat[c] = "failed" THEN "degraded" ELSE beat[c]

\* detectMissingHeartbeats passes over a component that has never been seen.
Missing(c) == Status(c) = "failed" /\ beat[c] # "none"

Records(c, status) ==
  IF c \in Components
  THEN /\ beat' = [beat EXCEPT ![c] = status]
       /\ old' = [old EXCEPT ![c] = FALSE]
  ELSE UNCHANGED <<beat, old>>

-----------------------------------------------------------------------------
(* A cycle of the detector.                                                *)

At(d) == Detectors[turn[d]]

MovesTo(d, p) == phase' = [phase EXCEPT ![d] = p] /\ UNCHANGED turn

Aborts(d) ==
  /\ phase' = [phase EXCEPT ![d] = "idle"]
  /\ turn' = [turn EXCEPT ![d] = 1]

NextDetector(d) ==
  IF turn[d] = Len(Detectors) THEN Aborts(d)
  ELSE /\ phase' = [phase EXCEPT ![d] = "observe"]
       /\ turn' = [turn EXCEPT ![d] = @ + 1]

\* Only checkDatabaseConnectivity catches what its calls throw; any other
\* throw ends the cycle.
Throws(d) ==
  IF /\ At(d) = "database_unavailable"
     /\ phase[d] \in {"observe", "beat", "resolve", "settle"}
  THEN MovesTo(d, "failed")
  ELSE Aborts(d)

CycleStarts(d) ==
  /\ phase[d] = "idle"
  /\ MovesTo(d, "observe")
  /\ UNCHANGED <<dbUp, open, events, inputs, security>>

\* What detectFxAnomalies does about the rates it has read.
FxVerdict ==
  CASE rates = "stale" -> "event"
    [] rates = "fresh" -> "settle"
    [] OTHER -> "observe"

\* What detectApiAnomalies does about the errors.
ApiVerdict == IF spike THEN "event" ELSE "resolve"

\* What detectMissingHeartbeats does about a component.
HeartbeatVerdict(c) ==
  CASE Missing(c) -> "look"
    [] Status(c) = "ok" -> "resolve"
    [] OTHER -> "observe"

\* Where a detector goes from what it has read; "observe" is the next one.
Verdict(s) ==
  CASE s = "database_unavailable" -> "beat"
    [] s = "heartbeat_missing" -> FxVerdict
    [] s = "api_error_spike" -> ApiVerdict
    [] s \in Components -> HeartbeatVerdict(s)
    [] OTHER -> "observe"

\* The read of a detector.  Those of the jobs and of the transactions write
\* at most an event that is not kept; the heartbeat of the API is recorded
\* only if there were requests.
Observes(d) ==
  /\ phase[d] = "observe"
  /\ \/ ~dbUp /\ Throws(d)
     \/ /\ dbUp
        /\ \/ Verdict(At(d)) = "observe" /\ NextDetector(d)
           \/ Verdict(At(d)) # "observe" /\ MovesTo(d, Verdict(At(d)))
           \/ At(d) = "api_heartbeat" /\ MovesTo(d, "beat")
  /\ UNCHANGED <<dbUp, open, events, inputs, security>>

\* As RecordsOk, but resolving only after a failed heartbeat.
RecordsOkAfterFailure(d) ==
  /\ phase[d] = "beat" /\ At(d) = "database_unavailable"
  /\ \/ ~dbUp /\ Throws(d) /\ UNCHANGED <<beat, old>>
     \/ /\ dbUp
        /\ Records("database", "ok")
        /\ IF beat["database"] = "failed" THEN MovesTo(d, "resolve") ELSE NextDetector(d)
  /\ UNCHANGED <<dbUp, open, events, rates, spike, security>>

RecordsOk(d) ==
  /\ phase[d] = "beat" /\ At(d) = "database_unavailable"
  /\ \/ ~dbUp /\ Throws(d) /\ UNCHANGED <<beat, old>>
     \/ dbUp /\ Records("database", "ok") /\ MovesTo(d, "resolve")
  /\ UNCHANGED <<dbUp, open, events, rates, spike, security>>

RecordsApiHeartbeat(d) ==
  /\ phase[d] = "beat" /\ At(d) = "api_heartbeat"
  /\ \/ ~dbUp /\ Throws(d) /\ UNCHANGED <<beat, old>>
     \/ dbUp /\ Records("api", "ok") /\ NextDetector(d)
  /\ UNCHANGED <<dbUp, open, events, rates, spike, security>>

\* resolveIncidentBySource
Resolves(d) ==
  /\ phase[d] = "resolve"
  /\ \/ ~dbUp /\ Throws(d) /\ UNCHANGED open
     \/ /\ dbUp
        /\ open' = [open EXCEPT ![At(d)] = 0]
        /\ IF At(d) = "database_unavailable" THEN MovesTo(d, "settle") ELSE NextDetector(d)
  /\ UNCHANGED <<dbUp, events, inputs, security>>

\* resolveReliabilityEventsByType
Settles(d) ==
  /\ phase[d] = "settle"
  /\ \/ ~dbUp /\ Throws(d) /\ UNCHANGED events
     \/ dbUp /\ NextDetector(d) /\ events' = events \ {At(d)}
  /\ UNCHANGED <<dbUp, open, inputs, security>>

\* The catch block of checkDatabaseConnectivity begins with a heartbeat,
\* which needs the database that has just failed.
RecordsFailure(d) ==
  /\ phase[d] = "failed"
  /\ \/ ~dbUp /\ Throws(d) /\ UNCHANGED <<beat, old>>
     \/ dbUp /\ Records("database", "failed") /\ MovesTo(d, "event")
  /\ UNCHANGED <<dbUp, open, events, rates, spike, security>>

\* createReliabilityEvent
RecordsEvent(d) ==
  /\ phase[d] = "event"
  /\ \/ ~dbUp /\ Throws(d) /\ UNCHANGED events
     \/ dbUp /\ MovesTo(d, "look") /\ events' = events \cup ({At(d)} \ {"api_error_spike"})
  /\ UNCHANGED <<dbUp, open, inputs, security>>

\* createIncidentIfNeeded: a SELECT, ...
Looks(d) ==
  /\ phase[d] = "look"
  /\ \/ ~dbUp /\ Throws(d)
     \/ dbUp /\ open[At(d)] > 0 /\ NextDetector(d)
     \/ dbUp /\ open[At(d)] = 0 /\ MovesTo(d, "insert")
  /\ UNCHANGED <<dbUp, open, events, inputs, security>>

\* As Inserts, but without the unique index.
InsertsWithoutIndex(d) ==
  /\ phase[d] = "insert"
  /\ \/ ~dbUp /\ Throws(d) /\ UNCHANGED open
     \/ dbUp /\ open' = [open EXCEPT ![At(d)] = @ + 1] /\ NextDetector(d)
  /\ UNCHANGED <<dbUp, events, inputs, security>>

\* ... and an INSERT, which the unique index on the source of open incidents
\* refuses if another cycle has come first.
Inserts(d) ==
  /\ phase[d] = "insert"
  /\ \/ (~dbUp \/ open[At(d)] > 0) /\ Throws(d) /\ UNCHANGED open
     \/ /\ dbUp /\ open[At(d)] = 0
        /\ open' = [open EXCEPT ![At(d)] = 1]
        /\ NextDetector(d)
  /\ UNCHANGED <<dbUp, events, inputs, security>>

CycleMoves(d) ==
  \/ Observes(d) \/ RecordsOk(d) \/ RecordsApiHeartbeat(d) \/ Resolves(d)
  \/ Settles(d) \/ RecordsFailure(d) \/ RecordsEvent(d) \/ Looks(d) \/ Inserts(d)

-----------------------------------------------------------------------------
(* What the detector watches.                                              *)

\* A heartbeat of a component: a job that ends well or fails (runMonitoredJob;
\* all jobs report as background_jobs), a webhook, a sync of the rates.
Reports(c) ==
  /\ dbUp
  /\ \E status \in {"ok", "failed"} \cup (IF c = "fx_engine" THEN {"degraded"} ELSE {}) :
       Records(c, status)
  /\ UNCHANGED <<dbUp, detector, open, rates, spike, security>>

\* Time passes without a heartbeat.
Ages(c) ==
  /\ beat[c] # "none" /\ ~old[c]
  /\ old' = [old EXCEPT ![c] = TRUE]
  /\ UNCHANGED <<dbUp, detector, open, beat, rates, spike, security>>

RatesChange ==
  /\ \/ dbUp /\ rates' = "fresh"
     \/ rates = "fresh" /\ rates' = "stale"
  /\ UNCHANGED <<dbUp, detector, open, beat, old, spike, security>>

ErrorsChange == spike' = ~spike /\ UNCHANGED <<dbUp, detector, open, beat, old, rates, security>>

DatabaseChanges == dbUp' = ~dbUp /\ UNCHANGED <<detector, open, inputs, security>>

-----------------------------------------------------------------------------
(* Security events.                                                        *)

\* scoreSecurityEvent; isRepeatOffender is "Persistent" again.
Severity(base, frequency, isAdminRoute) ==
  LET score == base + (IF frequency >= Often THEN 20 ELSE 0)
                    + (IF frequency >= Persistent THEN 20 + 25 ELSE 0)
                    + (IF isAdminRoute THEN 15 ELSE 0)
  IN CASE score >= 80 -> "CRITICAL"
       [] score >= 60 -> "HIGH"
       [] score >= 35 -> "MEDIUM"
       [] OTHER -> "LOW"

StepsTo(r, to) == rstep' = [rstep EXCEPT ![r] = to]

\* recordSecurityEvent counts the recent events before it adds its own, so
\* calls that overlap count the same ones.  Without the database it does nothing.
Scores(r) ==
  /\ rstep[r] = "idle" /\ dbUp
  /\ \E base \in BaseScores, isAdminRoute \in BOOLEAN :
       sev' = [sev EXCEPT ![r] = Severity(base, recent, isAdminRoute)]
  /\ StepsTo(r, "row")
  /\ UNCHANGED <<dbUp, detector, open, inputs, recent, recorded>>

\* As WritesRow, but asking for an incident at the first critical row only.
ReportsFirstOnly(r) ==
  /\ rstep[r] = "row"
  /\ \/ ~dbUp /\ StepsTo(r, "idle") /\ UNCHANGED <<recent, recorded>>
     \/ /\ dbUp
        /\ recent' = Min({recent + 1, Persistent})
        /\ recorded' = recorded \cup {sev[r]}
        /\ StepsTo(r, IF sev[r] = "CRITICAL" /\ sev[r] \notin recorded THEN "look" ELSE "idle")
  /\ UNCHANGED <<dbUp, detector, open, inputs, sev>>

WritesRow(r) ==
  /\ rstep[r] = "row"
  /\ \/ ~dbUp /\ StepsTo(r, "idle") /\ UNCHANGED <<recent, recorded>>
     \/ /\ dbUp
        /\ recent' = Min({recent + 1, Persistent})
        /\ recorded' = recorded \cup {sev[r]}
        /\ StepsTo(r, IF sev[r] = "CRITICAL" THEN "look" ELSE "idle")
  /\ UNCHANGED <<dbUp, detector, open, inputs, sev>>

\* What createIncidentIfNeeded throws is caught and logged.
LooksForThreat(r) ==
  /\ rstep[r] = "look"
  /\ StepsTo(r, IF dbUp /\ open["security_critical_threat"] = 0 THEN "insert" ELSE "idle")
  /\ UNCHANGED <<dbUp, detector, open, inputs, sev, recent, recorded>>

InsertsThreat(r) ==
  /\ rstep[r] = "insert"
  /\ open' = IF dbUp /\ open["security_critical_threat"] = 0
             THEN [open EXCEPT !["security_critical_threat"] = 1] ELSE open
  /\ StepsTo(r, "idle")
  /\ UNCHANGED <<dbUp, detector, inputs, sev, recent, recorded>>

RecorderMoves(r) == WritesRow(r) \/ LooksForThreat(r) \/ InsertsThreat(r)

\* Events leave the window.
WindowPasses ==
  /\ \E n \in 0..Persistent : n < recent /\ recent' = n
  /\ UNCHANGED <<dbUp, detector, open, inputs, rstep, sev, recorded>>

-----------------------------------------------------------------------------

CyclesNext == \E d \in Cycles : CycleStarts(d) \/ CycleMoves(d)
RecordersNext == WindowPasses \/ \E r \in Recorders : Scores(r) \/ RecorderMoves(r)
ComponentsNext == \E c \in Components : Reports(c) \/ Ages(c)

Next == CyclesNext \/ RecordersNext \/ ComponentsNext \/ RatesChange \/ ErrorsChange \/ DatabaseChanges

Spec == Init /\ [][Next]_vars

\* setInterval starts the cycle again, and every call to the database returns
\* or throws (jobs/anomalyDetectionJob.ts).
Fairness ==
  /\ \A d \in Cycles : WF_vars(CycleStarts(d) \/ CycleMoves(d))
  /\ \A r \in Recorders : WF_vars(RecorderMoves(r))

FairSpec == Spec /\ Fairness

-----------------------------------------------------------------------------
(* Properties.                                                             *)

\* Every variable keeps its type.  A source has at most one open incident,
\* however many cycles and recorders look for one at once
\* (incident.service.ts, createIncidentIfNeeded), and a cycle is in the catch
\* block only while it is at the check of the database.
TypeOK ==
  /\ dbUp \in BOOLEAN
  /\ phase \in [Cycles -> Phases] /\ turn \in [Cycles -> 1..Len(Detectors)]
  /\ \A d \in Cycles : phase[d] = "failed" => At(d) = "database_unavailable"
  /\ open \in [Sources -> {0, 1}] /\ events \subseteq Sources
  /\ beat \in [Components -> {"none", "ok", "degraded", "failed"}]
  /\ old \in [Components -> BOOLEAN]
  /\ rates \in {"none", "fresh", "stale"} /\ spike \in BOOLEAN
  /\ rstep \in [Recorders -> {"idle", "row", "look", "insert"}]
  /\ sev \in [Recorders -> Severities]
  /\ recent \in 0..Persistent /\ recorded \subseteq Severities

\* A component that falls silent gets an incident that stays open, if the
\* database answers from some time on: aborted and overlapping cycles delay
\* it only (anomaly-detector.service.ts, detectMissingHeartbeats).
SilenceIsReported ==
  \A c \in Components : (<>[]dbUp /\ <>[](beat[c] # "none" /\ old[c])) => <>[](open[c] = 1)

\* What is over is resolved: with the database back its own incident and
\* event, with good heartbeats those of the components, and without errors
\* that of the API end up resolved, though a cycle that saw the failure may
\* still open them after one that saw its end (resolveIncidentBySource).
WhatIsOverIsResolved ==
  <>[]dbUp =>
    /\ <>[](open["database_unavailable"] = 0 /\ "database_unavailable" \notin events)
    /\ \A c \in Components : <>[](Status(c) = "ok") => <>[](open[c] = 0)
    /\ <>[]~spike => <>[](open["api_error_spike"] = 0)

\* A critical threat that goes on has an incident in the end: a single event
\* may lose it, for what fails after its row is written is only logged
\* (securityEvent.service.ts, recordSecurityEvent).
ThreatIsReported ==
  (<>[]dbUp /\ []<>(\E r \in Recorders : rstep[r] = "row" /\ sev[r] = "CRITICAL"))
    => <>[](open["security_critical_threat"] = 1)
=============================================================================

----------------------------- MODULE Telemetry -----------------------------
(***************************************************************************)
(* What the process keeps in its memory before it reaches the database:    *)
(* the count of consecutive failures of the exchange rate sync             *)
(* (jobs/fx-rate-sync.worker.ts and recordFxSyncResult in                  *)
(* services/anomaly-detector.service.ts), and the response times that      *)
(* middleware/requestMetricsMiddleware.ts collects.  The process can stop  *)
(* at any step, and the database and the rate provider come and go.        *)
(*                                                                         *)
(* setInterval starts a sync or a flush whether or not the last one has    *)
(* ended, so several are under way at once.  Every call to the database    *)
(* is one step, for the process runs other callbacks while it awaits it.   *)
(***************************************************************************)
EXTENDS Naturals, FiniteSets, FiniteSetsExt

CONSTANTS
  Syncs,       \* runs of syncFxRates that can be under way at once
  Threshold,   \* FX_SYNC_FAILURE_INCIDENT_THRESHOLD
  Responses,   \* responses the process will have sent
  Flushes,     \* runs of flushMetrics that can be under way at once
  MaxCrashes   \* bound: how often the process stops

ASSUME TelemetryAssumption ==
  /\ Threshold \in Nat \ {0}
  /\ MaxCrashes \in Nat

VARIABLES
  dbUp, fxUp, hasKey,  \* the database, the provider, and FX_API_KEY in the environment
  failures,            \* fxConsecutiveFailures
  step, guarded,       \* what a sync does next, and whether a throw there is caught
  beat,                \* status of the latest fx_engine row of reliability_heartbeats
  events,              \* is an fx_sync_failure event unresolved?
  open,                \* is an fx_sync_consecutive_failure incident open?
  unsent, pending, batch, stored,  \* responses to send, and the metrics of those sent
  crashes

world == <<dbUp, fxUp, hasKey>>
sync == <<failures, step, guarded, beat, events, open>>
metrics == <<unsent, pending, batch, stored>>
vars == <<world, sync, metrics, crashes>>

Steps == {"idle", "connect", "write", "resolve", "settle", "ok", "event",
          "look", "insert", "failed", "degraded"}
Beats == {"none", "ok", "failed", "degraded"}

NoSyncs == [s \in Syncs |-> "idle"]
NoGuards == [s \in Syncs |-> FALSE]
NoBatches == [f \in Flushes |-> {}]

Init ==
  /\ dbUp = TRUE /\ fxUp \in BOOLEAN /\ hasKey \in BOOLEAN
  /\ failures = 0 /\ step = NoSyncs /\ guarded = NoGuards
  /\ pending = {} /\ batch = NoBatches
  /\ beat = "none" /\ events = FALSE /\ open = FALSE
  /\ unsent = Responses
  /\ stored = [m \in Responses |-> 0]
  /\ crashes = 0

-----------------------------------------------------------------------------
(* The exchange rate sync.                                                 *)

Goes(s, to) == step' = [step EXCEPT ![s] = to]
Guards(s, g) == guarded' = [guarded EXCEPT ![s] = g]

\* recordFxSyncResult(false): the counter moves before the first await.  It is
\* kept up to Threshold + 1: beyond, nothing depends on it.
Counts(s, g) ==
  /\ failures' = Min({failures + 1, Threshold + 1})
  /\ Goes(s, "event") /\ Guards(s, g)

\* A throw inside the try block goes to its catch, which counts a failure;
\* any other throw ends the sync.
Throws(s) ==
  \/ /\ guarded[s]
     /\ Counts(s, FALSE)
  \/ /\ ~guarded[s]
     /\ Goes(s, "idle")
     /\ UNCHANGED <<failures, guarded>>

\* A call to the database moves the sync on, or throws.
Calls(s, at, to) ==
  /\ step[s] = at
  /\ \/ dbUp /\ Goes(s, to) /\ Guards(s, guarded[s] /\ to # "idle") /\ UNCHANGED failures
     \/ ~dbUp /\ Throws(s)
  /\ UNCHANGED <<world, metrics, crashes>>

SkipsWithoutKey(s) ==
  /\ step[s] = "idle" /\ ~hasKey
  /\ Goes(s, "degraded")
  /\ UNCHANGED <<world, failures, guarded, beat, events, open, metrics, crashes>>

\* An HTTP status that is not ok is reported inside the try block (a throw of
\* the report counts the same sync again); a network error and an answer
\* without the naira rate are reported outside it.
FetchFails(s) ==
  /\ step[s] = "idle" /\ hasKey /\ ~fxUp
  /\ \E inTry \in BOOLEAN : Counts(s, inTry)
  /\ UNCHANGED <<world, beat, events, open, metrics, crashes>>

\* As FetchSucceeds, but with qr.connect() inside the try block.
ConnectsInTry(s) ==
  /\ step[s] = "idle" /\ hasKey /\ fxUp
  /\ Goes(s, "connect") /\ Guards(s, TRUE)
  /\ UNCHANGED <<world, failures, beat, events, open, metrics, crashes>>

FetchSucceeds(s) ==
  /\ step[s] = "idle" /\ hasKey /\ fxUp
  /\ Goes(s, "connect") /\ Guards(s, FALSE)
  /\ UNCHANGED <<world, failures, beat, events, open, metrics, crashes>>

\* qr.connect() stands before the try block: when it throws nothing is counted.
Connects(s) ==
  /\ step[s] = "connect"
  /\ \/ dbUp /\ Goes(s, "write") /\ Guards(s, TRUE)
     \/ ~dbUp /\ Goes(s, "idle") /\ UNCHANGED guarded
  /\ UNCHANGED <<world, failures, beat, events, open, metrics, crashes>>

\* As WritesRates, but resolving only what this process has counted.
ResolvesIfCounted(s) ==
  /\ step[s] = "write"
  /\ \/ /\ dbUp
        /\ failures' = 0
        /\ Goes(s, IF failures > 0 THEN "resolve" ELSE "ok")
        /\ UNCHANGED guarded
     \/ ~dbUp /\ Throws(s)
  /\ UNCHANGED <<world, beat, events, open, metrics, crashes>>

\* The rows of exchange_rates, which nothing here reads, are written one pair
\* after the other.  Then the counter starts again.
WritesRates(s) ==
  /\ step[s] = "write"
  /\ \/ dbUp /\ failures' = 0 /\ Goes(s, "resolve") /\ UNCHANGED guarded
     \/ ~dbUp /\ Throws(s)
  /\ UNCHANGED <<world, beat, events, open, metrics, crashes>>

ResolvesIncident(s) ==
  /\ Calls(s, "resolve", "settle")
  /\ open' = (open /\ ~dbUp)
  /\ UNCHANGED <<beat, events>>

ResolvesEvents(s) ==
  /\ Calls(s, "settle", "ok")
  /\ events' = (events /\ ~dbUp)
  /\ UNCHANGED <<beat, open>>

\* The heartbeat that ends a sync.
RecordsHeartbeat(s, status) ==
  /\ Calls(s, status, "idle")
  /\ beat' = IF dbUp THEN status ELSE beat
  /\ UNCHANGED <<events, open>>

\* As RecordsEvent, but asking for the incident at the threshold only.
OpensAtThresholdOnly(s) ==
  /\ Calls(s, "event", IF failures = Threshold THEN "look" ELSE "failed")
  /\ events' = (events \/ dbUp)
  /\ UNCHANGED <<beat, open>>

\* The event of a failure; the counter is read again after the await.
RecordsEvent(s) ==
  /\ Calls(s, "event", IF failures >= Threshold THEN "look" ELSE "failed")
  /\ events' = (events \/ dbUp)
  /\ UNCHANGED <<beat, open>>

\* createIncidentIfNeeded looks for an open incident of the source, ...
LooksForIncident(s) ==
  /\ Calls(s, "look", IF open THEN "failed" ELSE "insert")
  /\ UNCHANGED <<beat, events, open>>

\* ... and inserts one.  The unique index on the source of open incidents
\* makes the INSERT throw when another sync opened it in between.
OpensIncident(s) ==
  /\ step[s] = "insert"
  /\ \/ /\ dbUp /\ ~open
        /\ open' = TRUE
        /\ Goes(s, "failed")
        /\ UNCHANGED <<failures, guarded>>
     \/ /\ ~dbUp \/ open
        /\ Throws(s)
        /\ UNCHANGED open
  /\ UNCHANGED <<world, beat, events, metrics, crashes>>

SyncStarts(s) == SkipsWithoutKey(s) \/ FetchFails(s) \/ FetchSucceeds(s)
SyncMoves(s) ==
  \/ Connects(s) \/ WritesRates(s)
  \/ ResolvesIncident(s) \/ ResolvesEvents(s)
  \/ RecordsEvent(s) \/ LooksForIncident(s) \/ OpensIncident(s)
  \/ \E status \in {"ok", "failed", "degraded"} : RecordsHeartbeat(s, status)

-----------------------------------------------------------------------------
(* The metrics of responses.                                               *)

\* The "finish" event of a response.  checkEndpointLatency is not awaited: for
\* a slow response it writes an event, whose row nothing here reads.
Responds(m) ==
  /\ m \in unsent
  /\ unsent' = unsent \ {m}
  /\ pending' = pending \cup {m}
  /\ UNCHANGED <<world, sync, batch, stored, crashes>>

\* As TakesBatch, but leaving the metrics in the list until they are stored.
CopiesBatch(f) ==
  /\ batch[f] = {} /\ pending # {}
  /\ batch' = [batch EXCEPT ![f] = pending]
  /\ UNCHANGED <<world, sync, unsent, pending, stored, crashes>>

\* flushMetrics takes all of pendingMetrics in one go.
TakesBatch(f) ==
  /\ batch[f] = {} /\ pending # {}
  /\ batch' = [batch EXCEPT ![f] = pending]
  /\ pending' = {}
  /\ UNCHANGED <<world, sync, unsent, stored, crashes>>

\* recordApiMetric of the batch's next metric; a failure is ignored, and loses it.
StoresNext(f) ==
  /\ \E m \in batch[f] :
       /\ batch' = [batch EXCEPT ![f] = @ \ {m}]
       /\ stored' = IF dbUp THEN [stored EXCEPT ![m] = @ + 1] ELSE stored
  /\ UNCHANGED <<world, sync, unsent, pending, crashes>>

\* purgeOldApiMetrics: a metric older than the retention is deleted.
PurgeOldApiMetrics ==
  /\ dbUp
  /\ \E old \in SUBSET {m \in Responses : stored[m] > 0} :
       /\ old # {}
       /\ stored' = [m \in Responses |-> IF m \in old THEN 0 ELSE stored[m]]
  /\ UNCHANGED <<world, sync, unsent, pending, batch, crashes>>

-----------------------------------------------------------------------------
(* The environment.                                                        *)

DatabaseChanges == dbUp' = ~dbUp /\ UNCHANGED <<fxUp, hasKey, sync, metrics, crashes>>
ProviderChanges == fxUp' = ~fxUp /\ UNCHANGED <<dbUp, hasKey, sync, metrics, crashes>>

\* The process stops and starts again.  Besides a deployment or a kill, it is
\* what the event of a slow response does when its INSERT fails: nothing
\* handles that rejection.
Crash ==
  /\ crashes < MaxCrashes
  /\ crashes' = crashes + 1
  /\ failures' = 0 /\ step' = NoSyncs /\ guarded' = NoGuards
  /\ pending' = {} /\ batch' = NoBatches
  /\ UNCHANGED <<world, beat, events, open, unsent, stored>>

Next ==
  \/ \E s \in Syncs : SyncStarts(s) \/ SyncMoves(s)
  \/ \E m \in Responses : Responds(m)
  \/ \E f \in Flushes : TakesBatch(f) \/ StoresNext(f)
  \/ PurgeOldApiMetrics
  \/ DatabaseChanges \/ ProviderChanges \/ Crash

Spec == Init /\ [][Next]_vars

\* setInterval starts every sync and flush again (fx-rate-sync.queue.ts, the
\* flush timer), and a call to the database returns or throws.
Fairness ==
  /\ \A s \in Syncs : WF_vars(SyncStarts(s)) /\ WF_vars(SyncMoves(s))
  /\ \A f \in Flushes : WF_vars(TakesBatch(f)) /\ WF_vars(StoresNext(f))

FairSpec == Spec /\ Fairness

-----------------------------------------------------------------------------
(* Properties.                                                             *)

\* Every variable keeps its type, and no throw of qr.connect() is caught.
TypeOK ==
  /\ dbUp \in BOOLEAN /\ fxUp \in BOOLEAN /\ hasKey \in BOOLEAN
  /\ failures \in 0..(Threshold + 1)
  /\ step \in [Syncs -> Steps] /\ guarded \in [Syncs -> BOOLEAN]
  /\ \A s \in Syncs : guarded[s] => step[s] \notin {"idle", "connect"}
  /\ beat \in Beats
  /\ events \in BOOLEAN /\ open \in BOOLEAN
  /\ unsent \subseteq Responses /\ pending \subseteq Responses
  /\ batch \in [Flushes -> SUBSET Responses]
  /\ stored \in [Responses -> Nat]
  /\ crashes \in 0..MaxCrashes

\* A response has at most one row in api_request_metrics, however the flush
\* timer and the maintenance job overlap and wherever the process stops
\* (requestMetricsMiddleware.ts, flushMetrics): the row may be lost, but it
\* is never written twice, so the error spike of the detector is no artefact.
Copies(m) ==
  stored[m] + Cardinality({f \in Flushes : m \in batch[f]}) + (IF m \in pending THEN 1 ELSE 0)
MetricStoredOnce == \A m \in Responses : Copies(m) <= (IF m \in unsent THEN 0 ELSE 1)

\* When the provider stays away while the database answers, the incident of
\* consecutive failures is opened and stays open, and the heartbeat of the
\* exchange rates says failed, though a restart of the process forgets the
\* count and overlapping syncs share it
\* (anomaly-detector.service.ts, recordFxSyncResult).
OutageIsReported == (hasKey /\ <>[]~fxUp /\ <>[]dbUp) => <>[](open /\ beat = "failed")

\* When the provider is back and the database answers, the incident ends up
\* resolved and stays so, with a good heartbeat, though a sync that failed
\* earlier may open it after a later one succeeded, and though a restart may
\* lie in between (anomaly-detector.service.ts, recordFxSyncResult).
RecoveryCloses == (hasKey /\ <>[]fxUp /\ <>[]dbUp) => <>[](~open /\ beat = "ok")
=============================================================================

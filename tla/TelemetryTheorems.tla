------------------------- MODULE TelemetryTheorems --------------------------
(***************************************************************************)
(* Proofs about Telemetry: its types, and that a metric is stored at most  *)
(* once, however flushes overlap and wherever the process stops.           *)
(***************************************************************************)
EXTENDS Telemetry, FiniteSetTheorems, SequenceTheorems, TLAPS

-----------------------------------------------------------------------------
\* The counter of failures stays below its bound.
LEMMA CountBounded ==
  ASSUME TypeOK
  PROVE  Min({failures + 1, Threshold + 1}) \in 0 .. Threshold + 1
  <1> DEFINE a == failures + 1
             b == Threshold + 1
  <1>1. a \in 0 .. Threshold + 2 /\ b \in Nat /\ a \in Nat
    BY TelemetryAssumption DEF TypeOK
  <1> HIDE DEF a, b
  <1>2. \E x \in {a, b} : \A y \in {a, b} : x <= y
    BY <1>1
  <1>3. /\ Min({a, b}) \in {a, b}
        /\ \A y \in {a, b} : Min({a, b}) <= y
    BY <1>2 DEF Min
  <1>4. Min({a, b}) \in Nat /\ Min({a, b}) <= b
    BY <1>1, <1>3
  <1> QED
    BY <1>4, TelemetryAssumption DEF a, b

\* What a step of a sync does to the sync.
LEMMA SyncKeepsTypes ==
  ASSUME TypeOK, NEW s \in Syncs, NEW to \in Steps, NEW g \in BOOLEAN,
         step' = [step EXCEPT ![s] = to], guarded' = [guarded EXCEPT ![s] = g],
         g => to \notin {"idle", "connect"},
         failures' \in 0 .. Threshold + 1,
         beat' \in Beats, events' \in BOOLEAN, open' \in BOOLEAN,
         UNCHANGED <<world, metrics, crashes>>
  PROVE  TypeOK'
  <1>1. step' \in [Syncs -> Steps] /\ guarded' \in [Syncs -> BOOLEAN]
    BY DEF TypeOK
  <1>2. ASSUME NEW u \in Syncs, guarded'[u] PROVE step'[u] \notin {"idle", "connect"}
    <2>1. CASE u = s
      BY <1>2, <2>1 DEF TypeOK
    <2>2. CASE u # s
      BY <1>2, <2>2 DEF TypeOK
    <2> QED
      BY <2>1, <2>2
  <1> QED
    BY <1>1, <1>2 DEF TypeOK, world, metrics

\* A guard that is left as it is.
LEMMA GuardAsItIs ==
  ASSUME TypeOK, NEW s \in Syncs, UNCHANGED guarded
  PROVE  guarded' = [guarded EXCEPT ![s] = guarded[s]] /\ guarded[s] \in BOOLEAN
  BY DEF TypeOK

\* A throw ends a sync or counts a failure.
LEMMA ThrowTypes ==
  ASSUME TypeOK, NEW s \in Syncs, Throws(s)
  PROVE  /\ failures' \in 0 .. Threshold + 1
         /\ guarded' = [guarded EXCEPT ![s] = FALSE]
         /\ \E to \in Steps : step' = [step EXCEPT ![s] = to]
  <1>1. CASE guarded[s] /\ Counts(s, FALSE)
    BY <1>1, CountBounded DEF Counts, Goes, Guards, Steps
  <1>2. CASE ~guarded[s] /\ Goes(s, "idle") /\ UNCHANGED <<failures, guarded>>
    <2>1. guarded[s] = FALSE
      BY <1>2 DEF TypeOK
    <2>2. guarded' = [guarded EXCEPT ![s] = FALSE]
      BY <1>2, <2>1, GuardAsItIs
    <2>3. failures' \in 0 .. Threshold + 1
      BY <1>2 DEF TypeOK
    <2> QED
      BY <1>2, <2>2, <2>3 DEF Goes, Steps
  <1> QED
    BY <1>1, <1>2 DEF Throws

\* A call to the database that returns or throws.
LEMMA CallTypes ==
  ASSUME TypeOK, NEW s \in Syncs, NEW at \in Steps, NEW to \in Steps, Calls(s, at, to),
         at \notin {"idle", "connect"}, to # "connect",
         beat' \in Beats, events' \in BOOLEAN, open' \in BOOLEAN
  PROVE  TypeOK'
  <1>1. UNCHANGED <<world, metrics, crashes>> /\ step[s] = at
    BY DEF Calls
  <1>2. CASE dbUp /\ Goes(s, to) /\ Guards(s, guarded[s] /\ to # "idle") /\ UNCHANGED failures
    <2> DEFINE g == guarded[s] /\ to # "idle"
    <2>1. g \in BOOLEAN /\ (g => to \notin {"idle", "connect"})
      OBVIOUS
    <2>2. guarded' = [guarded EXCEPT ![s] = g] /\ step' = [step EXCEPT ![s] = to]
      BY <1>2 DEF Guards, Goes
    <2>3. failures' \in 0 .. Threshold + 1
      BY <1>2 DEF TypeOK
    <2> HIDE DEF g
    <2> QED
      BY <1>1, <2>1, <2>2, <2>3, SyncKeepsTypes
  <1>3. CASE ~dbUp /\ Throws(s)
    BY <1>1, <1>3, ThrowTypes, SyncKeepsTypes
  <1> QED
    BY <1>2, <1>3 DEF Calls

\* The first step of a sync.
LEMMA StartTypes ==
  ASSUME TypeOK, NEW s \in Syncs, SyncStarts(s)
  PROVE  TypeOK'
  <1> DEFINE rest == <<beat, events, open>>
  <1>1. CASE SkipsWithoutKey(s)
    <2>1. guarded' = [guarded EXCEPT ![s] = guarded[s]] /\ guarded[s] \in BOOLEAN
      BY <1>1, GuardAsItIs DEF SkipsWithoutKey
    <2>2. guarded[s] = FALSE
      BY <1>1, <2>1 DEF SkipsWithoutKey, TypeOK
    <2>3. step' = [step EXCEPT ![s] = "degraded"] /\ "degraded" \in Steps
      BY <1>1 DEF SkipsWithoutKey, Goes, Steps
    <2>4. /\ UNCHANGED <<world, metrics, crashes>> /\ failures' \in 0 .. Threshold + 1
          /\ beat' \in Beats /\ events' \in BOOLEAN /\ open' \in BOOLEAN
      BY <1>1 DEF SkipsWithoutKey, TypeOK
    <2> QED
      BY <2>1, <2>2, <2>3, <2>4, SyncKeepsTypes
  <1>2. CASE FetchFails(s)
    <2>1. PICK inTry \in BOOLEAN : Counts(s, inTry)
      BY <1>2 DEF FetchFails
    <2>2. /\ step' = [step EXCEPT ![s] = "event"] /\ "event" \in Steps
          /\ guarded' = [guarded EXCEPT ![s] = inTry]
          /\ failures' \in 0 .. Threshold + 1
      BY <2>1, CountBounded DEF Counts, Goes, Guards, Steps
    <2>3. /\ UNCHANGED <<world, metrics, crashes>>
          /\ beat' \in Beats /\ events' \in BOOLEAN /\ open' \in BOOLEAN
      BY <1>2 DEF FetchFails, TypeOK
    <2> QED
      BY <2>2, <2>3, SyncKeepsTypes
  <1>3. CASE FetchSucceeds(s)
    <2>1. /\ step' = [step EXCEPT ![s] = "connect"] /\ "connect" \in Steps
          /\ guarded' = [guarded EXCEPT ![s] = FALSE]
          /\ UNCHANGED <<world, metrics, crashes>> /\ failures' \in 0 .. Threshold + 1
          /\ beat' \in Beats /\ events' \in BOOLEAN /\ open' \in BOOLEAN
      BY <1>3 DEF FetchSucceeds, TypeOK, Goes, Guards, Steps
    <2> QED
      BY <2>1, SyncKeepsTypes
  <1> QED
    BY <1>1, <1>2, <1>3 DEF SyncStarts

\* The other steps of a sync.
LEMMA MoveTypes ==
  ASSUME TypeOK, NEW s \in Syncs, SyncMoves(s)
  PROVE  TypeOK'
  <1>0. beat \in Beats /\ events \in BOOLEAN /\ open \in BOOLEAN /\ dbUp \in BOOLEAN
        /\ failures \in 0 .. Threshold + 1
    BY DEF TypeOK
  <1>1. CASE Connects(s)
    <2>1. /\ UNCHANGED <<world, failures, beat, events, open, metrics, crashes>>
          /\ step[s] = "connect"
      BY <1>1 DEF Connects
    <2>2. CASE Goes(s, "write") /\ Guards(s, TRUE)
      BY <1>0, <2>1, <2>2, SyncKeepsTypes DEF Goes, Guards, Steps
    <2>3. CASE Goes(s, "idle") /\ UNCHANGED guarded
      <3>1. guarded' = [guarded EXCEPT ![s] = guarded[s]] /\ guarded[s] = FALSE
        BY <2>1, <2>3, GuardAsItIs DEF TypeOK
      <3>2. step' = [step EXCEPT ![s] = "idle"] /\ "idle" \in Steps
        BY <2>3 DEF Goes, Steps
      <3> QED
        BY <1>0, <2>1, <3>1, <3>2, SyncKeepsTypes
    <2> QED
      BY <1>1, <2>2, <2>3 DEF Connects
  <1>2. CASE WritesRates(s)
    <2>1. UNCHANGED <<world, beat, events, open, metrics, crashes>>
      BY <1>2 DEF WritesRates
    <2>2. CASE failures' = 0 /\ Goes(s, "resolve") /\ UNCHANGED guarded
      <3>1. guarded' = [guarded EXCEPT ![s] = guarded[s]] /\ guarded[s] \in BOOLEAN
        BY <2>2, GuardAsItIs
      <3>2. step' = [step EXCEPT ![s] = "resolve"] /\ "resolve" \in Steps
            /\ failures' \in 0 .. Threshold + 1
        BY <2>2, TelemetryAssumption DEF Goes, Steps
      <3> QED
        BY <1>0, <2>1, <3>1, <3>2, SyncKeepsTypes
    <2>3. CASE Throws(s)
      BY <1>0, <2>1, <2>3, ThrowTypes, SyncKeepsTypes
    <2> QED
      BY <1>2, <2>2, <2>3 DEF WritesRates
  <1>3. CASE ResolvesIncident(s)
    BY <1>0, <1>3, CallTypes DEF ResolvesIncident, Steps
  <1>4. CASE ResolvesEvents(s)
    BY <1>0, <1>4, CallTypes DEF ResolvesEvents, Steps
  <1>5. CASE RecordsEvent(s)
    <2> DEFINE to == IF failures >= Threshold THEN "look" ELSE "failed"
    <2>1. to \in Steps /\ to # "connect" /\ "event" \in Steps
      BY DEF Steps
    <2>2. Calls(s, "event", to) /\ events' = (events \/ dbUp) /\ beat' = beat /\ open' = open
      BY <1>5 DEF RecordsEvent
    <2> HIDE DEF to
    <2> QED
      BY <1>0, <2>1, <2>2, CallTypes
  <1>6. CASE LooksForIncident(s)
    <2> DEFINE to == IF open THEN "failed" ELSE "insert"
    <2>1. to \in Steps /\ to # "connect" /\ "look" \in Steps
      BY DEF Steps
    <2>2. Calls(s, "look", to) /\ UNCHANGED <<beat, events, open>>
      BY <1>6 DEF LooksForIncident
    <2> HIDE DEF to
    <2> QED
      BY <1>0, <2>1, <2>2, CallTypes
  <1>7. CASE OpensIncident(s)
    <2>1. /\ UNCHANGED <<world, beat, events, metrics, crashes>> /\ step[s] = "insert"
      BY <1>7 DEF OpensIncident
    <2>2. CASE open' = TRUE /\ Goes(s, "failed") /\ UNCHANGED <<failures, guarded>>
      <3>1. guarded' = [guarded EXCEPT ![s] = guarded[s]] /\ guarded[s] \in BOOLEAN
        BY <2>2, GuardAsItIs
      <3>2. step' = [step EXCEPT ![s] = "failed"] /\ "failed" \in Steps
        BY <2>2 DEF Goes, Steps
      <3> QED
        BY <1>0, <2>1, <2>2, <3>1, <3>2, SyncKeepsTypes
    <2>3. CASE Throws(s) /\ UNCHANGED open
      BY <1>0, <2>1, <2>3, ThrowTypes, SyncKeepsTypes
    <2> QED
      BY <1>7, <2>2, <2>3 DEF OpensIncident
  <1>8. ASSUME NEW status \in {"ok", "failed", "degraded"}, RecordsHeartbeat(s, status)
        PROVE  TypeOK'
    <2>1. status \in Steps /\ status \notin {"idle", "connect"} /\ "idle" \in Steps
          /\ status \in Beats
      BY DEF Steps, Beats
    <2>2. Calls(s, status, "idle") /\ beat' \in Beats /\ UNCHANGED <<events, open>>
      BY <1>0, <1>8, <2>1 DEF RecordsHeartbeat
    <2> QED
      BY <1>0, <2>1, <2>2, CallTypes
  <1> QED
    BY <1>1, <1>2, <1>3, <1>4, <1>5, <1>6, <1>7, <1>8 DEF SyncMoves

\* A metric is in one place at most: not there yet, waiting, in one batch, or
\* stored once.
Whereabouts ==
  \A m \in Responses :
    /\ stored[m] \in {0, 1}
    /\ m \in unsent => m \notin pending
    /\ m \in unsent \cup pending => stored[m] = 0 /\ \A f \in Flushes : m \notin batch[f]
    /\ \A f \in Flushes : m \in batch[f] => stored[m] = 0
    /\ \A f, g \in Flushes : m \in batch[f] /\ m \in batch[g] => f = g

\* A step of the metrics alone keeps the types.
LEMMA MetricTypes ==
  ASSUME TypeOK, UNCHANGED <<world, sync, crashes>>,
         unsent' \subseteq Responses, pending' \subseteq Responses,
         batch' \in [Flushes -> SUBSET Responses], stored' \in [Responses -> Nat]
  PROVE  TypeOK'
  BY DEF TypeOK, world, sync

\* A response puts its metric into the list.
LEMMA RespondsKeeps ==
  ASSUME TypeOK, Whereabouts, NEW m \in Responses, Responds(m)
  PROVE  TypeOK' /\ Whereabouts'
  <1>1. /\ m \in unsent /\ unsent' = unsent \ {m} /\ pending' = pending \cup {m}
        /\ batch' = batch /\ stored' = stored /\ UNCHANGED <<world, sync, crashes>>
    BY DEF Responds
  <1>2. TypeOK'
    BY <1>1, MetricTypes DEF TypeOK
  <1>3. Whereabouts'
    BY <1>1 DEF Whereabouts
  <1> QED
    BY <1>2, <1>3

\* A flush takes all that is in the list, so nobody else can.
LEMMA TakesBatchKeeps ==
  ASSUME TypeOK, Whereabouts, NEW f \in Flushes, TakesBatch(f)
  PROVE  TypeOK' /\ Whereabouts'
  <1>1. /\ batch[f] = {} /\ batch' = [batch EXCEPT ![f] = pending] /\ pending' = {}
        /\ unsent' = unsent /\ stored' = stored /\ UNCHANGED <<world, sync, crashes>>
    BY DEF TakesBatch
  <1>2. TypeOK'
    BY <1>1, MetricTypes DEF TypeOK
  <1>3. \A g \in Flushes : batch'[g] = IF g = f THEN pending ELSE batch[g]
    BY <1>1 DEF TypeOK
  <1>4. Whereabouts'
    BY <1>1, <1>3 DEF Whereabouts
  <1> QED
    BY <1>2, <1>4

\* A flush stores what it has taken, once.
LEMMA StoresNextKeeps ==
  ASSUME TypeOK, Whereabouts, NEW f \in Flushes, StoresNext(f)
  PROVE  TypeOK' /\ Whereabouts'
  <1>1. PICK m \in batch[f] :
          /\ batch' = [batch EXCEPT ![f] = @ \ {m}]
          /\ stored' = IF dbUp THEN [stored EXCEPT ![m] = @ + 1] ELSE stored
    BY DEF StoresNext
  <1>2. unsent' = unsent /\ pending' = pending /\ UNCHANGED <<world, sync, crashes>>
    BY DEF StoresNext
  <1>3. m \in Responses /\ stored[m] = 0
    BY DEF TypeOK, Whereabouts
  <1>4. \A g \in Flushes : batch'[g] = IF g = f THEN batch[f] \ {m} ELSE batch[g]
    BY <1>1 DEF TypeOK
  <1>5. stored'[m] \in {0, 1} /\ \A n \in Responses : n # m => stored'[n] = stored[n]
    BY <1>1, <1>3 DEF TypeOK
  <1>6. TypeOK'
    <2>1. batch' \in [Flushes -> SUBSET Responses] /\ stored' \in [Responses -> Nat]
      BY <1>1 DEF TypeOK
    <2> QED
      BY <1>2, <2>1, MetricTypes DEF TypeOK
  <1>7. \A g \in Flushes : m \notin batch'[g]
    BY <1>4 DEF Whereabouts, TypeOK
  <1>8. m \notin unsent \cup pending
    BY <1>3 DEF Whereabouts
  <1>9. ASSUME NEW n \in Responses
        PROVE  /\ stored'[n] \in {0, 1}
               /\ n \in unsent => n \notin pending
               /\ n \in unsent \cup pending =>
                    stored'[n] = 0 /\ \A g \in Flushes : n \notin batch'[g]
               /\ \A g \in Flushes : n \in batch'[g] => stored'[n] = 0
               /\ \A g, h \in Flushes : n \in batch'[g] /\ n \in batch'[h] => g = h
    <2>1. CASE n = m
      BY <1>3, <1>5, <1>7, <1>8, <2>1
    <2>2. CASE n # m
      BY <1>4, <1>5, <2>2 DEF Whereabouts
    <2> QED
      BY <2>1, <2>2
  <1>10. Whereabouts'
    BY <1>2, <1>9 DEF Whereabouts
  <1> QED
    BY <1>6, <1>10

\* Old rows are deleted.
LEMMA PurgeKeeps ==
  ASSUME TypeOK, Whereabouts, PurgeOldApiMetrics
  PROVE  TypeOK' /\ Whereabouts'
  <1>1. PICK old : stored' = [m \in Responses |-> IF m \in old THEN 0 ELSE stored[m]]
    BY DEF PurgeOldApiMetrics
  <1>2. UNCHANGED <<world, sync, unsent, pending, batch, crashes>>
    BY DEF PurgeOldApiMetrics
  <1>3. TypeOK'
    <2>1. stored' \in [Responses -> Nat]
      BY <1>1 DEF TypeOK
    <2> QED
      BY <1>2, <2>1, MetricTypes DEF TypeOK
  <1>4. \A m \in Responses : stored'[m] \in {0, stored[m]}
    BY <1>1
  <1>5. Whereabouts'
    BY <1>2, <1>4 DEF Whereabouts
  <1> QED
    BY <1>3, <1>5

\* A restart loses what is in memory.
LEMMA CrashKeeps ==
  ASSUME TypeOK, Whereabouts, Crash
  PROVE  TypeOK' /\ Whereabouts'
  <1>1. /\ crashes' = crashes + 1 /\ crashes < MaxCrashes
        /\ failures' = 0 /\ step' = NoSyncs /\ guarded' = NoGuards
        /\ pending' = {} /\ batch' = NoBatches
        /\ UNCHANGED <<world, beat, events, open, unsent, stored>>
    BY DEF Crash
  <1>2. /\ crashes' \in 0 .. MaxCrashes /\ failures' \in 0 .. Threshold + 1
    BY <1>1, TelemetryAssumption DEF TypeOK
  <1>3. /\ step' \in [Syncs -> Steps] /\ guarded' \in [Syncs -> BOOLEAN]
        /\ \A s \in Syncs : guarded'[s] = FALSE
    BY <1>1 DEF NoSyncs, NoGuards, Steps
  <1>4. batch' \in [Flushes -> SUBSET Responses] /\ \A f \in Flushes : batch'[f] = {}
    BY <1>1 DEF NoBatches
  <1>5. TypeOK'
    BY <1>1, <1>2, <1>3, <1>4 DEF TypeOK, world
  <1>6. Whereabouts'
    BY <1>1, <1>4 DEF Whereabouts
  <1> QED
    BY <1>5, <1>6

\* The invariant of Telemetry at the start.
LEMMA TelemetryInit == Init => TypeOK /\ Whereabouts
  <1> SUFFICES ASSUME Init PROVE TypeOK /\ Whereabouts
    OBVIOUS
  <1>1. TypeOK
    <2>1. /\ step \in [Syncs -> Steps] /\ guarded \in [Syncs -> BOOLEAN]
          /\ \A s \in Syncs : guarded[s] = FALSE
      BY DEF Init, NoSyncs, NoGuards, Steps
    <2>2. batch \in [Flushes -> SUBSET Responses] /\ stored \in [Responses -> Nat]
      BY DEF Init, NoBatches
    <2>3. failures \in 0 .. Threshold + 1 /\ crashes \in 0 .. MaxCrashes
      BY TelemetryAssumption DEF Init
    <2>4. beat \in Beats /\ events \in BOOLEAN /\ open \in BOOLEAN
          /\ dbUp \in BOOLEAN /\ fxUp \in BOOLEAN /\ hasKey \in BOOLEAN
          /\ unsent \subseteq Responses /\ pending \subseteq Responses
      BY DEF Init, Beats
    <2> QED
      BY <2>1, <2>2, <2>3, <2>4 DEF TypeOK
  <1>2. Whereabouts
    BY DEF Init, Whereabouts, NoBatches
  <1> QED
    BY <1>1, <1>2

\* Every step keeps it.
LEMMA TelemetryNext == TypeOK /\ Whereabouts /\ [Next]_vars => (TypeOK /\ Whereabouts)'
  <1> SUFFICES ASSUME TypeOK, Whereabouts, [Next]_vars PROVE TypeOK' /\ Whereabouts'
    OBVIOUS
  <1>1. ASSUME UNCHANGED metrics PROVE Whereabouts'
    BY <1>1 DEF metrics, Whereabouts
  <1>2. ASSUME NEW s \in Syncs, SyncStarts(s) PROVE TypeOK' /\ Whereabouts'
    <2>1. UNCHANGED metrics
      BY <1>2 DEF SyncStarts, SkipsWithoutKey, FetchFails, FetchSucceeds
    <2> QED
      BY <1>1, <1>2, <2>1, StartTypes
  <1>3. ASSUME NEW s \in Syncs, SyncMoves(s) PROVE TypeOK' /\ Whereabouts'
    <2>1. UNCHANGED metrics
      BY <1>3 DEF SyncMoves, Connects, WritesRates, ResolvesIncident, ResolvesEvents,
           RecordsEvent, LooksForIncident, OpensIncident, RecordsHeartbeat, Calls
    <2> QED
      BY <1>1, <1>3, <2>1, MoveTypes
  <1>4. ASSUME DatabaseChanges \/ ProviderChanges PROVE TypeOK' /\ Whereabouts'
    <2>1. UNCHANGED <<hasKey, sync, metrics, crashes>>
          /\ dbUp' \in BOOLEAN /\ fxUp' \in BOOLEAN
      BY <1>4 DEF DatabaseChanges, ProviderChanges, TypeOK
    <2>2. TypeOK'
      BY <2>1 DEF TypeOK, sync, metrics
    <2> QED
      BY <1>1, <2>1, <2>2
  <1>5. ASSUME UNCHANGED vars PROVE TypeOK' /\ Whereabouts'
    <2>1. UNCHANGED <<world, sync, metrics, crashes>>
      BY <1>5 DEF vars
    <2>2. TypeOK'
      BY <2>1 DEF TypeOK, world, sync, metrics
    <2> QED
      BY <1>1, <2>1, <2>2
  <1> QED
    BY <1>2, <1>3, <1>4, <1>5, RespondsKeeps, TakesBatchKeeps, StoresNextKeeps,
       PurgeKeeps, CrashKeeps DEF Next

\* The counters and steps of the rate sync keep their ranges, restarts and
\* failures included, and no throw of qr.connect() is caught.
THEOREM TelemetryTypeCorrect == Spec => []TypeOK
  BY TelemetryInit, TelemetryNext, PTL DEF Spec

\* For any number of flushes that overlap, and wherever the process stops, a
\* response has at most one row of metrics.
THEOREM StoredOnceAtMost == Spec => []MetricStoredOnce
  <1>1. TypeOK /\ Whereabouts => MetricStoredOnce
    <2> SUFFICES ASSUME TypeOK, Whereabouts, NEW m \in Responses
                 PROVE  Copies(m) <= (IF m \in unsent THEN 0 ELSE 1)
      BY DEF MetricStoredOnce
    <2> DEFINE F == {f \in Flushes : m \in batch[f]}
    <2>1. CASE \A f \in Flushes : m \notin batch[f]
      <3>1. F = {}
        BY <2>1
      <3>2. Cardinality(F) = 0
        BY <3>1, FS_EmptySet
      <3> HIDE DEF F
      <3>3. Copies(m) = stored[m] + Cardinality(F) + (IF m \in pending THEN 1 ELSE 0)
        BY DEF Copies, F
      <3> QED
        BY <3>2, <3>3 DEF Whereabouts
    <2>2. CASE \E f \in Flushes : m \in batch[f]
      <3>1. PICK f \in Flushes : m \in batch[f]
        BY <2>2
      <3>2. F = {f}
        BY <3>1 DEF Whereabouts
      <3>3. Cardinality(F) = 1
        BY <3>2, FS_Singleton
      <3>4. stored[m] = 0 /\ m \notin pending /\ m \notin unsent
        BY <3>1 DEF Whereabouts
      <3> HIDE DEF F
      <3>5. Copies(m) = stored[m] + Cardinality(F) + (IF m \in pending THEN 1 ELSE 0)
        BY DEF Copies, F
      <3> QED
        BY <3>3, <3>4, <3>5
    <2> QED
      BY <2>1, <2>2
  <1> QED
    BY <1>1, TelemetryInit, TelemetryNext, PTL DEF Spec
=============================================================================

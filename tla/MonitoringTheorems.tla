------------------------- MODULE MonitoringTheorems -------------------------
(***************************************************************************)
(* Proofs about Monitoring: its types, and with them that a source has at  *)
(* most one open incident, however cycles and recorders overlap.           *)
(***************************************************************************)
EXTENDS Monitoring, FiniteSetTheorems, SequenceTheorems, TLAPS

-----------------------------------------------------------------------------
\* A detector that opens or resolves something does so for a source.
AtSource ==
  \A d \in Cycles :
    phase[d] \in {"resolve", "settle", "event", "look", "insert"} => At(d) \in Sources

\* The inductive invariant.
DInv == TypeOK /\ AtSource

\* A cycle has a first and a last detector.
LEMMA ThereAreDetectors == Len(Detectors) \in Nat \ {0}
  <1> DEFINE fixed == <<"database_unavailable", "heartbeat_missing", "jobs",
                        "transactions", "api_error_spike", "api_heartbeat">>
             S == Components \cup {"database_unavailable", "heartbeat_missing", "jobs",
                        "transactions", "api_error_spike", "api_heartbeat"}
  <1>1. fixed \in Seq(S) /\ Len(fixed) = 6
    <2>1. Len(fixed) = 6
      OBVIOUS
    <2>2. ASSUME NEW N, NEW a \in N, NEW b \in N, NEW c \in N, NEW x \in N, NEW y \in N,
                 NEW z \in N
          PROVE  <<a, b, c, x, y, z>> \in Seq(N)
      OBVIOUS
    <2> QED
      BY <2>1, <2>2
  <1>2. Watched \in Seq(S) /\ Len(Watched) \in Nat
    <2>1. Watched \in Seq(Components) /\ Components \subseteq S
      BY MonitoringAssumption DEF Components
    <2> HIDE DEF S
    <2>2. /\ Len(Watched) \in Nat /\ Watched \in [1 .. Len(Watched) -> Components]
      BY <2>1, LenProperties
    <2>3. Watched \in [1 .. Len(Watched) -> S]
      BY <2>1, <2>2
    <2> QED
      BY <2>2, <2>3, SeqDef
  <1>3. Detectors = fixed \o Watched
    BY DEF Detectors
  <1> HIDE DEF fixed, S
  <1>4. Len(Detectors) = Len(fixed) + Len(Watched)
    BY <1>1, <1>2, <1>3, ConcatProperties
  <1> QED
    BY <1>1, <1>2, <1>4

\* What a step of a cycle does to the cycles.
LEMMA CycleKeeps ==
  ASSUME DInv, NEW d \in Cycles, NEW to \in Phases, NEW n \in 1 .. Len(Detectors),
         phase' = [phase EXCEPT ![d] = to], turn' = [turn EXCEPT ![d] = n],
         to = "failed" => Detectors[n] = "database_unavailable",
         to \in {"resolve", "settle", "event", "look", "insert"} => Detectors[n] \in Sources,
         open' \in [Sources -> {0, 1}], events' \subseteq Sources,
         beat' \in [Components -> {"none", "ok", "degraded", "failed"}],
         old' \in [Components -> BOOLEAN],
         UNCHANGED <<dbUp, rates, spike, security>>
  PROVE  DInv'
  <1>1. /\ phase' \in [Cycles -> Phases] /\ turn' \in [Cycles -> 1 .. Len(Detectors)]
        /\ \A c \in Cycles : c # d => phase'[c] = phase[c] /\ turn'[c] = turn[c]
        /\ phase'[d] = to /\ turn'[d] = n
    BY DEF DInv, TypeOK
  <1>2. \A c \in Cycles : phase'[c] = "failed" => At(c)' = "database_unavailable"
    BY <1>1 DEF DInv, TypeOK, At
  <1>3. AtSource'
    BY <1>1 DEF DInv, AtSource, At
  <1>4. TypeOK'
    BY <1>1, <1>2 DEF DInv, TypeOK, security
  <1> QED
    BY <1>3, <1>4 DEF DInv

\* The same, for a step within a detector or to the next one.
LEMMA MoveKeeps ==
  ASSUME DInv, NEW d \in Cycles, NEW p \in Phases,
         MovesTo(d, p) \/ NextDetector(d) \/ Aborts(d),
         p = "failed" => At(d) = "database_unavailable",
         p \in {"resolve", "settle", "event", "look", "insert"} => At(d) \in Sources,
         open' \in [Sources -> {0, 1}], events' \subseteq Sources,
         beat' \in [Components -> {"none", "ok", "degraded", "failed"}],
         old' \in [Components -> BOOLEAN],
         UNCHANGED <<dbUp, rates, spike, security>>
  PROVE  DInv'
  <1>1. turn \in [Cycles -> 1 .. Len(Detectors)] /\ Len(Detectors) \in Nat \ {0}
        /\ turn[d] \in 1 .. Len(Detectors)
    BY ThereAreDetectors DEF DInv, TypeOK
  <1>2. CASE MovesTo(d, p)
    <2>1. phase' = [phase EXCEPT ![d] = p] /\ turn' = [turn EXCEPT ![d] = turn[d]]
      BY <1>1, <1>2 DEF MovesTo
    <2>2. At(d) = Detectors[turn[d]]
      BY DEF At
    <2> QED
      BY <1>1, <2>1, <2>2, CycleKeeps
  <1>3. CASE Aborts(d)
    <2>1. /\ phase' = [phase EXCEPT ![d] = "idle"] /\ turn' = [turn EXCEPT ![d] = 1]
          /\ "idle" \in Phases /\ 1 \in 1 .. Len(Detectors)
      BY <1>1, <1>3 DEF Aborts, Phases
    <2> QED
      BY <2>1, CycleKeeps
  <1>4. CASE NextDetector(d) /\ turn[d] # Len(Detectors)
    <2>1. /\ phase' = [phase EXCEPT ![d] = "observe"]
          /\ turn' = [turn EXCEPT ![d] = turn[d] + 1]
          /\ "observe" \in Phases /\ turn[d] + 1 \in 1 .. Len(Detectors)
      BY <1>1, <1>4 DEF NextDetector, Phases
    <2> QED
      BY <2>1, CycleKeeps
  <1> QED
    BY <1>2, <1>3, <1>4 DEF NextDetector

\* A throw goes to the catch block or ends the cycle.
LEMMA ThrowKeeps ==
  ASSUME DInv, NEW d \in Cycles, Throws(d),
         open' \in [Sources -> {0, 1}], events' \subseteq Sources,
         beat' \in [Components -> {"none", "ok", "degraded", "failed"}],
         old' \in [Components -> BOOLEAN],
         UNCHANGED <<dbUp, rates, spike, security>>
  PROVE  DInv'
  <1>1. "failed" \in Phases
    BY DEF Phases
  <1>2. \/ At(d) = "database_unavailable" /\ MovesTo(d, "failed")
        \/ Aborts(d)
    BY DEF Throws
  <1>3. CASE At(d) = "database_unavailable" /\ MovesTo(d, "failed")
    BY <1>1, <1>3, MoveKeeps
  <1>4. CASE Aborts(d)
    <2>1. "idle" \in Phases
      BY DEF Phases
    <2> QED
      BY <1>4, <2>1, MoveKeeps
  <1> QED
    BY <1>2, <1>3, <1>4

\* A heartbeat keeps the types.
LEMMA HeartbeatTypes ==
  ASSUME DInv, NEW c, NEW status \in {"ok", "degraded", "failed"}, Records(c, status)
  PROVE  /\ beat' \in [Components -> {"none", "ok", "degraded", "failed"}]
         /\ old' \in [Components -> BOOLEAN]
  BY DEF DInv, TypeOK, Records

\* A detector opens or resolves only for its source.
LEMMA VerdictIs ==
  ASSUME NEW s
  PROVE  /\ Verdict(s) \in Phases
         /\ Verdict(s) # "failed"
         /\ Verdict(s) \in {"resolve", "settle", "event", "look", "insert"} => s \in Sources
  <1>1. /\ FxVerdict \in {"event", "settle", "observe"}
        /\ ApiVerdict \in {"event", "resolve"}
        /\ HeartbeatVerdict(s) \in {"look", "resolve", "observe"}
    BY DEF FxVerdict, ApiVerdict, HeartbeatVerdict
  <1>2. CASE s \in Sources
    <2>1. Verdict(s) \in {"beat", "event", "settle", "observe", "resolve", "look"}
      BY <1>1 DEF Verdict
    <2> QED
      BY <1>2, <2>1 DEF Phases
  <1>3. CASE s \notin Sources
    <2>1. Verdict(s) = "observe"
      BY <1>3 DEF Verdict, Sources
    <2> QED
      BY <2>1 DEF Phases
  <1> QED
    BY <1>2, <1>3

\* What a step of a cycle finds.
LEMMA CycleTypes ==
  ASSUME DInv
  PROVE  /\ open \in [Sources -> {0, 1}] /\ events \subseteq Sources
         /\ beat \in [Components -> {"none", "ok", "degraded", "failed"}]
         /\ old \in [Components -> BOOLEAN]
         /\ \A p \in {"idle", "observe", "beat", "resolve", "settle", "failed", "event",
                      "look", "insert"} : p \in Phases
         /\ "database_unavailable" \in Sources
  BY DEF DInv, TypeOK, Phases, Sources

\* The steps of a cycle; the unique index is what keeps the INSERT of Inserts to
\* one open incident.
LEMMA CyclesKeep ==
  ASSUME DInv, NEW d \in Cycles, CycleStarts(d) \/ CycleMoves(d)
  PROVE  DInv'
  <1>0. /\ phase[d] = "failed" => At(d) = "database_unavailable"
        /\ phase[d] \in {"resolve", "settle", "event", "look", "insert"} => At(d) \in Sources
    BY DEF DInv, TypeOK, AtSource
  <1>1. CASE CycleStarts(d)
    BY <1>1, CycleTypes, MoveKeeps DEF CycleStarts, inputs
  <1>2. CASE Observes(d)
    <2>1. UNCHANGED <<dbUp, open, events, inputs, security>>
      BY <1>2 DEF Observes
    <2>2. CASE Throws(d)
      BY <2>1, <2>2, CycleTypes, ThrowKeeps DEF inputs
    <2>3. CASE NextDetector(d)
      BY <2>1, <2>3, CycleTypes, MoveKeeps DEF inputs
    <2>4. CASE MovesTo(d, Verdict(At(d)))
      <3> DEFINE v == Verdict(At(d))
      <3>1. /\ v \in Phases /\ v # "failed"
            /\ v \in {"resolve", "settle", "event", "look", "insert"} => At(d) \in Sources
        BY VerdictIs
      <3>2. MovesTo(d, v)
        BY <2>4
      <3> HIDE DEF v
      <3> QED
        BY <2>1, <3>1, <3>2, CycleTypes, MoveKeeps DEF inputs
    <2>5. CASE MovesTo(d, "beat")
      BY <2>1, <2>5, CycleTypes, MoveKeeps DEF inputs
    <2> QED
      BY <1>2, <2>2, <2>3, <2>4, <2>5 DEF Observes
  <1>3. CASE RecordsOk(d)
    <2>1. /\ UNCHANGED <<dbUp, open, events, rates, spike, security>>
          /\ At(d) \in Sources
      BY <1>3, CycleTypes DEF RecordsOk
    <2>2. CASE Throws(d) /\ UNCHANGED <<beat, old>>
      BY <2>1, <2>2, CycleTypes, ThrowKeeps
    <2>3. CASE Records("database", "ok") /\ MovesTo(d, "resolve")
      BY <2>1, <2>3, CycleTypes, HeartbeatTypes, MoveKeeps
    <2> QED
      BY <1>3, <2>2, <2>3 DEF RecordsOk
  <1>4. CASE RecordsApiHeartbeat(d)
    <2>1. UNCHANGED <<dbUp, open, events, rates, spike, security>>
      BY <1>4 DEF RecordsApiHeartbeat
    <2>2. CASE Throws(d) /\ UNCHANGED <<beat, old>>
      BY <2>1, <2>2, CycleTypes, ThrowKeeps
    <2>3. CASE Records("api", "ok") /\ NextDetector(d)
      BY <2>1, <2>3, CycleTypes, HeartbeatTypes, MoveKeeps
    <2> QED
      BY <1>4, <2>2, <2>3 DEF RecordsApiHeartbeat
  <1>5. CASE Resolves(d)
    <2>1. UNCHANGED <<dbUp, events, inputs, security>> /\ At(d) \in Sources
      BY <1>0, <1>5 DEF Resolves
    <2>2. CASE Throws(d) /\ UNCHANGED open
      BY <2>1, <2>2, CycleTypes, ThrowKeeps DEF inputs
    <2>3. CASE /\ open' = [open EXCEPT ![At(d)] = 0]
               /\ MovesTo(d, "settle") \/ NextDetector(d)
      <3>1. open' \in [Sources -> {0, 1}]
        BY <2>3, CycleTypes
      <3> QED
        BY <2>1, <2>3, <3>1, CycleTypes, MoveKeeps DEF inputs
    <2> QED
      BY <1>5, <2>2, <2>3 DEF Resolves
  <1>6. CASE Settles(d)
    <2>1. UNCHANGED <<dbUp, open, inputs, security>>
      BY <1>6 DEF Settles
    <2>2. CASE Throws(d) /\ UNCHANGED events
      BY <2>1, <2>2, CycleTypes, ThrowKeeps DEF inputs
    <2>3. CASE NextDetector(d) /\ events' = events \ {At(d)}
      <3>1. events' \subseteq Sources
        BY <2>3, CycleTypes
      <3> QED
        BY <2>1, <2>3, <3>1, CycleTypes, MoveKeeps DEF inputs
    <2> QED
      BY <1>6, <2>2, <2>3 DEF Settles
  <1>7. CASE RecordsFailure(d)
    <2>1. /\ UNCHANGED <<dbUp, open, events, rates, spike, security>>
          /\ At(d) \in Sources
      BY <1>0, <1>7, CycleTypes DEF RecordsFailure
    <2>2. CASE Throws(d) /\ UNCHANGED <<beat, old>>
      BY <2>1, <2>2, CycleTypes, ThrowKeeps
    <2>3. CASE Records("database", "failed") /\ MovesTo(d, "event")
      BY <2>1, <2>3, CycleTypes, HeartbeatTypes, MoveKeeps
    <2> QED
      BY <1>7, <2>2, <2>3 DEF RecordsFailure
  <1>8. CASE RecordsEvent(d)
    <2>1. UNCHANGED <<dbUp, open, inputs, security>> /\ At(d) \in Sources
      BY <1>0, <1>8 DEF RecordsEvent
    <2>2. CASE Throws(d) /\ UNCHANGED events
      BY <2>1, <2>2, CycleTypes, ThrowKeeps DEF inputs
    <2>3. CASE /\ MovesTo(d, "look")
               /\ events' = events \cup ({At(d)} \ {"api_error_spike"})
      <3>1. events' \subseteq Sources
        BY <2>1, <2>3, CycleTypes
      <3> QED
        BY <2>1, <2>3, <3>1, CycleTypes, MoveKeeps DEF inputs
    <2> QED
      BY <1>8, <2>2, <2>3 DEF RecordsEvent
  <1>9. CASE Looks(d)
    <2>1. /\ UNCHANGED <<dbUp, open, events, inputs, security>>
          /\ At(d) \in Sources
      BY <1>0, <1>9 DEF Looks
    <2>2. CASE Throws(d)
      BY <2>1, <2>2, CycleTypes, ThrowKeeps DEF inputs
    <2>3. CASE MovesTo(d, "insert") \/ NextDetector(d)
      BY <2>1, <2>3, CycleTypes, MoveKeeps DEF inputs
    <2> QED
      BY <1>9, <2>2, <2>3 DEF Looks
  <1>10. CASE Inserts(d)
    <2>1. UNCHANGED <<dbUp, events, inputs, security>>
      BY <1>10 DEF Inserts
    <2>2. CASE Throws(d) /\ UNCHANGED open
      BY <2>1, <2>2, CycleTypes, ThrowKeeps DEF inputs
    <2>3. CASE open' = [open EXCEPT ![At(d)] = 1] /\ NextDetector(d)
      <3>1. open' \in [Sources -> {0, 1}]
        BY <2>3, CycleTypes
      <3> QED
        BY <2>1, <2>3, <3>1, CycleTypes, MoveKeeps DEF inputs
    <2> QED
      BY <1>10, <2>2, <2>3 DEF Inserts
  <1> QED
    BY <1>1, <1>2, <1>3, <1>4, <1>5, <1>6, <1>7, <1>8, <1>9, <1>10 DEF CycleMoves

\* Steps that leave the cycles alone.
LEMMA OutsideKeeps ==
  ASSUME DInv, dbUp' \in BOOLEAN, UNCHANGED <<phase, turn, events>>,
         open' \in [Sources -> {0, 1}],
         beat' \in [Components -> {"none", "ok", "degraded", "failed"}],
         old' \in [Components -> BOOLEAN],
         rates' \in {"none", "fresh", "stale"}, spike' \in BOOLEAN,
         rstep' \in [Recorders -> {"idle", "row", "look", "insert"}],
         sev' \in [Recorders -> Severities],
         recent' \in 0 .. Persistent, recorded' \subseteq Severities
  PROVE  DInv'
  <1>1. TypeOK'
    BY DEF DInv, TypeOK, At
  <1>2. AtSource'
    BY DEF DInv, AtSource, At
  <1> QED
    BY <1>1, <1>2 DEF DInv

\* What a step outside the cycles finds.
LEMMA OutsideTypes ==
  ASSUME DInv
  PROVE  /\ dbUp \in BOOLEAN
         /\ rates \in {"none", "fresh", "stale"} /\ spike \in BOOLEAN
         /\ rstep \in [Recorders -> {"idle", "row", "look", "insert"}]
         /\ sev \in [Recorders -> Severities]
         /\ recent \in 0 .. Persistent /\ recorded \subseteq Severities
         /\ Persistent \in Nat
  BY MonitoringAssumption DEF DInv, TypeOK

\* The count of recent events stays below its bound.
LEMMA RecentBounded ==
  ASSUME DInv
  PROVE  Min({recent + 1, Persistent}) \in 0 .. Persistent
  <1> DEFINE a == recent + 1
             b == Persistent
  <1>1. a \in Nat /\ b \in Nat
    BY OutsideTypes
  <1> HIDE DEF a, b
  <1>2. \E x \in {a, b} : \A y \in {a, b} : x <= y
    BY <1>1
  <1>3. /\ Min({a, b}) \in {a, b}
        /\ \A y \in {a, b} : Min({a, b}) <= y
    BY <1>2 DEF Min
  <1>4. Min({a, b}) \in Nat /\ Min({a, b}) <= b
    BY <1>1, <1>3
  <1> QED
    BY <1>4, OutsideTypes DEF a, b

\* The steps of recordSecurityEvent.
LEMMA RecordersKeep ==
  ASSUME DInv, NEW r \in Recorders, Scores(r) \/ RecorderMoves(r)
  PROVE  DInv'
  <1>1. CASE Scores(r)
    <2>1. /\ UNCHANGED <<dbUp, detector, open, inputs, recent, recorded>>
          /\ rstep' = [rstep EXCEPT ![r] = "row"]
      BY <1>1 DEF Scores, StepsTo
    <2>2. PICK base \in BaseScores, isAdminRoute \in BOOLEAN :
            sev' = [sev EXCEPT ![r] = Severity(base, recent, isAdminRoute)]
      BY <1>1 DEF Scores
    <2> DEFINE s == Severity(base, recent, isAdminRoute)
    <2>3. s \in Severities
      BY DEF Severity, Severities
    <2>4. sev' = [sev EXCEPT ![r] = s]
      BY <2>2
    <2> HIDE DEF s
    <2>5. sev' \in [Recorders -> Severities]
      BY <2>3, <2>4, OutsideTypes
    <2>6. rstep' \in [Recorders -> {"idle", "row", "look", "insert"}]
      BY <2>1, OutsideTypes
    <2> QED
      BY <2>1, <2>5, <2>6, CycleTypes, OutsideTypes, OutsideKeeps
      DEF detector, inputs
  <1>2. CASE WritesRow(r)
    <2>1. UNCHANGED <<dbUp, detector, open, inputs, sev>>
      BY <1>2 DEF WritesRow
    <2>2. recent' \in 0 .. Persistent /\ recorded' \subseteq Severities
      BY <1>2, RecentBounded, OutsideTypes DEF WritesRow
    <2>3. rstep' \in [Recorders -> {"idle", "row", "look", "insert"}]
      BY <1>2, OutsideTypes DEF WritesRow, StepsTo
    <2> QED
      BY <2>1, <2>2, <2>3, CycleTypes, OutsideTypes, OutsideKeeps
      DEF detector, inputs
  <1>3. CASE LooksForThreat(r)
    <2>1. UNCHANGED <<dbUp, detector, open, inputs, sev, recent, recorded>>
      BY <1>3 DEF LooksForThreat
    <2>2. rstep' \in [Recorders -> {"idle", "row", "look", "insert"}]
      BY <1>3, OutsideTypes DEF LooksForThreat, StepsTo
    <2> QED
      BY <2>1, <2>2, CycleTypes, OutsideTypes, OutsideKeeps DEF detector, inputs
  <1>4. CASE InsertsThreat(r)
    <2>1. UNCHANGED <<dbUp, detector, inputs, sev, recent, recorded>>
      BY <1>4 DEF InsertsThreat
    <2>2. rstep' \in [Recorders -> {"idle", "row", "look", "insert"}]
      BY <1>4, OutsideTypes DEF InsertsThreat, StepsTo
    <2>3. open' \in [Sources -> {0, 1}]
      BY <1>4, CycleTypes DEF InsertsThreat
    <2> QED
      BY <2>1, <2>2, <2>3, CycleTypes, OutsideTypes, OutsideKeeps
      DEF detector, inputs
  <1> QED
    BY <1>1, <1>2, <1>3, <1>4 DEF RecorderMoves

\* What the detector watches changes.
LEMMA OthersKeep ==
  ASSUME DInv,
         \/ WindowPasses \/ RatesChange \/ ErrorsChange \/ DatabaseChanges
         \/ \E c \in Components : Reports(c) \/ Ages(c)
  PROVE  DInv'
  <1>1. CASE WindowPasses
    BY <1>1, CycleTypes, OutsideTypes, OutsideKeeps
    DEF WindowPasses, detector, inputs
  <1>2. CASE RatesChange
    BY <1>2, CycleTypes, OutsideTypes, OutsideKeeps
    DEF RatesChange, detector, security
  <1>3. CASE ErrorsChange
    BY <1>3, CycleTypes, OutsideTypes, OutsideKeeps
    DEF ErrorsChange, detector, security
  <1>4. CASE DatabaseChanges
    BY <1>4, CycleTypes, OutsideTypes, OutsideKeeps
    DEF DatabaseChanges, detector, inputs, security
  <1>5. ASSUME NEW c \in Components, Reports(c) PROVE DInv'
    <2>1. PICK status \in {"ok", "failed"} \cup (IF c = "fx_engine" THEN {"degraded"} ELSE {}) :
            Records(c, status)
      BY <1>5 DEF Reports
    <2>2. status \in {"ok", "degraded", "failed"}
      OBVIOUS
    <2>3. /\ beat' \in [Components -> {"none", "ok", "degraded", "failed"}]
          /\ old' \in [Components -> BOOLEAN]
      BY <2>1, <2>2, HeartbeatTypes
    <2> QED
      BY <1>5, <2>3, CycleTypes, OutsideTypes, OutsideKeeps
      DEF Reports, detector, security
  <1>6. ASSUME NEW c \in Components, Ages(c) PROVE DInv'
    <2>1. old' \in [Components -> BOOLEAN]
      BY <1>6, CycleTypes DEF Ages
    <2> QED
      BY <1>6, <2>1, CycleTypes, OutsideTypes, OutsideKeeps
      DEF Ages, detector, security
  <1> QED
    BY <1>1, <1>2, <1>3, <1>4, <1>5, <1>6

\* The invariant of Monitoring at the start.
LEMMA DetectorInit ==
  ASSUME Init
  PROVE  DInv
  <1>1. phase \in [Cycles -> Phases] /\ turn \in [Cycles -> 1 .. Len(Detectors)]
    BY ThereAreDetectors DEF Init, Phases
  <1>2. /\ open \in [Sources -> {0, 1}] /\ events \subseteq Sources
        /\ beat \in [Components -> {"none", "ok", "degraded", "failed"}]
        /\ old \in [Components -> BOOLEAN]
    BY DEF Init
  <1>3. /\ rstep \in [Recorders -> {"idle", "row", "look", "insert"}]
        /\ sev \in [Recorders -> Severities]
        /\ recent \in 0 .. Persistent /\ recorded \subseteq Severities
    BY MonitoringAssumption DEF Init, Severities
  <1>4. \A d \in Cycles : phase[d] = "idle"
    BY DEF Init
  <1>5. TypeOK
    BY <1>1, <1>2, <1>3, <1>4 DEF Init, TypeOK
  <1>6. AtSource
    BY <1>4 DEF AtSource
  <1> QED
    BY <1>5, <1>6 DEF DInv

\* Every step keeps it.
LEMMA DetectorNext == DInv /\ [Next]_vars => DInv'
  <1> SUFFICES ASSUME DInv, [Next]_vars PROVE DInv'
    OBVIOUS
  <1>1. CASE UNCHANGED vars
    BY <1>1, CycleTypes, OutsideTypes, OutsideKeeps
    DEF vars, detector, inputs, security
  <1>2. CASE CyclesNext
    BY <1>2, CyclesKeep DEF CyclesNext
  <1>3. CASE RecordersNext
    BY <1>3, RecordersKeep, OthersKeep DEF RecordersNext
  <1>4. CASE ComponentsNext \/ RatesChange \/ ErrorsChange \/ DatabaseChanges
    BY <1>4, OthersKeep DEF ComponentsNext
  <1> QED
    BY <1>1, <1>2, <1>3, <1>4 DEF Next

\* However many cycles and recorders overlap, a source has one open incident
\* at most.
THEOREM OneIncidentPerSource == Spec => []TypeOK
  <1>1. Init => DInv
    BY DetectorInit
  <1>2. DInv => TypeOK
    BY DEF DInv
  <1> QED
    BY <1>1, <1>2, DetectorNext, PTL DEF Spec
=============================================================================

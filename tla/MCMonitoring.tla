---------------------------- MODULE MCMonitoring ----------------------------
(***************************************************************************)
(* A small instance of Monitoring for TLC.  The detectors read different   *)
(* rows, so a behaviour lets one kind of row change, together with the     *)
(* database; scenario says which.                                          *)
(***************************************************************************)
EXTENDS Monitoring, TLC
CONSTANTS d1, d2, r1, r2

VARIABLE scenario

MCWatched == <<"database", "background_jobs">>

MCInit == Init /\ scenario \in {"components", "rates", "errors", "security"}

MCNext ==
  /\ \/ DatabaseChanges
     \/ scenario # "security" /\ CyclesNext
     \/ scenario = "components" /\ ComponentsNext
     \/ scenario = "rates" /\ RatesChange
     \/ scenario = "errors" /\ ErrorsChange
     \/ scenario = "security" /\ RecordersNext
  /\ UNCHANGED scenario

\* The fairness of Monitoring for the actors that the scenario lets act.
MCFairness ==
  /\ \A d \in Cycles : WF_<<vars, scenario>>(scenario # "security" /\ (CycleStarts(d) \/ CycleMoves(d)) /\ UNCHANGED scenario)
  /\ \A r \in Recorders : WF_<<vars, scenario>>(RecorderMoves(r) /\ UNCHANGED scenario)

MCSpec == MCInit /\ [][MCNext]_<<vars, scenario>> /\ MCFairness
=============================================================================

-------------------------- MODULE MCAlarmPipeline ---------------------------
(***************************************************************************)
(* AlarmPipeline and FiberFaults on small instances.  The two share no     *)
(* state, so each is run while the other stands still: focus, chosen at    *)
(* the start, says which of the two moves.                                 *)
(***************************************************************************)
EXTENDS AlarmPipeline, FiberFaults

VARIABLE focus

alarmVars == <<pipelineVars, faultVars, focus>>

AlarmInit == PipelineInit /\ FaultInit /\ focus \in {"pipeline", "faults"}

AlarmNext ==
  \/ focus = "pipeline" /\ PipelineNext /\ UNCHANGED <<faultVars, focus>>
  \/ focus = "faults" /\ FaultNext /\ UNCHANGED <<pipelineVars, focus>>

AlarmSpec == AlarmInit /\ [][AlarmNext]_alarmVars /\ PipelineFairness /\ FaultFairness

\* The types of all state of both components.
AlarmTypeOK == PipelineTypeOK /\ FaultTypeOK
=============================================================================

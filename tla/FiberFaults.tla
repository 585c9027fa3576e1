----------------------------- MODULE FiberFaults ----------------------------
(***************************************************************************)
(* The fault loop of backend/app/fiber_faults.py, which cuts one span of   *)
(* fiber at a time and takes the cut back a while later.  active_faults    *)
(* and the tasks live in the backend's memory, the peerings and what a cut *)
(* does to them in the database: a restart of the backend empties the one  *)
(* and not the other.  "Delete entire fleet" (api/simulation.py) empties   *)
(* the tables and active_faults, but the tasks sleep on.  Identifiers      *)
(* start again after such a reset, so a task may outlive its peering and   *)
(* find another one of the same id.                                        *)
(*                                                                         *)
(* What a cut's alarms do to the members is in LinkBundles, and their way  *)
(* to the store in AlarmPipeline.                                          *)
(***************************************************************************)
EXTENDS Naturals

CONSTANTS
  Ids,         \* identifiers of peerings with at least two repeaters
  Spans,       \* their interior spans
  Resets,      \* bound of the model: fleets deleted
  Accidents    \* bound of the model: restarts, and tasks that raise

ASSUME FaultAssumption == Resets \in Nat /\ Accidents \in Nat

VARIABLES
  peering,     \* [Ids -> {"none", "established", "down"}]
  fleet,       \* fleets deleted so far
  enabled,     \* the simulation switch
  active,      \* active_faults' keys
  faults,      \* fault tasks waiting out their fault: [id, span, fleet]
  accidents,   \* accidents so far
  cut,         \* the <<id, span>> whose members are down, as the alarm store
               \* knows it; spans are told apart by the members they carry
  abandoned,   \* history: those whose task raised or died
  outlived     \* history: the ids a task has outlived its fleet with, until
               \* no task has them

faultVars == <<peering, fleet, enabled, active, faults, accidents, cut, abandoned, outlived>>

Accident == accidents < Accidents /\ accidents' = accidents + 1

-----------------------------------------------------------------------------
\* Mutant of Eligible: a peering is eligible whatever is going on at it.
EligibleAnyway == {id \in Ids : peering[id] = "established"}

\* _eligible_peering_ids_and_counts.
Eligible == {id \in Ids : peering[id] = "established"} \ active

StartFiberFault(id, span) ==
  /\ enabled /\ id \in Eligible
  /\ active' = active \cup {id}
  /\ faults' = faults \cup {[id |-> id, span |-> span, fleet |-> fleet]}
  /\ cut' = cut \cup {<<id, span>>}
  /\ abandoned' = abandoned \ {<<id, span>>}
  /\ UNCHANGED <<peering, fleet, enabled, accidents, outlived>>

\* _start_fault raises, before or after the first alarm is published: the task
\* ends, and active_faults keeps its entry.
StartRaises(id, span) ==
  /\ enabled /\ id \in Eligible
  /\ Accident
  /\ active' = active \cup {id}
  /\ cut' \in {cut, cut \cup {<<id, span>>}}
  /\ abandoned' = abandoned \cup {<<id, span>>}
  /\ UNCHANGED <<peering, fleet, enabled, faults, outlived>>

CutBy(fault) == {<<fault.id, fault.span>>}

Ends(fault) ==
  /\ fault \in faults
  /\ faults' = faults \ {fault}
  /\ outlived' = outlived \cap {f.id : f \in faults \ {fault}}

\* Mutant of EndFiberFault: a session that went down meanwhile is left alone.
EndIfEstablished(fault) ==
  /\ Ends(fault)
  /\ active' = active \ {fault.id}
  /\ cut' = IF peering[fault.id] = "established" THEN cut \ CutBy(fault) ELSE cut
  /\ UNCHANGED <<peering, fleet, enabled, accidents, abandoned>>

\* The recovery goes to whatever peering has the id now, if any, and so does
\* the end of the entry in active_faults.
EndFiberFault(fault) ==
  /\ Ends(fault)
  /\ active' = active \ {fault.id}
  /\ cut' = cut \ CutBy(fault)
  /\ UNCHANGED <<peering, fleet, enabled, accidents, abandoned>>

EndRaises(fault) ==
  /\ Ends(fault)
  /\ Accident
  /\ cut' \in {cut, cut \ CutBy(fault)}
  /\ abandoned' = abandoned \cup CutBy(fault)
  /\ UNCHANGED <<peering, fleet, enabled, active>>

\* The tasks and active_faults are gone; the switch is on again.
RestartForgetsFaults ==
  /\ Accident
  /\ faults' = {} /\ active' = {} /\ outlived' = {}
  /\ enabled' = TRUE
  /\ abandoned' = abandoned \cup UNION {CutBy(fault) : fault \in faults}
  /\ UNCHANGED <<peering, fleet, cut>>

Switch ==
  /\ enabled' = ~enabled
  /\ UNCHANGED <<peering, fleet, active, faults, accidents, cut, abandoned, outlived>>

\* Traps take the session down and bring it up again.
SessionChanges(id) ==
  /\ peering[id] # "none"
  /\ peering' = [peering EXCEPT ![id] = IF @ = "down" THEN "established" ELSE "down"]
  /\ UNCHANGED <<fleet, enabled, active, faults, accidents, cut, abandoned, outlived>>

\* reset_fleet truncates the tables, starts their identifiers again and empties
\* active_faults; the tasks it leaves alone.
DeleteFleet ==
  /\ fleet < Resets
  /\ fleet' = fleet + 1
  /\ peering' = [id \in Ids |-> "none"]
  /\ cut' = {} /\ active' = {}
  /\ outlived' = outlived \cup {f.id : f \in faults}
  /\ UNCHANGED <<enabled, faults, accidents, abandoned>>

SeedPeering(id) ==
  /\ peering[id] = "none"
  /\ peering' = [peering EXCEPT ![id] = "established"]
  /\ UNCHANGED <<fleet, enabled, active, faults, accidents, cut, abandoned, outlived>>

\* Resolve-all closes the incidents and brings the members back up.
ResolveAllCuts ==
  /\ cut' = {}
  /\ UNCHANGED <<peering, fleet, enabled, active, faults, accidents, abandoned, outlived>>

-----------------------------------------------------------------------------
FaultInit ==
  /\ peering = [id \in Ids |-> "established"]
  /\ fleet = 0 /\ enabled = TRUE
  /\ active = {} /\ faults = {} /\ accidents = 0
  /\ cut = {} /\ abandoned = {} /\ outlived = {}

FaultNext ==
  \/ \E id \in Ids, span \in Spans : StartFiberFault(id, span) \/ StartRaises(id, span)
  \/ \E id \in Ids : SessionChanges(id) \/ SeedPeering(id)
  \/ \E fault \in faults : EndFiberFault(fault) \/ EndRaises(fault)
  \/ RestartForgetsFaults
  \/ Switch
  \/ DeleteFleet
  \/ ResolveAllCuts

\* A task that slept wakes up.
FaultFairness ==
  \A fault \in [id : Ids, span : Spans, fleet : 0 .. Resets] : WF_faultVars(EndFiberFault(fault))

FaultSpec == FaultInit /\ [][FaultNext]_faultVars /\ FaultFairness

-----------------------------------------------------------------------------
(* Properties                                                              *)

\* The types of all state.
FaultTypeOK ==
  /\ peering \in [Ids -> {"none", "established", "down"}]
  /\ active \subseteq Ids /\ cut \subseteq Ids \X Spans /\ abandoned \subseteq Ids \X Spans
  /\ outlived \subseteq Ids
  /\ faults \subseteq [id : Ids, span : Spans, fleet : 0 .. Resets]

\* A fault shown on the map has one task, which will end it, or its task
\* raised; no peering gets a second fault while the first is under way, and no
\* task ends another's.  Only the tasks that outlive their fleet break this, and
\* only for the peering that has their id, and until they have all ended.
OneTaskPerFault ==
  /\ \A f, g \in faults : f.id = g.id => f = g \/ f.id \in outlived
  /\ {f.id : f \in faults} \subseteq active \cup outlived
  /\ active \subseteq {f.id : f \in faults} \cup {gone[1] : gone \in abandoned}

\* What a cut did is taken back, unless the task raised or died with the
\* backend: whether the switch is off by then, the session down, or the fleet
\* deleted and seeded again.
FaultIsTakenBack ==
  \A span \in Ids \X Spans : span \in cut ~> span \notin cut \/ span \in abandoned
=============================================================================

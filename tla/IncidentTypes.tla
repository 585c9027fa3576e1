--------------------------- MODULE IncidentTypes ---------------------------
(***************************************************************************)
(* The enumerations of backend/app/models.py and the per-type tables the   *)
(* incident workflow decides by: which layer an alarm is of, whether a     *)
(* trap of the type opens an incident at all, whether auto-heal has a      *)
(* playbook for it, and whether the device reports its condition clearing. *)
(* Constant-level only.                                                    *)
(***************************************************************************)

IncidentType ==
  {"LINK_DOWN", "LINK_UP", "LINK_FLAP", "COLD_START", "WARM_START",
   "AUTH_FAILURE", "BGP_STATE_CHANGE", "HIGH_CPU", "ENV_ALARM",
   "CONFIG_CHANGE", "BFD_SESSION_DOWN", "ISIS_NBR_DOWN", "ISIS_NBR_UP",
   "OPTICAL_ALARM", "FAN_FAILURE", "PSU_FAILURE", "HIGH_MEMORY", "UNKNOWN"}

IncidentStatus == {"open", "resolved"}

IncidentStage ==
  {"new", "suppressed", "monitoring", "triage", "acknowledged",
   "dispatched", "resolved"}

\* The reasons an operator may give; the others are the system's own.
USER_RESOLUTION_REASONS == {"fixed", "false_positive", "maintenance", "duplicate"}

ResolutionReason ==
  USER_RESOLUTION_REASONS \cup
  {"auto_cleared", "auto_healed", "root_cause_resolved", "reset"}

RouterStatus == {"up", "down", "flapping", "unknown"}

\* The physical layer is the listed types, everything else is L3.
Layer(type) ==
  IF type \in {"OPTICAL_ALARM", "FAN_FAILURE", "PSU_FAILURE"} THEN "L1" ELSE "L3"

AUTO_HEAL_ELIGIBLE_TYPES ==
  {"LINK_DOWN", "LINK_FLAP", "HIGH_CPU", "BGP_STATE_CHANGE", "AUTH_FAILURE",
   "ENV_ALARM", "CONFIG_CHANGE", "BFD_SESSION_DOWN", "ISIS_NBR_DOWN",
   "OPTICAL_ALARM", "FAN_FAILURE", "PSU_FAILURE", "HIGH_MEMORY"}

\* Types that open an incident; a trap of any other type is only an alarm.
IsIncidentType(type) == type \in AUTO_HEAL_ELIGIBLE_TYPES

\* The types with a playbook; for the others auto-heal only notifies.
REMEDIATION_PLAN == {"LINK_DOWN", "LINK_FLAP", "HIGH_CPU", "BGP_STATE_CHANGE"}

CLEARABLE_TYPES == {"LINK_DOWN", "LINK_FLAP", "BGP_STATE_CHANGE", "ISIS_NBR_DOWN"}

SETTLE_EXEMPT_TYPES == {"LINK_FLAP"}

LINK_TYPES == {"LINK_DOWN", "LINK_FLAP"}

\* Stages correlation must not take an incident out of.
HUMAN_OWNED_STAGES == {"acknowledged", "dispatched"}

SYSTEM == "system"

=============================================================================

------------------------ MODULE IncidentLifecycle --------------------------
(***************************************************************************)
(* What backend/app/incidents/service.py promises of an incident's life,   *)
(* whatever alarms, sweeps and operators do: it opens once, with an id of  *)
(* its own; once somebody owns it, only closing takes it from them; it is  *)
(* closed once, by a person at any time or by the system while auto-heal   *)
(* is on; and what is closed stays as it was closed until it is deleted.   *)
(* How incidents are correlated, healed and escalated is not said here.    *)
(***************************************************************************)
EXTENDS Naturals

CONSTANTS
  Incidents,   \* their ids, in the order they open
  People,      \* who may close an incident, besides
  System,      \* the system itself
  NoOne        \* who closed an incident that is not closed

VARIABLES
  phase,    \* of every incident
  closer,   \* who closed it
  healing   \* whether auto-heal is on

lifecycleVars == <<phase, closer, healing>>

Phase == {"unborn", "queued", "owned", "closed", "deleted"}

OpenIncidents == {n \in Incidents : phase[n] \in {"queued", "owned"}}

Enter(S, next) == phase' = [n \in Incidents |-> IF n \in S THEN next ELSE phase[n]]

Appear(n) ==
  /\ phase[n] = "unborn"
  /\ \A m \in Incidents : m < n => phase[m] # "unborn"
  /\ Enter({n}, "queued")
  /\ UNCHANGED <<closer, healing>>

Own(n) ==
  /\ n \in OpenIncidents
  /\ Enter({n}, "owned")
  /\ UNCHANGED <<closer, healing>>

Close(S, agent) ==
  /\ S # {} /\ S \subseteq OpenIncidents
  /\ agent = System => healing
  /\ Enter(S, "closed")
  /\ closer' = [n \in Incidents |-> IF n \in S THEN agent ELSE closer[n]]
  /\ UNCHANGED healing

Delete(S) ==
  /\ S # {} /\ \A n \in S : phase[n] # "unborn"
  /\ Enter(S, "deleted")
  /\ closer' = [n \in Incidents |-> IF n \in S THEN NoOne ELSE closer[n]]
  /\ UNCHANGED healing

Switch ==
  /\ healing' = ~healing
  /\ UNCHANGED <<phase, closer>>

LifecycleInit ==
  /\ phase = [n \in Incidents |-> "unborn"]
  /\ closer = [n \in Incidents |-> NoOne]
  /\ healing \in BOOLEAN

LifecycleNext ==
  \/ \E n \in Incidents : Appear(n) \/ Own(n)
  \/ \E S \in SUBSET Incidents, agent \in People \cup {System} : Close(S, agent)
  \/ \E S \in SUBSET Incidents : Delete(S)
  \/ Switch

LifecycleSpec == LifecycleInit /\ [][LifecycleNext]_lifecycleVars

=============================================================================

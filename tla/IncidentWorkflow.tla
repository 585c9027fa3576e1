------------------------- MODULE IncidentWorkflow --------------------------
(***************************************************************************)
(* The incident workflow of backend/app/incidents/service.py, with the     *)
(* trap handling that feeds it (snmp/classifier.py, snmp/flapping.py), the *)
(* root-cause correlation it applies (correlation.py), the auto-heal       *)
(* decision (remediation/engine.py), the sweeper, the operators' actions   *)
(* (api/incidents.py), the auto-heal switch (api/simulation.py) and the    *)
(* deletion of a router (api/routers.py).                                  *)
(*                                                                         *)
(* One action is one committed transaction; how the transactions of the    *)
(* API and of the correlator interleave is another module's subject.  Time *)
(* is kept as ages: a row carries how long ago it opened and how long ago  *)
(* its stage changed, each up to the value beyond which no query tells     *)
(* ages apart.  The topology graph is assumed to mirror the peerings.      *)
(***************************************************************************)
EXTENDS Naturals, FiniteSets, IncidentTypes

CONSTANTS
  Routers,          \* the fleet at the start (mgmt addresses)
  Ifaces,           \* interface names
  Peerings,         \* BGP peerings, each with one fiber run
  SideA, SideB,     \* [Peerings -> Routers]: the routers at its two ends
  Span,             \* [Peerings -> SUBSET (Routers \X Ifaces)]: SUPPORTED_BY
  LinkPorts,        \* <<router, iface>> that send linkDown/linkUp
  IsisPorts,        \* <<router, iface>> that send isisAdjacencyDown/Up
  BgpPorts,         \* <<router, iface>> that send bgpEstablished
  Raises,           \* <<type, router, iface>> raised by any other trap or rule
  RuleClears,       \* <<type, router, iface>> a custom CLEAR rule clears
  Users,            \* operators' accounts
  Principals,       \* who calls the API: some users, perhaps the Service token
  OperatorReasons,  \* the resolution reasons operators pick
  Deletable,        \* the routers an admin may delete
  Settle,           \* INCIDENT_SETTLE_SECONDS, in ticks
  CorrWindow,       \* CORRELATION_WINDOW_SECONDS, in ticks
  MonitorTimeout,   \* INCIDENT_MONITORING_TIMEOUT_SECONDS, in ticks
  FlapThreshold,    \* FLAP_TRANSITION_THRESHOLD
  SweepBatch,       \* SWEEP_BATCH
  MaxIncidents      \* bound of the model: incidents ever opened

Ids        == 1 .. MaxIncidents
NoId       == 0
NoIface    == "no interface"
NoPeering  == "no peering"
NoReason   == "none"

\* No accounts: Nobody is a NULL owner or resolver, Service the caller with the API
\* token, whom no user stands behind; both are other values than any account.  An
\* account may have any username, also the one the system signs with, SYSTEM.
Nobody     == "nobody"
Service    == "service"
Port       == Routers \X (Ifaces \cup {NoIface})

ASSUME TopologyAssumption ==
  /\ SideA \in [Peerings -> Routers]
  /\ SideB \in [Peerings -> Routers]
  /\ Span \in [Peerings -> SUBSET (Routers \X Ifaces)]
  /\ NoIface \notin Ifaces
  /\ NoPeering \notin Peerings

ASSUME InputAssumption ==
  /\ LinkPorts \subseteq Port /\ IsisPorts \subseteq Port /\ BgpPorts \subseteq Port
  /\ Raises \subseteq AUTO_HEAL_ELIGIBLE_TYPES \X Routers \X (Ifaces \cup {NoIface})
  /\ RuleClears \subseteq AUTO_HEAL_ELIGIBLE_TYPES \X Routers \X (Ifaces \cup {NoIface})
  /\ OperatorReasons \subseteq USER_RESOLUTION_REASONS
  /\ Deletable \subseteq Routers
  /\ {Nobody, Service} \cap Users = {}
  /\ Principals \subseteq Users \cup {Service}

ASSUME BoundAssumption ==
  /\ Settle \in Nat /\ CorrWindow \in Nat /\ MonitorTimeout \in Nat
  /\ FlapThreshold \in Nat \ {0} /\ SweepBatch \in Nat \ {0}
  /\ MaxIncidents \in Nat

VARIABLES
  incidents,   \* the incidents table: a function from the ids of its rows
  nextId,      \* the id the next inserted row gets
  routers,     \* the routers table: status of every router still in the fleet
  autoHeal,    \* the auto-heal switch of app_settings
  linkEvents   \* link transitions in the flap window, per port

vars == <<incidents, nextId, routers, autoHeal, linkEvents>>

-----------------------------------------------------------------------------
(* Rows                                                                    *)

AgeCap == CorrWindow + 1

\* Only the sweeper reads stage_changed_at, of NEW and MONITORING rows.
StageAgeCap(stage) ==
  CASE stage = "new" -> Settle [] stage = "monitoring" -> MonitorTimeout [] OTHER -> 0

\* cleared is device_cleared_at, by is resolved_by; playbooks counts the
\* backup and remediation rows written for the incident.
Incident ==
  [router : Routers, type : AUTO_HEAL_ELIGIBLE_TYPES,
   iface : Ifaces \cup {NoIface}, peering : Peerings \cup {NoPeering},
   status : IncidentStatus, stage : IncidentStage,
   root : Ids \cup {NoId}, owner : Users \cup {Nobody}, cleared : BOOLEAN,
   reason : ResolutionReason \cup {NoReason},
   by : Principals \cup {SYSTEM, Nobody}, playbooks : Nat,
   age : 0 .. AgeCap, stageAge : Nat]

NewIncident(r, t, i, p) ==
  [router |-> r, type |-> t, iface |-> i, peering |-> p,
   status |-> "open", stage |-> "new", root |-> NoId, owner |-> Nobody,
   cleared |-> FALSE, reason |-> NoReason, by |-> Nobody, playbooks |-> 0,
   age |-> 0, stageAge |-> 0]

Open(rows, n) == rows[n].status = "open"

SetStage(row, stage) == [row EXCEPT !.stage = stage, !.stageAge = 0]

HasClearSignal(row) ==
  IF row.type = "OPTICAL_ALARM" THEN row.peering # NoPeering
                                ELSE row.type \in CLEARABLE_TYPES

-----------------------------------------------------------------------------
(* Topology and correlation lookups                                        *)

Fleet == DOMAIN routers

\* Deleting a router deletes its peerings, in Postgres and in the graph.
Live(p) == {SideA[p], SideB[p]} \subseteq Fleet

PeeringsFor(r, i) ==
  {p \in Peerings : Live(p) /\ IF i = NoIface THEN \E j \in Ifaces : <<r, j>> \in Span[p]
                                              ELSE <<r, i>> \in Span[p]}

\* The open L1 incidents young enough to explain an L3 alarm on <<r, i>> ...
RootCandidates(r, i) ==
  {n \in DOMAIN incidents :
     /\ incidents[n].peering \in PeeringsFor(r, i)
     /\ Layer(incidents[n].type) = "L1"
     /\ Open(incidents, n)
     /\ incidents[n].age <= CorrWindow}

\* ... of which the oldest is taken.
OpenL1RootCauses(r, i) ==
  {n \in RootCandidates(r, i) :
     \A m \in RootCandidates(r, i) : incidents[n].age >= incidents[m].age}

\* Mutant of L3Symptoms: only incidents still in their settle window.
ClaimsOnlyNew(p) ==
  {n \in DOMAIN incidents :
     /\ p \in PeeringsFor(incidents[n].router, incidents[n].iface)
     /\ Layer(incidents[n].type) = "L3"
     /\ Open(incidents, n)
     /\ incidents[n].root = NoId
     /\ incidents[n].age <= CorrWindow
     /\ incidents[n].stage = "new"}

\* Mutant of L3Symptoms: the human-owned stages are not left out.
ClaimsOwnedToo(p) ==
  {n \in DOMAIN incidents :
     /\ p \in PeeringsFor(incidents[n].router, incidents[n].iface)
     /\ Layer(incidents[n].type) = "L3"
     /\ Open(incidents, n)
     /\ incidents[n].root = NoId
     /\ incidents[n].age <= CorrWindow}

\* What an L1 incident opening on p claims.
L3Symptoms(p) ==
  {n \in DOMAIN incidents :
     /\ p \in PeeringsFor(incidents[n].router, incidents[n].iface)
     /\ Layer(incidents[n].type) = "L3"
     /\ Open(incidents, n)
     /\ incidents[n].root = NoId
     /\ incidents[n].age <= CorrWindow
     /\ incidents[n].stage \notin HUMAN_OWNED_STAGES}

LinkSymptom(row, root) == [SetStage(row, "suppressed") EXCEPT !.root = root]

-----------------------------------------------------------------------------
(* Opening                                                                 *)

\* Mutant of SameProblem: what the device has cleared is taken as over.
SameUnclearedProblem(r, t, i, p) ==
  {n \in DOMAIN incidents :
     /\ incidents[n].router = r
     /\ incidents[n].type = t
     /\ incidents[n].iface = i
     /\ Open(incidents, n)
     /\ ~incidents[n].cleared
     /\ p # NoPeering => incidents[n].peering = p}

\* The open incidents a repeat of the alarm would bump.
SameProblem(r, t, i, p) ==
  {n \in DOMAIN incidents :
     /\ incidents[n].router = r
     /\ incidents[n].type = t
     /\ incidents[n].iface = i
     /\ Open(incidents, n)
     /\ p # NoPeering => incidents[n].peering = p}

\* Mutant of Bump: only counts the trap.
BumpKeepsCleared(n) ==
  /\ incidents' = incidents
  /\ nextId' = nextId

Bump(n) ==
  /\ incidents' = [incidents EXCEPT ![n].cleared = FALSE]
  /\ nextId' = nextId

\* Inserts row under nextId and makes it the root of the rows in claimed.
Insert(row, claimed) ==
  /\ nextId \in Ids
  /\ nextId' = nextId + 1
  /\ incidents' = [n \in DOMAIN incidents \cup {nextId} |->
                     IF n = nextId THEN row
                     ELSE IF n \in claimed THEN LinkSymptom(incidents[n], nextId)
                     ELSE incidents[n]]

OpenL3(r, t, i, p) ==
  IF OpenL1RootCauses(r, i) = {}
    THEN Insert(NewIncident(r, t, i, p), {})
    ELSE \E root \in OpenL1RootCauses(r, i) :
           Insert(LinkSymptom(NewIncident(r, t, i, p), root), {})

OpenL1(r, t, i, p) ==
  Insert(NewIncident(r, t, i, p), IF p = NoPeering THEN {} ELSE L3Symptoms(p))

OpenOrBump(r, t, i, p) ==
  \/ \E n \in SameProblem(r, t, i, p) : Bump(n)
  \/ /\ SameProblem(r, t, i, p) = {}
     /\ IF Layer(t) = "L3" THEN OpenL3(r, t, i, p) ELSE OpenL1(r, t, i, p)

-----------------------------------------------------------------------------
(* Resolving                                                               *)

\* Mutant of Resolved: the coarse status changes, the stage does not.
ResolvedButStaged(row, reason, by) ==
  [row EXCEPT !.status = "resolved", !.reason = reason, !.by = by, !.age = 0]

\* No query reads the times of a resolved row: its ages are dropped.
Resolved(row, reason, by) ==
  [SetStage(row, "resolved") EXCEPT !.status = "resolved", !.reason = reason,
                                    !.by = by, !.age = 0]

\* Mutant of Released: back to NEW, but still linked.
ReleasedStillLinked(row) == SetStage(row, "new")

\* Mutant of Released: a device clear takes the symptoms along.
ReleasedAsClosed(row) == Resolved(row, "root_cause_resolved", SYSTEM)

Released(row) == [SetStage(row, "new") EXCEPT !.root = NoId]

\* Mutant of OpenSymptoms: only those on the root's own router.
OpenSymptomsOnRouter(rows, roots) ==
  {n \in DOMAIN rows : /\ Open(rows, n) /\ rows[n].root \in roots
                       /\ rows[n].router = rows[rows[n].root].router}

OpenSymptoms(rows, roots) ==
  {n \in DOMAIN rows : Open(rows, n) /\ rows[n].root \in roots}

\* Mutant of Closing: _resolve without its early return.
ClosingAgain(rows, S) == S

Closing(rows, S) == {n \in S : Open(rows, n)}

\* The rows once _resolve has run on each incident of S: those open are
\* resolved, and their open symptoms released or resolved with them.
ResolveEach(rows, S, reason, by) ==
  LET closing  == Closing(rows, S)
      symptoms == OpenSymptoms(rows, closing) \ closing
  IN [n \in DOMAIN rows |->
        IF n \in closing THEN Resolved(rows[n], reason, by)
        ELSE IF n \notin symptoms THEN rows[n]
        ELSE IF reason = "auto_cleared" THEN Released(rows[n])
        ELSE Resolved(rows[n], "root_cause_resolved", by)]

\* The incidents that keep router r down or flapping.
LinkHolders(rows, r) ==
  {n \in DOMAIN rows : /\ rows[n].router = r
                       /\ rows[n].type \in LINK_TYPES
                       /\ Open(rows, n)
                       /\ ~rows[n].cleared}

RefreshRouterLinkStatus(rows, R) ==
  [r \in Fleet |-> IF r \in R /\ LinkHolders(rows, r) = {} THEN "up" ELSE routers[r]]

\* The routers of the link incidents that rows resolves.
LinkResolvedOn(rows) ==
  {incidents[n].router : n \in {m \in DOMAIN incidents :
     incidents[m].type \in LINK_TYPES /\ Open(incidents, m) /\ ~Open(rows, m)}}

Write(rows) ==
  /\ incidents' = rows
  /\ routers' = RefreshRouterLinkStatus(rows, LinkResolvedOn(rows))
  /\ nextId' = nextId

\* The rows after the device reports the condition on <<r, i>> gone.
AfterClear(types, r, i) ==
  LET C == {n \in DOMAIN incidents : /\ incidents[n].router = r
                                     /\ incidents[n].iface = i
                                     /\ incidents[n].type \in types
                                     /\ Open(incidents, n)}
  IN IF autoHeal THEN ResolveEach(incidents, C, "auto_cleared", SYSTEM)
     ELSE [n \in DOMAIN incidents |->
             IF n \in C THEN [incidents[n] EXCEPT !.cleared = TRUE] ELSE incidents[n]]

-----------------------------------------------------------------------------
(* Traps, as classify_and_store handles them                               *)

CountLinkEvent(r, i) ==
  IF linkEvents[<<r, i>>] < FlapThreshold THEN linkEvents[<<r, i>>] + 1 ELSE FlapThreshold

LinkEvent(r, i) ==
  /\ r \in Fleet
  /\ linkEvents' = [linkEvents EXCEPT ![<<r, i>>] = CountLinkEvent(r, i)]
  /\ UNCHANGED autoHeal

\* A linkDown or linkUp whose transition reaches the threshold.
LinkFlap(r, i) ==
  /\ LinkEvent(r, i)
  /\ CountLinkEvent(r, i) >= FlapThreshold
  /\ routers' = [routers EXCEPT ![r] = "flapping"]
  /\ OpenOrBump(r, "LINK_FLAP", i, NoPeering)

LinkDown(r, i) ==
  /\ LinkEvent(r, i)
  /\ CountLinkEvent(r, i) < FlapThreshold
  /\ routers' = [routers EXCEPT ![r] = "down"]
  /\ OpenOrBump(r, "LINK_DOWN", i, NoPeering)

LinkUp(r, i) ==
  /\ LinkEvent(r, i)
  /\ CountLinkEvent(r, i) < FlapThreshold
  /\ incidents' = AfterClear(LINK_TYPES, r, i)
  /\ routers' = RefreshRouterLinkStatus(incidents', {r})
  /\ UNCHANGED nextId

\* Any trap that only opens or bumps an incident: isisAdjacencyDown,
\* bgpBackwardTransition, the hardware alarms and custom RAISE rules.
RaiseTrap(r, t, i) ==
  /\ r \in Fleet
  /\ OpenOrBump(r, t, i, NoPeering)
  /\ UNCHANGED <<routers, autoHeal, linkEvents>>

IsisAdjacencyDown(r, i) == RaiseTrap(r, "ISIS_NBR_DOWN", i)

\* Any trap that only clears: isisAdjacencyUp, bgpEstablished, CLEAR rules.
ClearTrap(r, t, i) ==
  /\ r \in Fleet
  /\ Write(AfterClear({t}, r, i))
  /\ UNCHANGED <<autoHeal, linkEvents>>

IsisAdjacencyUp(r, i) == ClearTrap(r, "ISIS_NBR_DOWN", i)
BgpEstablished(r, i)  == ClearTrap(r, "BGP_STATE_CHANGE", i)
RuleClear(r, t, i)    == ClearTrap(r, t, i)

\* opticalLossOfSignal: attributed to the peering, reported by its side A.
FiberCut(p) ==
  /\ Live(p)
  /\ OpenOrBump(SideA[p], "OPTICAL_ALARM", NoIface, p)
  /\ UNCHANGED <<routers, autoHeal, linkEvents>>

FiberIncidents(p) ==
  {n \in DOMAIN incidents : /\ incidents[n].peering = p
                            /\ incidents[n].type = "OPTICAL_ALARM"
                            /\ Open(incidents, n)}

\* Mutant of FiberCutClear: the auto-heal switch is not consulted.
FiberCutClearAlways(p) ==
  /\ SideA[p] \in Fleet
  /\ FiberIncidents(p) # {}
  /\ Write(ResolveEach(incidents, FiberIncidents(p), "auto_cleared", SYSTEM))
  /\ UNCHANGED <<autoHeal, linkEvents>>

\* opticalSignalRestored: rolled back when there is nothing to clear, and
\* only kept as an alarm while auto-heal is off.
FiberCutClear(p) ==
  /\ SideA[p] \in Fleet
  /\ autoHeal
  /\ FiberIncidents(p) # {}
  /\ Write(ResolveEach(incidents, FiberIncidents(p), "auto_cleared", SYSTEM))
  /\ UNCHANGED <<autoHeal, linkEvents>>

\* coldStart and warmStart.
Boot(r) ==
  /\ r \in Fleet
  /\ routers' = [routers EXCEPT ![r] = "up"]
  /\ UNCHANGED <<incidents, nextId, autoHeal, linkEvents>>

-----------------------------------------------------------------------------
(* The sweeper                                                             *)

Ready(rows) ==
  {n \in DOMAIN rows : /\ Open(rows, n)
                       /\ rows[n].stage = "new"
                       /\ rows[n].root = NoId
                       /\ \/ rows[n].stageAge >= Settle
                          \/ rows[n].type \in SETTLE_EXEMPT_TYPES}

\* Mutant of Overdue: nothing is escalated while auto-heal is off.
OverdueWhileOn(rows) ==
  {n \in DOMAIN rows : /\ autoHeal
                       /\ Open(rows, n)
                       /\ rows[n].stage = "monitoring"
                       /\ rows[n].stageAge >= MonitorTimeout}

Overdue(rows) ==
  {n \in DOMAIN rows : /\ Open(rows, n)
                       /\ rows[n].stage = "monitoring"
                       /\ rows[n].stageAge >= MonitorTimeout}

\* At most SweepBatch of them.
Batch(S) ==
  {B \in SUBSET S : IF Cardinality(S) <= SweepBatch THEN B = S
                                                    ELSE Cardinality(B) = SweepBatch}

\* A batch none left behind is older than, up to the age at which it was due; the
\* order beyond, and what depends on it, is SweepQueue's.
OldestBatch(rows, S) ==
  {B \in Batch(S) : \A n \in B, m \in S \ B : rows[n].stageAge >= rows[m].stageAge}

\* maybe_remediate and _run_auto_heal up to the stage: the backup and the
\* action are recorded, fixed says whether the playbook reported success.
Healed(row, fixed) ==
  IF ~IsIncidentType(row.type) THEN SetStage(row, "triage")
  ELSE LET run == [row EXCEPT !.playbooks = @ + 1]
       IN IF row.type \in REMEDIATION_PLAN /\ fixed
            THEN IF HasClearSignal(row) THEN SetStage(run, "monitoring") ELSE run
            ELSE SetStage(run, "triage")

\* A fix no clear trap will ever confirm resolves its incident at once.
AutoHealed(B, fixed) ==
  {n \in B \cap fixed : /\ incidents[n].type \in REMEDIATION_PLAN
                        /\ ~HasClearSignal(incidents[n])}

Judged(B, fixed) ==
  IF autoHeal
    THEN ResolveEach([n \in DOMAIN incidents |->
                        IF n \in B THEN Healed(incidents[n], n \in fixed) ELSE incidents[n]],
                     AutoHealed(B, fixed), "auto_healed", SYSTEM)
    ELSE [n \in DOMAIN incidents |->
            IF n \in B THEN SetStage(incidents[n], "triage") ELSE incidents[n]]

Escalated(rows, E) ==
  [n \in DOMAIN rows |-> IF n \in E THEN SetStage(rows[n], "triage") ELSE rows[n]]

Sweep ==
  /\ Ready(incidents) \cup Overdue(incidents) # {}
  /\ \E B \in OldestBatch(incidents, Ready(incidents)) :
       \E fixed \in SUBSET B :
         LET judged == Judged(B, fixed)
         IN \E E \in Batch(Overdue(judged)) : Write(Escalated(judged, E))
  /\ UNCHANGED <<autoHeal, linkEvents>>

-----------------------------------------------------------------------------
(* Operators                                                               *)

\* Mutant of UserOf: the service token's name is stored as an owner.
UserOfAnyone(principal) == principal

UserOf(principal) == IF principal = Service THEN Nobody ELSE principal

Actionable(n) == Open(incidents, n) /\ incidents[n].root = NoId

Acknowledged(row, user) ==
  [IF row.stage = "dispatched" THEN row ELSE SetStage(row, "acknowledged")
   EXCEPT !.owner = user]

Dispatched(row, user) ==
  [SetStage(row, "dispatched")
   EXCEPT !.owner = IF row.owner = Nobody THEN user ELSE row.owner]

Acknowledge(n, principal) ==
  /\ Actionable(n)
  /\ incidents' = [incidents EXCEPT ![n] = Acknowledged(@, UserOf(principal))]
  /\ UNCHANGED <<nextId, routers, autoHeal, linkEvents>>

\* The mail went out (or was simulated); a failed send changes no incident.
Dispatch(n, principal) ==
  /\ Actionable(n)
  /\ incidents' = [incidents EXCEPT ![n] = Dispatched(@, UserOf(principal))]
  /\ UNCHANGED <<nextId, routers, autoHeal, linkEvents>>

\* Resolve one or several: symptoms among them are skipped.
ResolveByUser(S, principal, reason) ==
  /\ \E n \in S : Actionable(n)
  /\ Write(ResolveEach(incidents, {n \in S : incidents[n].root = NoId}, reason, principal))
  /\ UNCHANGED <<autoHeal, linkEvents>>

\* Rows come back in no order: a symptom met before its root is RESET, one
\* met after it has already gone with the root (withRoot).
ResetAllOpen(withRoot, principal) ==
  LET open == {n \in DOMAIN incidents : Open(incidents, n)}
  IN /\ open # {}
     /\ withRoot \subseteq OpenSymptoms(incidents, open)
     /\ Write([n \in DOMAIN incidents |->
                 IF n \notin open THEN incidents[n]
                 ELSE IF n \in withRoot
                        THEN Resolved(incidents[n], "root_cause_resolved", principal)
                        ELSE Resolved(incidents[n], "reset", principal)])
     /\ UNCHANGED <<autoHeal, linkEvents>>

SetAutoHeal(enabled) ==
  /\ autoHeal' = enabled
  /\ UNCHANGED <<incidents, nextId, routers, linkEvents>>

\* Its incidents go with it; references to them and to its peerings are nulled.
DeleteRouter(r) ==
  LET dead == {n \in DOMAIN incidents : incidents[n].router = r}
      gone == {p \in Peerings : r \in {SideA[p], SideB[p]}}
  IN /\ r \in Fleet \cap Deletable
     /\ incidents' = [n \in DOMAIN incidents \ dead |->
          [incidents[n] EXCEPT !.root = IF @ \in dead THEN NoId ELSE @,
                               !.peering = IF @ \in gone THEN NoPeering ELSE @]]
     /\ routers' = [s \in Fleet \ {r} |-> routers[s]]
     /\ UNCHANGED <<nextId, autoHeal, linkEvents>>

-----------------------------------------------------------------------------
(* Time                                                                    *)

Older(age, cap) == IF age < cap THEN age + 1 ELSE cap

\* A tick passes; link transitions may drop out of the flap window.
Tick ==
  /\ incidents' = [n \in DOMAIN incidents |->
       IF Open(incidents, n)
         THEN [incidents[n] EXCEPT !.age = Older(@, AgeCap),
                                   !.stageAge = Older(@, StageAgeCap(incidents[n].stage))]
         ELSE incidents[n]]
  /\ linkEvents' \in [LinkPorts -> 0 .. FlapThreshold]
  /\ \A port \in LinkPorts : linkEvents'[port] <= linkEvents[port]
  /\ UNCHANGED <<nextId, routers, autoHeal>>

-----------------------------------------------------------------------------

Init ==
  /\ incidents = [n \in {} |-> NoId]
  /\ nextId = 1
  /\ routers = [r \in Routers |-> "unknown"]
  /\ autoHeal \in BOOLEAN
  /\ linkEvents = [port \in LinkPorts |-> 0]

LinkTrap == \E port \in LinkPorts :
  LinkFlap(port[1], port[2]) \/ LinkDown(port[1], port[2]) \/ LinkUp(port[1], port[2])

Trap ==
  \/ LinkTrap
  \/ \E port \in IsisPorts : IsisAdjacencyDown(port[1], port[2]) \/ IsisAdjacencyUp(port[1], port[2])
  \/ \E port \in BgpPorts : BgpEstablished(port[1], port[2])
  \/ \E alarm \in Raises : RaiseTrap(alarm[2], alarm[1], alarm[3])
  \/ \E rule \in RuleClears : RuleClear(rule[2], rule[1], rule[3])
  \/ \E p \in Peerings : FiberCut(p) \/ FiberCutClear(p)
  \/ \E r \in Routers : Boot(r)

Operator ==
  \/ \E n \in DOMAIN incidents, principal \in Principals :
       Acknowledge(n, principal) \/ Dispatch(n, principal)
  \/ \E S \in SUBSET DOMAIN incidents, principal \in Principals, reason \in OperatorReasons :
       ResolveByUser(S, principal, reason)

Admin ==
  \/ \E withRoot \in SUBSET DOMAIN incidents, principal \in Principals :
       ResetAllOpen(withRoot, principal)
  \/ \E enabled \in BOOLEAN : SetAutoHeal(enabled)
  \/ \E r \in Routers : DeleteRouter(r)

Next == Trap \/ Sweep \/ Operator \/ Admin \/ Tick

\* The correlator comes back to sweep at least once a second and time
\* passes; nothing obliges a device or an operator to do anything.
Fairness == WF_vars(Sweep) /\ WF_vars(Tick)

Spec == Init /\ [][Next]_vars /\ Fairness

-----------------------------------------------------------------------------
(* Properties                                                              *)

\* Every row of the incidents and routers tables has its columns' types, and
\* ids are handed out in order: no row has an id not yet given.
TypeOK ==
  /\ nextId \in 1 .. MaxIncidents + 1
  /\ DOMAIN incidents \subseteq 1 .. nextId - 1
  /\ incidents \in [DOMAIN incidents -> Incident]
  /\ Fleet \subseteq Routers
  /\ routers \in [Fleet -> RouterStatus]
  /\ autoHeal \in BOOLEAN
  /\ linkEvents \in [LinkPorts -> 0 .. FlapThreshold]

OpenSymptom(rows, n) == Open(rows, n) /\ rows[n].root # NoId

\* What SymptomTree says of the rows of a table.
TreeOf(rows) ==
  \A n \in DOMAIN rows : OpenSymptom(rows, n) =>
    /\ rows[n].stage = "suppressed"
    /\ Layer(rows[n].type) = "L3"
    /\ rows[n].root \in DOMAIN rows
    /\ LET root == rows[rows[n].root]
       IN root.status = "open" /\ root.root = NoId /\ Layer(root.type) = "L1"

\* The incident tree (service.py _link_symptom, _resolve): an open symptom is
\* a suppressed L3 incident whose root is an open L1 incident that is no
\* symptom itself.  Whatever order alarms, clears, sweeps, operators and
\* deletions come in, no symptom outlives its root or hangs from another
\* symptom, so resolving roots always reaches every symptom.
SymptomTree == TreeOf(incidents)

StagedOf(rows) ==
  \A n \in DOMAIN rows :
    /\ rows[n].status = "resolved" <=> rows[n].stage = "resolved"
    /\ rows[n].status = "resolved" <=> rows[n].reason # NoReason

\* The coarse status and the stage never disagree, and a resolution reason
\* is on record exactly for the resolved rows (everything but the workflow
\* filters on status only, the queue and the sweeper on both).
StageMatchesStatus == StagedOf(incidents)

\* open_or_bump's promise of one open incident per distinct problem.  An
\* optical alarm detached from its peering by a deletion is exempt: two fiber
\* cuts of one router look the same once both peerings are gone.
OneOpenPerProblem ==
  \A n, m \in DOMAIN incidents :
    /\ Open(incidents, n) /\ Open(incidents, m)
    /\ incidents[n].router = incidents[m].router
    /\ incidents[n].type = incidents[m].type
    /\ incidents[n].iface = incidents[m].iface
    /\ incidents[n].peering = incidents[m].peering
    /\ incidents[n].type = "OPTICAL_ALARM" => incidents[n].peering # NoPeering
    => n = m

\* n and m opened within one correlation window of each other (known as long
\* as neither age has reached its cap).
OpenedTogether(n, m) == incidents[n].age <= CorrWindow /\ incidents[m].age <= CorrWindow

\* Correlation misses nothing (correlation.py, both directions): of an open
\* L1 incident on a peering and an open L3 incident on an interface of its
\* span that opened within the window of each other, in either order, the
\* second is a symptom of the first unless a human owns it.
CorrelationIsComplete ==
  \A n, m \in DOMAIN incidents :
    /\ Open(incidents, n) /\ Open(incidents, m)
    /\ Layer(incidents[m].type) = "L1"
    /\ Layer(incidents[n].type) = "L3"
    /\ PeeringsFor(incidents[n].router, incidents[n].iface) = {incidents[m].peering}
    /\ OpenedTogether(n, m)
    => \/ incidents[n].root = m
       \/ incidents[n].stage \in HUMAN_OWNED_STAGES

\* A router shown down or flapping has an open link incident the device has
\* not cleared (refresh_router_link_status): a router never stays red with
\* nothing left in the workflow that would turn it back.
LinkStatusIsJustified ==
  \A r \in Fleet : routers[r] \in {"down", "flapping"} => LinkHolders(incidents, r) # {}

AutoReasons == {"auto_cleared", "auto_healed"}

\* The author on record is one the reason on record can have.
Attributed(row) ==
  IF row.reason \in AutoReasons THEN row.by = SYSTEM ELSE row.by \in Principals

\* What went with its root went by the hand that closed the root.
WentWithRoot(rows, n) ==
  LET root == rows[n].root
  IN rows[n].reason = "root_cause_resolved" /\ root # NoId =>
       /\ root \in DOMAIN rows /\ ~Open(rows, root)
       /\ rows[root].by = rows[n].by
       /\ rows[root].reason \in USER_RESOLUTION_REASONS \cup {"reset"}

\* Who closed an incident matches why (models.py:254), whatever the accounts are
\* called: the automatic reasons are the system's, every other is a caller's, and
\* a symptom closed with its root was closed by whoever closed the root, for a
\* reason of a person's.  The system never closes a symptom by closing its root.
ResolutionIsAttributed ==
  \A n \in DOMAIN incidents :
    ~Open(incidents, n) => Attributed(incidents[n]) /\ WentWithRoot(incidents, n)

\* An open incident somebody owns is acknowledged or dispatched: ownership is
\* never left behind on an incident the sweeper or correlation still moves.
OwnershipMatchesStage ==
  \A n \in DOMAIN incidents :
    Open(incidents, n) /\ incidents[n].owner # Nobody
    => incidents[n].stage \in HUMAN_OWNED_STAGES

Kept == DOMAIN incidents \cap DOMAIN incidents'

\* An incident an operator acknowledged or dispatched leaves those stages
\* only by being resolved: correlation and the sweeper never take it back
\* (correlation.py _HUMAN_OWNED_STAGES).
HumanOwnedIsKept ==
  [][\A n \in Kept :
       Open(incidents, n) /\ incidents[n].stage \in HUMAN_OWNED_STAGES
       => incidents'[n].stage \in HUMAN_OWNED_STAGES \cup {"resolved"}]_vars

\* A resolved incident is history: no bump, clear, sweep or cascade reopens
\* it or rewrites who resolved it and why (a deletion may null its references).
ResolvedIsFinal ==
  [][\A n \in Kept :
       ~Open(incidents, n) =>
         incidents'[n] = [incidents[n] EXCEPT !.root = incidents'[n].root,
                                              !.peering = incidents'[n].peering]]_vars

\* With auto-heal off no playbook runs and nothing is resolved but by a caller of
\* the API, be it by trap, sweep or cascade (service.py module docstring).
AutoHealOffMeansHandsOff ==
  [][~autoHeal => \A n \in Kept :
       /\ incidents'[n].playbooks = incidents[n].playbooks
       /\ Open(incidents, n) /\ ~Open(incidents', n) =>
            incidents'[n].reason \notin AutoReasons /\ incidents'[n].by \in Principals]_vars

IsMonitoring(n) == n \in DOMAIN incidents /\ Open(incidents, n) /\ incidents[n].stage = "monitoring"

\* A fix is confirmed or escalated: no incident stays in MONITORING, whether the
\* clear trap it waits for comes, is lost, or comes too late, and whatever happens
\* to the switch and to its roots meanwhile.  The incidents are as many as the
\* bound of the model: the query has a limit and no order, so nothing is said of
\* fixes that go overdue faster than sweeps can escalate them.
FixIsConfirmedOrEscalated == \A n \in Ids : IsMonitoring(n) ~> ~IsMonitoring(n)

-----------------------------------------------------------------------------
(* The workflow implements the incident's life                             *)

PhaseOf(n) ==
  IF n \in DOMAIN incidents
    THEN IF ~Open(incidents, n) THEN "closed"
         ELSE IF incidents[n].stage \in HUMAN_OWNED_STAGES THEN "owned"
         ELSE "queued"
    ELSE IF n < nextId THEN "deleted" ELSE "unborn"

\* Who closed a row, and whether by itself: the system's name does not tell, for
\* an account may have it.
Signature(row) == <<row.by, row.reason \in AutoReasons>>
NoSignature    == <<Nobody, FALSE>>

CloserOf(n) == IF n \in DOMAIN incidents THEN Signature(incidents[n]) ELSE NoSignature

Lifecycle == INSTANCE IncidentLifecycle WITH
  Incidents <- Ids, People <- {<<p, FALSE>> : p \in Principals},
  System <- <<SYSTEM, TRUE>>, NoOne <- NoSignature,
  phase <- [n \in Ids |-> PhaseOf(n)],
  closer <- [n \in Ids |-> CloserOf(n)],
  healing <- autoHeal

\* Every trap, clear, sweep, operator action and deletion is, for the
\* incidents it touches, one legal step of their lives or none: a cascade has
\* one author, no claim takes an incident from its owner, nothing is closed
\* twice, and the system closes nothing while auto-heal is off.
ImplementsLifecycle == Lifecycle!LifecycleSpec

-----------------------------------------------------------------------------
(* What the documentation says and the code does not keep                  *)

\* README.md:561 "runs a rule-based playbook once per incident".
PlaybookRunsOncePerIncident ==
  \A n \in DOMAIN incidents : incidents[n].playbooks <= 1

\* models.py:68 "symptom of an open L1 root cause": a suppressed incident has
\* one; without it neither the sweeper nor the Human Review queue sees it.
SuppressedHasRoot ==
  \A n \in DOMAIN incidents :
    Open(incidents, n) /\ incidents[n].stage = "suppressed" => incidents[n].root # NoId

\* README.md "a link that recovers by itself within the window is never
\* bounced or backed up at all": no playbook on what the device has cleared.
RecoveredLinkIsNotBounced ==
  [][\A n \in Kept :
       incidents[n].type \in LINK_TYPES /\ incidents[n].cleared
       => incidents'[n].playbooks = incidents[n].playbooks]_vars

=============================================================================

# Verification of the Network Control Room

TLA+ models of the backend in `backend/app/`: what each part promises, checked
with TLC on small fleets and proved with TLAPS for every fleet. Paths below are
relative to the repository.

## The system

The Network Control Room watches a fleet of routers. Devices send SNMP traps;
the backend turns them into alarms, groups alarms into incidents, finds the
incident that explains the others, tries to heal what it can, and puts the rest
in front of operators.

| Component | State it keeps | Operations | What makes it correct |
|---|---|---|---|
| Incident workflow (`incidents/service.py`, `models.py`) | `incidents` rows: status, stage, root cause, owner, device-cleared mark, resolution | open or bump, correlate, clear, resolve, acknowledge, dispatch, reset, sweep | symptoms form a tree of depth one under open roots; stage and status agree; resolved is final; nothing waits for ever |
| Root-cause correlation (`correlation.py`) | none | find the root of an L3 alarm; find the symptoms of an L1 alarm | no pair within the window is missed in either order; human-owned incidents are left alone |
| Trap classification (`snmp/classifier.py`, `snmp/flapping.py`, `snmp/oid_map.py`) | trap events (flap window), router status | one transaction per trap, under the router's row lock | one open incident per problem; a red router has an open reason |
| Auto-heal (`remediation/engine.py`) | backups, remediation actions | back up, then run or decline a playbook | hands off when switched off; a fix is confirmed or escalated |
| Incident API (`api/incidents.py`) | none of its own | ack, notify, resolve, bulk resolve, resolve-all | an operator's decision is kept and attributed |
| Switches and reset (`api/simulation.py`) | `app_settings` | auto-heal on/off, traffic, rates, fleet reset | nothing refers to a fleet that is gone |
| Router administration (`api/routers.py`) | `routers` | seed, delete | deleting a router leaves no dangling or unreachable incident |
| Bundles and peerings (`bundles.py`, `api/bgp.py`) | member adjacency, bundle status, BGP session status | member up/down, roll-up, repair | a session is down exactly when it has no transport |
| Alarm pipeline (`snmp/trap_listener.py`, `streaming/`, `ws.py`) | three Kafka topics with offsets, WebSocket connections | receive, normalise, correlate, relay | what happens to an alarm that is lost, repeated or overtaken |
| Fiber fault generator (`fiber_faults.py`, `fault_location.py`) | `active_faults`, tasks | start and end faults | every fault started is ended, one per peering |
| Topology graph (`topology_graph.py`) | the Neo4j mirror of the peerings | sync, delete, look up | never ahead of Postgres |
| Impact and rerouting (`impact.py`, `bgp_topology.py`) | none | compute isolated routers and hurt customers, shortest reroute | agrees with reachability; a failure only adds to the harm |
| Users and sessions (`auth.py`, `api/auth.py`, `api/users.py`) | `users`, session epochs | log in, change, demote, delete | there is always an administrator; a revoked session is revoked |
| MIB registry (`snmp/mib_registry.py`, `api/mibs.py`) | imported MIBs, rules, a cache of both | import, edit rules, look up | a trap is handled by a rule that was in force recently |
| Teams, router models, geocoding, statistics, lists | rows | CRUD and queries | not modelled: single-row CRUD |
| Frontend, simulator, seed data, deployment | | | not modelled: presentation, load generation, configuration |

How they interact:

```
 device / simulator                     operator (API)     fiber_faults
        | UDP trap                            |                 |
        v                                     |                 |
  trap_listener --> raw-alarms --> normalizer --> norm-alarms   |
                        ^-------------------------|-------------'
                                                  v
                     Postgres <---------> correlator ----> incident-events
                        ^   classify_and_store, sweep            |
                        |                                        v
                       API  ---------- event --------------> ws hub --> browsers
                        '--- after commit ---> Neo4j (read by correlation)
```

The correlator is one loop: it polls alarms, handles each in a transaction of
its own (`classify_and_store`), and sweeps every few seconds. The API runs its
own transactions on the same tables at the same time. The sweeper locks the rows
it takes and skips rows somebody else has locked; the API locks nothing.
Coroutine handlers (the incidents API, the fleet reset) use the database without
awaiting it, so they never overlap one another; the other handlers run in a
thread pool, several at once, and their sessions are closed by way of the event
loop. The fiber-fault tasks and the simulation switch live in the backend's
memory and end with it.

What is hard to test here, and therefore what the properties are about: root
and symptom alarms in either order; incidents claimed by a root and released by
its clear while the sweeper and an operator work on them; the auto-heal switch
flipped while incidents are under way; routers deleted under open incidents; a
fix that waits for a clear trap that never comes; the sweep's batch limit; the
races of the API with the correlator; two bundles and a reset that all write one
session; alarms lost, repeated or reordered on the way; fault tasks that outlive
what they were started on; administrators demoting each other; two imports each
rebuilding the same table; and the second database. `PROJECT.json` lists them
with their lines.

## The modules

| Module | Models | Kind |
|---|---|---|
| `IncidentTypes` | the enumerations of `models.py` and the per-type tables | constants |
| `IncidentWorkflow` | the workflow with everything that moves an incident: traps, correlation, auto-heal, the sweeper, operators, the switch, the deletion of a router | state machine |
| `MCIncidentWorkflow` | one peering between two routers, and the alarm sources of each run | for TLC |
| `IncidentLifecycle` | what an incident's life may be, whatever moves it | abstract specification |
| `IncidentWorkflow_proofs` | the inductive invariant and what follows from it | proofs |
| `IncidentLifecycle_proofs` | that `IncidentWorkflow` implements `IncidentLifecycle` | proofs |
| `IncidentProperties_proofs` | the other safety and action properties of the workflow | proofs |
| `SweepQueue` | the queue in front of the sweeper: which incidents a batch takes | state machine |
| `IncidentTransactions` | the API's handlers and the correlator as overlapping transactions | state machine |
| `IncidentTransactions_proofs` | what overlapping transactions leave of decisions and of the tree | proofs |
| `LinkBundles` | members, bundles and sessions; the coroutines that take them down; resolve-all's restore | state machine |
| `LinkBundles_proofs` | that bundles, members and sessions agree and recover | proofs |
| `AlarmPipeline` | an alarm's way from the device to the screen, with losses and crashes | state machine |
| `AlarmPipeline_proofs` | that the store follows its topic, and who may reorder traps | proofs |
| `FiberFaults` | the tasks of the fiber-fault loop | state machine |
| `Topology_proofs` | that peerings, bundles and their mirror agree; that reroutes are shortest, isolation is unreachability, and impact follows the sessions | proofs |
| `UserAccounts` | accounts and sessions under overlapping requests | state machine |
| `Administration_proofs` | that an administrator remains, what a session is worth, what the trap table and the rule cache hold, and the parts side by side | proofs |
| `MibRegistry` | symbol resolution, MIB imports, trap rules and their cache | algorithm and state machine |
| `FleetTopology` | seeding, deletion, repair and reset of the fleet, and its mirror in Neo4j | state machine |
| `NetworkImpact` | impact and reroute over the network of the moment | algorithm |
| `MCLinkBundles` | one peering and the events that strike it | for TLC |
| `MCAlarmPipeline` | `AlarmPipeline` and `FiberFaults`, one moving at a time | for TLC |
| `MCAdministration` | the five other components, one moving at a time | for TLC |

### IncidentWorkflow

State: `incidents` is the table, a function from the ids of its rows to records
with the columns that decide anything (`cleared` is `device_cleared_at` being
set, `root` is `root_cause_incident_id`, `by` is `resolved_by`; `playbooks`
counts the backup and action rows written for the incident). `nextId` is the
sequence, `routers` the status of every router in the fleet, `autoHeal` the
switch, `linkEvents` the number of link transitions in the flap window of each
port. Trap counts, texts, severities and priorities are left out: nothing the
properties say depends on them.

Actions, one committed transaction each:

| Action | Code |
|---|---|
| `LinkFlap`, `LinkDown`, `LinkUp` | `evaluate_link_event`, by the count in the window |
| `IsisAdjacencyDown`, `RaiseTrap`, `FiberCut` | `open_or_bump` with `_correlate` in the direction of the alarm's layer |
| `IsisAdjacencyUp`, `BgpEstablished`, `RuleClear` | `clear`: resolve, or with auto-heal off only mark |
| `FiberCutClear` | `clear_peering`, rolled back when there is nothing to clear |
| `Boot` | coldStart and warmStart |
| `Sweep` | `sweep` with `_run_auto_heal` and `maybe_remediate`; a playbook's success is a free choice |
| `Acknowledge`, `Dispatch`, `ResolveByUser`, `ResetAllOpen` | the handlers of `api/incidents.py` with the service functions they call |
| `SetAutoHeal`, `DeleteRouter` | `set_auto_heal`, `delete_router` |
| `Tick` | time |

`ResolveEach` is `_resolve` for a set of incidents with its recursion unrolled:
a symptom has no symptoms of its own (`SymptomTree`, proved), so one level is
all there is. `Write` adds what every resolve does to router status.

Time is kept as ages: a row knows how long ago it was opened and how long ago
its stage changed, in ticks, each capped where no query tells ages apart any
more (one past the correlation window; the settle and monitoring times). Without
ages, the timestamps would grow for ever and no run would end. The time columns
of a resolved row are dropped because nothing reads them.

Accounts may be called anything (`create_user` refuses only empty and used
names), `system` included, which is also what the code signs with; the operator
of `workflow_links` and `workflow_operators` has that name. What tells the two
apart is the reason, which is what `ResolutionIsAttributed` goes by.

Assumed: the topology graph mirrors the peerings (a deleted router's peerings
are gone from both), the span of a peering is fixed, and transactions do not
interleave. `FleetTopology` is about the first assumption, `IncidentTransactions`
about the last.

### IncidentLifecycle

The promise of the docstring of `incidents/service.py`, without alarms,
correlation, playbooks or time: an incident is unborn, queued, owned, closed or
deleted; ids are given in order; an owned incident is left only by closing or
deletion; one closing has one author, the system only while auto-heal is on;
what is closed stays closed by whoever closed it. `PhaseOf` and `CloserOf` in
`IncidentWorkflow` are the refinement mapping: a row is queued or owned by its
stage while its status is open, and a row that is gone below `nextId` is
deleted. `ImplementsLifecycle` is the abstract specification under it. A clear,
for example, may close several incidents, mark them, or release a symptom to be
judged again: the first is a `Close` of all of them by the system, the others
are no event of anybody's life.

### SweepQueue

`queue` is the NEW incidents in the order of `stage_changed_at`, as sets of those
that became NEW in one transaction and have one time. A row that has left may
come again as another incident, so that younger ones come without end though no
more than `Rows` wait at once. All times are taken by the correlator, one
message or sweep after the other, so they only grow. `Taken` is the set of the
batches the query may return: ripe or exempt from settling, not locked by a
request, at most `SweepBatch`, older ones first, equal ones in any order. A
request updates its row, which locks it, and commits or is rolled back. That a
sweep fails every time is not modelled.

The overdue fixes a sweep looks at have a limit and no order
(`incidents/service.py:477-485`), so nothing is claimed of fixes that go overdue
faster than sweeps can escalate them: `FixIsConfirmedOrEscalated` is about as many
as the bound of the run allows.

### IncidentTransactions

The same operations as in `IncidentWorkflow`, cut into the steps of a database
transaction at READ COMMITTED. `rows` is what is committed; `tx[p]` is the
transaction under way in the backend or the correlator: the rows it has loaded
(`seen`), its session's copies (`copy`), the rows it has locked by a flush.
`CommitTx` writes of each copy only the columns that changed, as SQLAlchemy's
unit of work does, over whatever the rows hold by then; `_open_symptoms` sees
the committed rows and does not refresh what the session holds. A sweep locks
its rows when it selects them and skips those the backend has locked.

Not everything holds: a handler that read a row before the correlator committed
it may overwrite it. Such incidents are in `raced`, and `DecisionIsKept` and
`TreeIsConsistent` are stated of the others. That is what they are worth: every
flaw of the tree or of a decision comes from an overlap on that very incident
or its root, and the sweep, being locked, is never the cause of one.

### LinkBundles

`adjacent`, `bundle` and `session` are the committed columns of a peering's
members, of the bundles at its two ends and of its BGP session. `tasks` are the
coroutines of the simulator and of the fault loop, each with the traps it has
still to send (`SimulatorScripts`, `FiberFault`): a member that blips, a bundle
that loses all members, a session that is reset, one span cut on both sides.
The correlator's transaction (`LoadMember`, `RollUp`, `FlipBundle`,
`CommitTrap`) interleaves with the three updates of `_restore_link_state`;
`HeldPorts`, `HeldBundles` and `restoreTx` hold the row locks that order them.

`swallowed` remembers the recoveries that a paused simulator or a restarted
backend never sent, and `raced` the ends where a trap and a restore were open
together. Both exemptions are needed: without either the run fails.
`DownSessionIsExplained` needs only the first: where the bundle and its members
disagree after such a race, the session still follows the bundle.

### AlarmPipeline and FiberFaults

`AlarmPipeline` follows numbered traps of one device: the listener's worker
threads, the buffer of each Kafka producer, the topics `raw`, `norm` and
`events`, the position and committed offset of each consumer. The offset
committed is a free choice between the last one known and the position, made
when a crash makes it matter: auto-commit has no fixed moment. A crash of the
backend loses threads and buffer; one of the normalizer what was committed and
not yet sent; one of the correlator nothing, and has it handle traps twice.
Without a crash, too, a send may raise (`PublishFails`), each of the three
producers may give up on a record whose future nobody looks at (`ExpireRaw`,
`ExpireNorm`, `ExpireEvent`), and a record may be skipped (`NormalizeFails`,
`HandlingFails`). `lost` are the traps given up on before they were in
norm-alarms, of which a normalizer that reads again may still pass one on;
`failed` those whose handling raised. `TrapIsHandled` says that there is no
other way for a trap to end than these and the store.

`FiberFaults` has the tasks of `fiber_fault_loop` (`faults`), the reservation
`active` (`active_faults`), the peerings and what the faults have cut. `fleet`
counts resets, so that a task can outlive the fleet it was started in;
`outlived` remembers for which ids one has, `abandoned` the cuts whose task
raised or died.

### UserAccounts

`account` is the table of users; `tokens` those handed out, each with the
password its holder has proved to know; `request` the handlers under way, each
with the copy of the row it loaded and how far it has got. Commits write the
columns that changed on the copy: two requests that both count an epoch up
write the same value. `adminsRaced` and `sessionsRaced` remember when a request
was committed on the strength of a row or a count another commit had overtaken.
The rule of the last administrator and the end of old sessions hold except after
such an overlap, and the overlaps do break them: the count takes no lock.

### MibRegistry

`Resolver`, `MissingRoot` and `ResolveTraps` are the resolver of `mib_parser.py`:
what `resolve` returns at each depth of its recursion, and the loop of
`missing_root`, as recursive functions of the depth and the round, and the list
of traps as a function of the places in it. `TrapRows` and `UnresolvedOf` are
what `rebuild` writes. Files may define anything: symbols below themselves, in
circles, or below others' symbols, and names that `BASE_SYMBOLS` has. The one
assumption is that nothing resolves only deeper than `resolve` follows
(`DepthAssumption`); its memo is left out, since it then changes no answer.
`KnownOids` is the definition the resolver is compared with: the OIDs that the
definitions of all files add up to, from the base symbols down. `Plain` are the
symbols whose chain of parents ends, at one that nothing defines, that has no
parent, or that is a base symbol nobody redefines: of these `TrapTableFollowsModules`
says that what they are said to miss is undefined. Of the others it is not so, nor
is it always the first module that keeps an OID; see the observations below.
`upload` holds the imports and deletions under way: store, read all modules,
delete the trap rows, insert and commit, with the locks and unique names that
make one wait for or fail another. `MaxDepth` stands for the limit of 64 and is
as deep as the instance can go. `rules` and `cache` are the custom rules and the
correlator's copy; `lag` is how old the change was that the last lookup had not
seen. `TableIsRebuilt` is about the overlaps, `TrapTableFollowsModules` about the
resolver as well. `invalidate()` is called in the API's process and does nothing for the
correlator's cache. The two queries of `_snapshot` and its time stamp are one
step.

### FleetTopology

`routerId`, `peerings`, `bundles` are the tables, with their sequences; `graph`
is the set of interface-to-span edges of Neo4j. A request prepares on the rows
it reads, commits or hits a constraint, and then mirrors peering by peering; any
of these may fail (`SyncFails`). `LoopIsFree` is the event loop: the reset holds
it from `AskReset` to `ClearGraph`, and requests need it to begin and to close
their session. `torn` remembers the peerings whose mirror a failure, a restart
or an overlap may have left behind, including those that
`delete_peering_from_neo4j` detaches because they share an interface node with
one already torn. A behaviour begins with an empty database or with that of an
earlier version, whose shared bundles `RepairBundles` has to split.

### NetworkImpact

`Search`, `Deeper` and `Arrivals` are the breadth-first search of
`bgp_topology.py`, level by level; `PopNode` and `Component` the stack search of
`impact.py`, node by node; `DownCustomersOf` what it makes of the result. The order in which the
database returns rows is not fixed and decides between equal paths and equal
components: the operators return the set of possible answers. The actions are
the changes the rest of the system makes to sessions, routers and incidents, so
that the invariants are evaluated in every state of the small mesh. The
reference, `Around`, is defined on the set of peerings and not on the search.

## What the runs check

The `workflow_` runs use two routers r1 and r2, the ends of peering p1, whose
span carries interface e1 of each.

| Run | Bounds | Shows |
|---|---|---|
| `workflow_fiber` | 3 incidents; fiber cuts on p1, IS-IS alarms of r2 | `TypeOK`, `SymptomTree`, `CorrelationIsComplete`, `AutoHealOffMeansHandsOff` |
| `workflow_links` | 2 incidents; link events of r1 with flap threshold 2, IS-IS alarms of r2, fiber cuts; r1 deletable; a CLEAR rule for the IS-IS alarm; an operator called `system` | `SymptomTree`, `StageMatchesStatus`, `OneOpenPerProblem`, `LinkStatusIsJustified`, `ResolvedIsFinal`, `ImplementsLifecycle` |
| `workflow_operators` | 2 incidents; an operator called `system` and the service token; a type without and one with a clear signal; sweep batch 1, monitoring timeout 2 | `OwnershipMatchesStage`, `ResolutionIsAttributed`, `HumanOwnedIsKept`, `FixIsConfirmedOrEscalated` |
| `sweep_queue` | 3 incidents waiting at a time, replaced without end; batch 1, settling 1 tick, types with and without; one request rolled back | `NobodyStarves` |
| `link_bundles` | one peering, 2 members a side; 2 coroutines at once; one resolve-all, pause or restart | `BundleFollowsMembers`, `DownWillRecover`, `DownSessionIsExplained`, `RedundancyHolds`, `SessionRecovers` |
| `alarm_pipeline` | 2 traps, 2 failures of any kind; 2 peering ids, 2 spans, one reset, one accident | `StoreFollowsTopic`, `OnlyThreadsReorder`, `TrapIsHandled`, `ScreenCatchesUp`; `OneTaskPerFault`, `FaultIsTakenBack` |
| `administration`, incidents | one root, one symptom | `DecisionIsKept`, `TreeIsConsistent` |
| `administration`, users | 2 accounts, 2 requests at once, 4 in all, 2 passwords set | `AdminRemains`, `SessionsKnowThePassword` |
| `administration`, imports and rules | 3 files, one redefining a base name and with a symbol below itself; 2 imports at once, 4 module ids; 2 rules, cache of 2 ticks | `TableIsRebuilt`, `TrapTableFollowsModules`, `EditsApplyWithinTtl` |
| `administration`, fleet | 3 routers, 2 peerings, ids to 3; 2 requests, one reader, 2 failures | `TopologyIsMirrored` |
| `administration`, impact | a triangle with two spurs and a router apart, 2 customers, 3 incidents | `RerouteIsShortest`, `IsolationIsReachability`, `ImpactFollowsSessions` |

`workflow_fiber`, `link_bundles`, `alarm_pipeline` and `administration` check a type
invariant besides. `administration` and `alarm_pipeline`
put components into one run that have no variable in common: `focus`, chosen in
the initial state, says which of them moves in a behaviour. The states are the
sum of the components' states, not the product, and every invariant is checked
in all of them. The requests of `UserAccounts` and of `FleetTopology` are
interchangeable and a symmetry of the run, which checks no liveness.

Why these bounds are enough to be interesting: two incidents are a root and a
symptom, in both orders; the third of `workflow_fiber` is the second root that
claims a symptom released by the first, or a second symptom. Windows of one tick distinguish
inside from outside; the age caps keep both sides reachable. Flap threshold 2
makes the first transition ordinary and the second a flap. Resolved incidents
stay in the table and use up the bound `MaxIncidents`, so traces are long in
steps and short in incidents; the proofs cover any number of incidents.

A sweep batch of one with three incidents in `sweep_queue` is a full batch, an old
one behind it, and a younger one that may come again and again. It starves the old
one as soon as the query has no order (the mutant `TakenInAnyOrder`). One request
rolled back is a row skipped by a sweep and still waiting.

One mishap in `link_bundles` is a restore, a pause or a restart that meets two
coroutines; a restore that meets one trap is all a race needs. Two traps are a linkDown and its linkUp; two failures
are a crash in each of two processes, or a crash and a skipped or unsent record. Two requests are
two administrators; a third could only wait for them. Two uploads see, delete
and insert under each other; the three files are a symbol, a user of it, and a
rival for its OID, so that a module is stored before and after what it needs;
the rival also redefines the base name `system` below the symbol.
Ids to 3 let a reset hand out old ids again. The mesh has ties of components,
routes of different lengths around a triangle, and a router without peering.

Deadlock is checked in the `workflow_` runs and `sweep_queue` (`Tick` is always
enabled) and in `link_bundles`. In `alarm_pipeline` and `administration` the numbers of traps,
requests and failures are bounded, and a behaviour ends when they are used up.

`CorrelationIsComplete` is stated for an L3 incident whose only peering is the
root's, within one correlation window. `OneOpenPerProblem` exempts optical
alarms detached from their peering by a deletion.

**Fairness.** In the workflow, `WF_vars(Sweep)` and `WF_vars(Tick)`. The correlator's loop polls
with a timeout of one second and sweeps after a fixed interval whether or not
alarms arrive (`streaming/correlator.py:103-121`), and a sweep that fails is
tried again; time passes. Devices and operators owe nothing. Under this
fairness `FixIsConfirmedOrEscalated` needs the timeout to be independent of the
switch. `SweepQueue` has the same fairness of `Sweep` and `Tick`, and that every
request ends, by commit or rollback (`db.py:30-35`). Alarms need not stop. There
`NobodyStarves` needs the sweep's order by `stage_changed_at`.

In `LinkBundles`, a coroutine that slept goes on (`SF` of its next send: the
correlator takes traps in the order they came, so it is not passed over for
ever), and a transaction that may go on does (`WF`). New events, pauses and
restores owe nothing. In `AlarmPipeline`, threads, brokers, the three loops, the
broadcasts and the browser's timer go on; failures and the device owe nothing.
In `FiberFaults`, a task that slept wakes up. In `FleetTopology` what has begun
goes on: the steps of a request, the close of a session, the reset, the start;
nobody has to send a request.

**Where code and documentation differ.** Five runs each check one sentence and
find it violated; `PROJECT.json` quotes the sentences.

| Run | Sentence | What happens |
|---|---|---|
| `playbook_twice` | a playbook runs once per incident | a symptom healed before its root was known is released by the repair and healed again |
| `orphaned_symptom` | a suppressed incident is the symptom of an open root | the root's router is deleted; the symptom stays suppressed, in no queue and never swept |
| `recovered_link_bounced` | a link that recovers within the settle window is never bounced | it recovers while auto-heal is off; auto-heal is switched on; the sweeper bounces it |
| `rule_clear_leaves_down` | an incident the device has cleared does not hold its router down | a CLEAR rule with auto-heal off marks the incident and leaves the router down |
| `reset_standstill` | "Delete entire fleet" deletes the fleet | a request still has its session open; the reset waits for it on the event loop, which the session needs to be closed |

Smaller observations, met while modelling and shown by no run of their own:

- The exemptions above are real: two administrators that demote each other at
  once leave none; two overlapping changes of one account's password can leave a
  session of the old one; the handler that read an incident before the sweep or
  a root took it writes over that.
- `mib_registry.rebuild` says of two modules with one OID that the first keeps it.
  `resolve_traps` lists all notifications before all v1 traps, so a notification
  of a later module wins over a v1 trap of an earlier one: delete `ACME-FAN` of
  the run and upload it again, and it takes the OID from `RIVAL`'s trap.
- `missing_root` promises a symbol that nothing defines. It stops below a name of
  `BASE_SYMBOLS`, though a module may have redefined that name and hung it from
  something missing (`mark` of the run), and in a circle of symbols at one it has
  seen (`spin`): what it returns then is defined.
- An account may be called `system`. What it resolves has `resolved_by` "system"
  and is not marked `resolved_manually` (`incidents/service.py:302`); only the
  reason then tells a person's resolution from the system's.
- A task of the fault loop that outlives a fleet reset removes the reservation
  of the new peering that has its id, which may then get a second fault.
- With two halves of equal size, which one `_isolated_primary_ids` calls cut off
  depends on the order of rows, so a single failure can swap the customers
  reported down. `ImpactFollowsSessions` therefore assumes a majority.

## What is proved

`IncidentWorkflow_proofs` proves, for every fleet, topology, set of alarm
sources, rules, users and deletable routers, and every bound, under the named
assumptions of `IncidentWorkflow` (the two sides of a peering are routers of the
fleet; alarms come from its ports and have the types of incidents; times are
naturals). `IncidentLifecycle_proofs` and `IncidentProperties_proofs` work from
the same assumptions; the other proof modules from those of their own components:

| Theorem | Statement |
|---|---|
| `InductiveInvariant` | `Spec => []IInv` |
| `TypeCorrect` | `Spec => []TypeOK` |
| `SymptomTreeHolds` | `Spec => []SymptomTree` |
| `StageMatchesStatusHolds` | `Spec => []StageMatchesStatus` |
| `WorkflowImplementsLifecycle` (in `IncidentLifecycle_proofs`) | `Spec => ImplementsLifecycle` |
| `ResolvedIsFinalHolds` (in `IncidentProperties_proofs`) | `Spec => ResolvedIsFinal` |
| `HumanOwnedIsKeptHolds` (there) | `Spec => HumanOwnedIsKept` |
| `AutoHealOffMeansHandsOffHolds` (there) | `Spec => AutoHealOffMeansHandsOff` |
| `OwnershipMatchesStageHolds` (there) | `Spec => []OwnershipMatchesStage` |
| `ResolutionIsAttributedHolds` (there) | `Spec => []ResolutionIsAttributed` |
| `OneOpenPerProblemHolds` (there) | `Spec => []OneOpenPerProblem` |
| `LinkStatusIsJustifiedHolds` (there) | `Spec => []LinkStatusIsJustified`, assuming `NoLinkRules` |
| `CorrelationIsCompleteHolds` (there) | `Spec => []CorrelationIsComplete`, assuming `NoDeletions` |
| `TxTypesHold` (in `IncidentTransactions_proofs`) | `TxSpec => []TxTypeOK` |
| `DecisionIsKeptHolds` (there) | `TxSpec => []DecisionIsKept` |
| `TreeIsConsistentHolds` (there) | `TxSpec => []TreeIsConsistent` |
| `LinkTypesHold` (in `LinkBundles_proofs`) | `LinkSpec => []LinkTypeOK` |
| `BundleFollowsMembersHolds` (there) | `LinkSpec => []BundleFollowsMembers` |
| `RedundancyIsTrue` (there) | `LinkSpec => RedundancyHolds` |
| `DownWillRecoverHolds` (there) | `LinkSpec => []DownWillRecover` |
| `DownSessionIsExplainedHolds` (there) | `LinkSpec => []DownSessionIsExplained` |
| `StoreFollowsTopicHolds` (in `AlarmPipeline_proofs`) | `PipelineSpec => []StoreFollowsTopic` |
| `OnlyThreadsReorderHolds` (in `AlarmPipeline_proofs`) | `PipelineSpec => []OnlyThreadsReorder` |
| `OneTaskPerFaultHolds` (in `AlarmPipeline_proofs`) | `FaultSpec => []OneTaskPerFault` |
| `AlarmTypesHold` (there) | `AlarmSpec => []AlarmTypeOK` |
| `FleetTypesHold` (in `Topology_proofs`) | `FleetSpec => []FleetTypeOK` |
| `TopologyIsMirroredHolds` (there) | `FleetSpec => []TopologyIsMirrored` |
| `ImpactTypesHold` (there) | `ImpactSpec => []ImpactTypeOK` |
| `RerouteIsShortestHolds` (there) | `ImpactSpec => []RerouteIsShortest` |
| `NoWayIsShorterHolds` (there) | `ImpactSpec => []NoWayIsShorter`: any way at all over established sessions is as long |
| `IsolationIsReachabilityHolds` (there) | `ImpactSpec => []IsolationIsReachability` |
| `ImpactFollowsSessionsHolds` (there) | `ImpactSpec => []ImpactFollowsSessions` |
| `UserTypesHold` (in `Administration_proofs`) | `UserSpec => []UserTypeOK` |
| `AdminRemainsHolds` (there) | `UserSpec => []AdminRemains` |
| `SessionsKnowThePasswordHolds` (there) | `UserSpec => []SessionsKnowThePassword` |
| `EditsApplyWithinTtlHolds` (there) | `MibSpec => []EditsApplyWithinTtl` |
| `TableIsRebuiltHolds` (there) | `MibSpec => []TableIsRebuilt` |
| `TrapTableFollowsModulesHolds` (there) | `MibSpec => []TrapTableFollowsModules` |
| `MibTypesHold` (there) | `MibSpec => []MibTypeOK` |
| `AdministrationTypesHold` (there) | `AdministrationSpec => []AdministrationTypeOK` |
| `PartsHold` (there) | `AdministrationSpec => [](...)`, for the safety properties of all its parts |

`IInv` is `TypeOK /\ SymptomTree /\ StageMatchesStatus`. None of the three is
inductive alone: that a released or closed symptom leaves no one behind needs
the tree of the rows before; that the sweeper's escalation touches no symptom
needs that symptoms are suppressed and not monitoring; that an inserted row
overwrites nobody needs `nextId` above every id; that a new symptom hangs from
a root needs that an open L1 row is no symptom; that what is claimed or healed
has no reason on record needs status and stage to agree.

The argument has two parts. Part 1 is about operators on rows and tables:
`SetStageRow`, `ResolvedRow`, `ReleasedRow`, `LinkSymptomRow` say what each
writes, and `ResolveEachTree` and `ResolveEachStaged` that closing any set of
incidents for any reason keeps the tree and the stages. Part 2 takes the actions
one by one (`InsertKeeps`, `OpenOrBumpKeeps`, `AfterClearSound`, `JudgedSound`,
`SweepKeeps`, `TouchKeeps`, `ResetAllOpenKeeps`, `DeleteRouterKeeps`, ...) and
`NextKeeps` puts them together.

`IncidentLifecycle_proofs` builds on it. `Closes(rows, after, S, agent)` says
that between two tables exactly the incidents of `S` close, all by `agent`, and
no other life moves. `ResolveEachCloses` shows it of every cascade: that a
released symptom was in nobody's hands is where the tree is needed.
`QuietCloses` shows it, with `S` empty, of bumps, marks, playbooks and
escalations, and two lemmas compose the parts of a sweep. `CloseStep`,
`OwnStep`, `AppearStep` and `DeleteRouterStep` turn tables into steps of the
abstract specification, and `NextIsLifeStep` collects the actions.

`IncidentProperties_proofs` rests on one fact about every transaction. `Moves(a,
b)` says what any of them may do to a row: it keeps where and what the problem
is, never touches a resolved row, takes nothing from a human, closes with an
author that fits the reason, and runs no playbook while auto-heal is off.
`TableMoves` asks this of a whole table, and that a symptom keeps its root or
loses it with the root's end, and gets none but a new one; `NextMoves` shows that every step but a deletion
moves the table so, and that a deletion (`Deletes`) only removes rows and nulls
references. From this and `IInv` the three action properties follow, and
`OwnershipMatchesStage` and `ResolutionIsAttributed` are inductive.

The other three need more. `OneOpenPerProblem` is not inductive, because a
deletion nulls `peering_id`: with `PeeringRows` (only an optical alarm of a
peering's A side, without an interface, has one) what was nulled is exempt and
what was not is still told apart. `LinkStatusIsJustified` asks of every
transaction that closes or marks a link incident that it also looks at the
router; `Unmarked` says which mark none. `NoLinkRules` is a hypothesis because
without it the property is false: that is the run `rule_clear_leaves_down`.
`CorrelationIsComplete` is strengthened with `PeeringRows`, `OneOpenPerProblem`
(the root of a peering is then unique) and `RootOnSpan` (a symptom hangs from a
root on a span of its own). `NoDeletions`, no router may be deleted, is the
assumption of the run that checks it: when a peering goes with its router, an
incident that hung from that peering's root is left with another peering's root
beside it and stays suppressed (`orphaned_symptom`).

`IncidentTransactions_proofs` holds for any number of roots and symptoms; the
assumption is that none is both and that `NoRoot` is neither. What can be wrong
with a row shows only when a transaction commits, so the invariant is about what
the transactions have in hand. `Underway` says of each how far it has got: what
it has loaded is what is committed unless it is in `stale` (`Fresh`); the copies
of a handler or a message about to commit are lawful changes of what it loaded
(`Reports`, one definition for each way a row may be closed, opened, claimed or
released); the open symptoms of what it closes are in hand, or came since
(`Complete`); a root it gives is open, or was changed since (`RootsStand`). Of the
sweep it says that its rows are locked and so never stale, which is why the sweep
needs no entry in `raced`. `CommitKeepsTree` and `CommitKeepsDecisions` show that
a commit of such copies (`Commits`) leaves the rows as the two properties say,
outside `raced`; `CommitPasses` that it leaves the other transaction's `Underway`
true, with what it wrote now stale. Without `Complete` nothing says that a symptom
found after its root was flushed is not left behind, and without `RootsStand`
that a new symptom's root has not been closed in the meantime. `Topmost` (a root
has no root) and `AbsentIsBlank` (nothing is known of a row not yet inserted) are
the rest of the strengthening.

`LinkBundles_proofs` holds for any peerings, members, coroutines, mishaps and
choice of fault ends. Scripts are shown to be balanced: a coroutine sends a
recovery after every loss it sent, so what it still has to send covers what it
took down. `LocksOK` says what the row locks give: the rows a restore has read
as down stay so until it commits, and it and a trap never hold the same row.
`BundlesInv` adds `TrapInTime`, that what an open transaction has seen of its
bundle's members is still true at its commit unless the end is in `raced`, and
`Restores`, the same of the restore's reads. `RecoveryInv` adds `TrapOfMember`:
the change an open trap is about to commit is one its coroutine still has to
take back. `SessionsInv` says of a restore about to commit that a session it did
not see down stays explained without it, because a bundle went down since, which
the restore does not know either, or because a recovery is owed; and of a trap
that brings a bundle up without touching the session that the session is
established. `RedundancyHolds` follows from the first of these invariants.

`Administration_proofs` holds for any users, requests, tokens and passwords. The
check of the last administrator is made on a count before the commit.
`AnotherAdmin` therefore says of every request that will remove one and has not
been overtaken that there is an administrator other than its target; a commit
that takes that one away overtakes it. For sessions, `RowsMoveOn` says what every
commit does to an account, unless two raced: the epoch grows, or epoch and
password stay. `SessionInv` carries that over to what requests hold in hand: a
copy that was not overtaken has the row's epoch, a login's password is the one of
its epoch, and a token of the account's epoch knows the account's password.

The same module proves all properties of `MibRegistry`, for any files, rules,
lifetime of the cache and number of imports and deletions at once. `CacheInv`
says that what is cached is in force, or that the last change is no older than
the cache. What the table of traps should be is split in two. `TableIsRebuilt`
says that it is `TrapRows` of all modules stored, whatever overlapped or failed,
and is proved without looking into `TrapRows`: `InHand` says of every import or
deletion that what it wrote keeps the unresolved traps of its rows and that,
unless it was overtaken, it has the modules as they are since it read them and
has seen every trap row since it deleted them; in `MibInv`, no two have written
the same id.

`TrapTableFollowsModules` says besides that `TrapRows` finds the right traps.
Resolver and reference work in opposite directions, and are shown to agree depth
by depth: what `resolve` returns when called that deep is the one OID, or none,
that the reference has grown in as many rounds (`ResolvedIsKnown`). For what is
reported missing, `Walking` goes up with `missing_root`: the symbol it stands at
is unresolved too and plain, and a round closer to where its chain of parents
ends (`StepUpWalks`), so that the walk never turns in a circle and can only stop
at a symbol nothing defines (`MissingOfPlain`). `ResolverIsFixed` is the use of
`DepthAssumption`: one call deeper, every symbol has the same answer. Of the traps of one OID
the first in the list makes the row, and one is first since the order of the
list is well-founded (`FirstPlace`): that is the first module's among
notifications, and among v1 traps. All this is for a set of files in which no
two have one name, or the module a trap is listed under would not be its own.
That this is so of what is stored, and of what an import has before it when it
resolves, is `NamesInv`: no name is committed twice, nor claimed by an import
and committed elsewhere, nor claimed by two. It needs the unique index
(`LockedNames`) and that ids are never given twice.

`PartsHold` puts the components together: a behaviour of `AdministrationSpec` is
one of each part's specification (`PartsStandAlone`), and the fleet's and the
network's invariants hold from its initial states, so that what is proved of the
parts is proved of exactly what the `administration` run checks.

`AlarmPipeline_proofs` holds for any number of traps and failures (both are
naturals). `StoreInv` strengthens `StoreFollowsTopic` with the types, with
offsets that never run ahead of their topics, and with `StoredIsAtHand`: what is
stored while its event is not yet sent is the record the correlator is at.
Without it nothing ties `stored` to the record that sending the event goes past.
`OnlyThreadsReorder` speaks of norm-alarms alone and is far from inductive, for
a record the normalizer has read may still be in its producer's buffer.
`OrderInv` takes topic and buffer as one queue and says that whatever was read
since the committed offset is queued; that each queued record stands somewhere in
raw-alarms and what lies between the committed offset and that place is queued
at or before it; and `OnlyThreadsReorder` of the whole queue. Only three kinds of
step matter: one that leaves the queue as it is (`QuietOrder`, also when its head
moves from the buffer to the topic), a read (`NormalizeOrder`) and a crash, which
cuts the queue back to the topic and moves the offsets up to a point between them
(`CrashOrder`).

The same module proves `OneTaskPerFault` for any peerings, spans, resets and
accidents: `FaultInv` adds the types to it, and `EndsKeeps` is the common part of
all the ways a task ends. `AlarmsAreTheirParts` says that the two side by side,
as the `alarm_pipeline` run has them, are each what they are alone.

`Topology_proofs` is about the fleet and the network it makes. For the fleet it
holds for any routers, batches, bounds and any database of an earlier version
that satisfies `LegacyAssumption`: its peerings have the ids 1, 2, ... and two
ends each, no two the same; its bundles belong to its peerings, on their routers,
no two of a router with one number; its graph knows no other peerings. `FleetInv`
has six parts. `FleetTypes` are the types; `TablesSound` says that a peering's id
is its own, that every bundle belongs to a peering at one of its ends, and that
no peering lacks one once the database has started; `PhasesSound` that nothing
else is under way while it starts, and next to nothing while the tables are empty
and the graph is not; `SeedSound` that what a request is about to insert would fit
the tables: peerings with ids of their own, complete with bundles; `MirrorSound`
that the graph agrees with the bundles outside `torn` and what is still to be
mirrored; `SyncsSound` that a request that mirrors new peerings finds no edge too
many and one that removes peerings none that is anyone else's, and that where two
meet, all they have to do is in `torn`. `TopologyIsMirrored` follows. Seeding and repair are loops over a
request and over the peerings; `SeedRun` and `RepairRun` say what holds after each
round (`TxSound`, `RepairSound`).

For the network it holds for any finite mesh. The searches are recursive
functions with as many rounds as there are primaries. That this is enough is
part of what is shown: `Around` grows by a node a round until it stands still. The
stack search ends with the least set of nodes that contains its start and is
closed under sessions (`StackSound`, `Closed`), and so does `Around`, which gives
`IsolationIsReachability`. Level by level, the nodes the breadth-first search has
visited are the ball of that radius, and its queue holds a path to each node new
in it (`LevelSound`), so the first level that arrives gives the distance
(`ArrivalsSound`). A component with more than half of the mesh is the only
largest one, with and without one session more: `ImpactFollowsSessions`.

The library's induction takes an operator as a parameter, which the provers
cannot instantiate. What is needed of it is had from the well-foundedness of the
natural numbers, which is stated of sets: `Induct` is induction over a subset of
the naturals, and `RunExists` gives what a loop of n rounds computes. The
resolver's recursions are treated in the same way (`ResolverRuns`, `KnownRuns`,
`RootRuns`, `StoreRuns`): a recursive function is a run of its step, and what
its step keeps holds in every round.

Every invariant and action property a passing run checks is thereby proved. What
stays with TLC is what must eventually happen: `NobodyStarves`,
`FixIsConfirmedOrEscalated`, `SessionRecovers`, `TrapIsHandled`, `ScreenCatchesUp`
and `FaultIsTakenBack` hold under the fairness stated, on the instances listed
above. Liveness under fairness, and ENABLED, are out of the provers' reach.

## What is not modelled, and why

Presentation, deployment, generated data, single-row CRUD and read-only queries
(`teams`, `router_models`, `stats`, `backups`, `traps`, `geocode`, the lists):
there is nothing in them beyond one statement. Parsing of MIB texts and of SNMP
packets, mail and analysis texts, `fault_location.py` (interpolation of map
coordinates): conversions no property is about. Password hashing, token
signatures and one-time codes: who knows what stands for them. The migration of
columns at start-up, and the SQLite branches of the code: the deployed system
runs on Postgres.

Abstracted in what is modelled: the priority column and the texts of incidents;
the simulator's rates and sleeps (any order of events is possible instead). A
commit takes its row locks in one step, so a deadlock between two transactions
that lock rows in different orders (which Postgres would end by failing one) is
not in the models; an import that fails is (`AbortUpload`). One replica of each
process, as in `k8s/`, and one partition of each topic, the broker's default.

## Plan

Done, in the order of importance to the system: `IncidentTypes`,
`IncidentWorkflow`, `IncidentLifecycle` with their proofs; `IncidentTransactions`;
`LinkBundles`; `AlarmPipeline` and `FiberFaults` with theirs; `UserAccounts`;
`FleetTopology`;
`NetworkImpact`; `MibRegistry` with the rule cache.

Left:

1. The composition of `LinkBundles` with the alarms of `IncidentWorkflow`, and a
   second peering on one interface.
2. `backfill_stages`, and the flap window over time instead of as a count.

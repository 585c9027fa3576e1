--------------------------- MODULE FleetTopology ----------------------------
(***************************************************************************)
(* Which routers, peerings and interface bundles there are: seeding them   *)
(* (api/routers.py, api/bgp.py, bundles.py), deleting a router, the repair *)
(* at startup, the fleet reset (api/simulation.py), and the mirror of the  *)
(* peerings in Neo4j (topology_graph.py) that correlation reads.           *)
(*                                                                         *)
(* Handlers run in FastAPI's thread pool, several at once; each commits to *)
(* Postgres first and brings the graph up to date afterwards, peering by   *)
(* peering.  reset_fleet is a coroutine: while it waits for the database,  *)
(* the event loop stands still, and no other request can begin or close    *)
(* its session.                                                            *)
(*                                                                         *)
(* Routers are named by management address, a number in the order of       *)
(* mgmt_ip.  The two members of a bundle are seeded, linked and removed    *)
(* together, and so are one here: a bundle is [router, peering, number].   *)
(***************************************************************************)
EXTENDS Integers, FiniteSets, FiniteSetsExt, Sequences, Functions

CONSTANTS
  Names,          \* the management addresses
  RouterBatches,  \* the bodies of POST /api/routers/seed: sequences of names
  LinkBatches,    \* the bodies of POST /api/bgp/seed: sequences of <<name, name>>
  LegacyBundles,  \* bundles in the database of an earlier version, with all of their
  LegacyLinks,    \* peerings [id, ends], some of which have no bundle of their own,
  LegacyGraph,    \* and what that version wrote to the graph
  MaxId,          \* bound: the ids of routers and of peerings
  Faults,         \* bound: failures of Neo4j, restarts and resets
  Ops,            \* bound: requests that change the fleet at once
  Readers         \* bound: read-only requests at once

ASSUME FleetAssumption ==
  /\ Names \subseteq Nat /\ MaxId \in Nat /\ Readers \in Nat /\ Faults \in Nat
  /\ IsFiniteSet(Names) /\ Cardinality(Names) <= MaxId
  /\ RouterBatches \subseteq Seq(Names) /\ LinkBatches \subseteq Seq(Names \X Names)

\* The database of an earlier version: routers, peerings numbered from 1 on, each between
\* two routers and no two between the same; bundles of these peerings, on their routers,
\* no two of one router with one number; and a graph that knows no other peerings.
ASSUME LegacyAssumption ==
  LET places == {Cardinality({m \in Names : m <= n}) : n \in Names}
      ids == {p.id : p \in LegacyLinks}
  IN  /\ IsFiniteSet(LegacyLinks) /\ Cardinality(LegacyLinks) <= MaxId
      /\ \A p \in LegacyLinks :
           /\ p = [id |-> p.id, ends |-> p.ends] /\ p.id \in 1..Cardinality(LegacyLinks)
           /\ p.ends \subseteq places /\ Cardinality(p.ends) = 2
      /\ \A p, o \in LegacyLinks : p.id = o.id \/ p.ends = o.ends => p = o
      /\ IsFiniteSet(LegacyBundles)
      /\ \A b \in LegacyBundles \cup LegacyGraph :
           /\ b = [router |-> b.router, peering |-> b.peering, number |-> b.number]
           /\ b.router \in places /\ b.peering \in ids /\ b.number \in Nat
      /\ \A b \in LegacyBundles : \E p \in LegacyLinks : p.id = b.peering /\ b.router \in p.ends
      /\ \A b, c \in LegacyBundles : b.router = c.router /\ b.number = c.number => b = c

VARIABLES
  routerId,       \* [Names -> Nat]: table routers, 0 where there is none
  peerings,       \* table bgp_peerings: a set of [id, ends], ends two router ids
  bundles,        \* table interface_bundles (and interfaces)
  nextRouter,     \* the sequences of ids, which a rollback does not turn back
  nextPeering,
  graph,          \* SUPPORTED_BY in Neo4j: which bundle's interfaces lead to which span
  op,             \* [Ops -> Op]: requests that change the fleet
  readers,        \* how many read-only requests hold a session
  reset,          \* reset_fleet: "idle", "asked" (waiting to truncate), "truncated"
  starting,       \* the backend is starting: repair_peering_bundles is next
  faults,         \* failures, restarts and resets so far
  torn            \* history: the peerings whose mirror a failure, a restart or an
                  \* overlap with another request's mirroring may have left behind

fleetTables == <<routerId, peerings, bundles>>
sequences == <<nextRouter, nextPeering>>
fleetVars == <<fleetTables, sequences, graph, op, readers, reset, starting, faults, torn>>

FleetIds == 1..MaxId
Bundle == [router : FleetIds, peering : FleetIds, number : Nat]
Link == [id : FleetIds, ends : SUBSET FleetIds]

\* A request: what it will write or remove, on the strength of which rows, and the
\* peerings it has yet to mirror.
NoOp == [does |-> "none", at |-> "none", newLinks |-> {}, newBundles |-> {}, needs |-> {},
         router |-> 0, todo |-> {}]

Present == {routerId[n] : n \in Names} \ {0}
LinkIds == {p.id : p \in peerings}

\* A peering and the two bundles that belong to it, in tables links and ports.
BundlesOf(id, ports) == {b \in ports : b.peering = id}

-----------------------------------------------------------------------------
(* Choosing bundle numbers *)

\* The peers of name n in one request, and the place of name m among them.
PeersIn(batch, n) == {batch[i][1] : i \in {i \in DOMAIN batch : batch[i][2] = n}}
                       \cup {batch[i][2] : i \in {i \in DOMAIN batch : batch[i][1] = n}}
PeerIndex(batch, n, m) == Cardinality({k \in PeersIn(batch, n) : k < m})

\* A mutant, as it was before repair_peering_bundles: a number that is taken counts as
\* the peering's own bundle.
ReuseBundle(ports, id, r, index) ==
  IF \E b \in ports : b.router = r /\ b.number = index
    THEN ports ELSE ports \cup {[router |-> r, peering |-> id, number |-> index]}

\* ensure_bundles_for_peering: the bundle there is, or the first free number from the
\* preferred one on.
EnsureBundle(ports, id, r, index) ==
  LET taken == {b.number : b \in {b \in ports : b.router = r}} IN
  IF \E b \in ports : b.router = r /\ b.peering = id
    THEN ports
    ELSE ports \cup {[router |-> r, peering |-> id,
                      number |-> Min({k \in index..(index + Cardinality(taken)) : k \notin taken})]}

\* The same for the peering's two routers.
EnsureBoth(ports, id, a, b, i, j) == EnsureBundle(EnsureBundle(ports, id, a, i), id, b, j)

-----------------------------------------------------------------------------
(* Requests that change the fleet *)

LoopIsFree == reset = "idle" /\ ~ starting

\* seed_routers: the routers of the request that are not there yet get the next ids, in
\* its order; one that a concurrent request has just inserted is used as it is.
SeedRouters(batch) ==
  LET new == {n \in Names : routerId[n] = 0 /\ n \in Range(batch)}
      First(n) == Min({i \in DOMAIN batch : batch[i] = n})
      Before(n) == {m \in new : First(m) < First(n)}
  IN  /\ LoopIsFree /\ nextRouter + Cardinality(new) <= MaxId + 1
      /\ routerId' = [n \in Names |-> IF n \in new THEN nextRouter + Cardinality(Before(n))
                                     ELSE routerId[n]]
      /\ nextRouter' = nextRouter + Cardinality(new)
      /\ UNCHANGED <<peerings, bundles, nextPeering, graph, op, readers, reset, starting, torn, faults>>

\* One pair of seed_peerings, of routers a and b with preferred numbers i and j; acc is
\* what the transaction has got to.
SeedLink(acc, a, b, i, j) ==
  LET known == {p \in acc.links : p.ends = {a, b}}
      id == IF known = {} THEN acc.next ELSE (CHOOSE p \in known : TRUE).id
  IN  IF a = 0 \/ b = 0 \/ a = b THEN acc
      ELSE [links |-> acc.links \cup {[id |-> id, ends |-> {a, b}]},
            ports |-> EnsureBoth(acc.ports, id, a, b, i, j),
            next |-> IF known = {} THEN acc.next + 1 ELSE acc.next, todo |-> acc.todo \cup {id}]

SeedPair(acc, batch, pair) ==
  SeedLink(acc, routerId[pair[1]], routerId[pair[2]],
           PeerIndex(batch, pair[1], pair[2]), PeerIndex(batch, pair[2], pair[1]))

\* The transaction of seed_peerings: one pair of the request after the other.
SeedLinks(batch) ==
  LET run[i \in 0..Len(batch)] ==
        IF i = 0 THEN [links |-> peerings, ports |-> bundles, next |-> nextPeering, todo |-> {}]
        ELSE SeedPair(run[i - 1], batch, batch[i])
  IN  run[Len(batch)]

\* seed_peerings up to its commit, on the rows it reads.
PrepareSeed(q, batch) ==
  LET tx == SeedLinks(batch)
  IN  /\ LoopIsFree /\ op[q] = NoOp
      /\ tx.next <= MaxId + 1
      /\ op' = [op EXCEPT ![q] = [NoOp EXCEPT
           !.does = "seed", !.at = "prepared", !.newLinks = tx.links \ peerings,
           !.newBundles = tx.ports \ bundles, !.needs = tx.todo \cap LinkIds, !.todo = tx.todo]]
      /\ nextPeering' = tx.next
      /\ UNCHANGED <<fleetTables, nextRouter, graph, readers, reset, starting, torn, faults>>

\* delete_router up to its commit: it reads the router and its peerings.
PrepareDelete(q, n) ==
  LET links == {p \in peerings : routerId[n] \in p.ends} IN
  /\ LoopIsFree /\ op[q] = NoOp /\ routerId[n] # 0
  /\ op' = [op EXCEPT ![q] = [NoOp EXCEPT !.does = "delete", !.at = "prepared",
                              !.router = routerId[n], !.todo = {p.id : p \in links}]]
  /\ UNCHANGED <<fleetTables, sequences, graph, readers, reset, starting, torn, faults>>

Syncing == {q \in Ops : op[q].at = "syncing"}

\* The mirrors that are at risk once q has committed: its own while another request is
\* still bringing the graph up to date, and that one's.
AtRisk(q) == IF Syncing = {} THEN {} ELSE op[q].todo \cup UNION {op[o].todo : o \in Syncing}

\* The constraints: the routers referred to and the peerings found are still there, and
\* no one has inserted the same peering, or a bundle of the same name, meanwhile.
SeedConflict(q) ==
  \/ \E p \in op[q].newLinks : ~ (p.ends \subseteq Present) \/ \E o \in peerings : o.ends = p.ends
  \/ ~ (op[q].needs \subseteq LinkIds)
  \/ \E b \in op[q].newBundles : \E c \in bundles : c.router = b.router /\ c.number = b.number

CommitSeed(q) ==
  /\ op[q].does = "seed" /\ op[q].at = "prepared" /\ ~ SeedConflict(q)
  /\ peerings' = peerings \cup op[q].newLinks
  /\ bundles' = bundles \cup op[q].newBundles
  /\ op' = [op EXCEPT ![q].at = "syncing"]
  /\ torn' = torn \cup AtRisk(q)
  /\ UNCHANGED <<routerId, sequences, graph, readers, reset, starting, faults>>

\* A peering of the router that the request has not seen keeps its row from going.
CommitRemoval(q) ==
  LET r == op[q].router IN
  /\ op[q].does = "delete" /\ op[q].at = "prepared"
  /\ \A p \in peerings : r \in p.ends => p.id \in op[q].todo
  /\ routerId' = [n \in Names |-> IF routerId[n] = r THEN 0 ELSE routerId[n]]
  /\ peerings' = {p \in peerings : p.id \notin op[q].todo}
  /\ bundles' = {b \in bundles : b.peering \notin op[q].todo}
  /\ op' = [op EXCEPT ![q].at = "syncing"]
  /\ torn' = torn \cup AtRisk(q)
  /\ UNCHANGED <<sequences, graph, readers, reset, starting, faults>>

\* A constraint fails the transaction, and with it the request.
RollBack(q) ==
  /\ op[q].at = "prepared"
  /\ IF op[q].does = "seed" THEN SeedConflict(q)
     ELSE \E p \in peerings : op[q].router \in p.ends /\ p.id \notin op[q].todo
  /\ op' = [op EXCEPT ![q] = NoOp]
  /\ UNCHANGED <<fleetTables, sequences, graph, readers, reset, starting, torn, faults>>

-----------------------------------------------------------------------------
(* The mirror in Neo4j *)

\* sync_peering_to_neo4j: the members of the bundles are loaded now; a row that is gone
\* by now ends the request (see SyncFails).
SyncPeering(q, id) ==
  /\ op[q].does = "seed" /\ op[q].at = "syncing" /\ id \in op[q].todo
  /\ id \in LinkIds
  /\ graph' = graph \cup BundlesOf(id, bundles)
  /\ op' = [op EXCEPT ![q].todo = @ \ {id}]
  /\ UNCHANGED <<fleetTables, sequences, readers, reset, starting, torn, faults>>

\* delete_peering_from_neo4j: the span goes, and so do the interfaces that lead to it,
\* wherever else they lead.
UnlinkPeering(q, id) ==
  LET Gone(e) == \E s \in BundlesOf(id, graph) : s.router = e.router /\ s.number = e.number IN
  /\ op[q].does = "delete" /\ op[q].at = "syncing" /\ id \in op[q].todo
  /\ graph' = {e \in graph : ~ Gone(e)}
  /\ op' = [op EXCEPT ![q].todo = @ \ {id}]
  /\ torn' = torn \cup (IF id \in torn THEN {e.peering : e \in {e \in graph : Gone(e)}} ELSE {})
  /\ UNCHANGED <<fleetTables, sequences, readers, reset, starting, faults>>

\* Neo4j cannot be reached, or a row to mirror is gone: the rest is not mirrored.
SyncFails(q) ==
  /\ op[q].at = "syncing" /\ op[q].todo # {}
  /\ faults < Faults /\ faults' = faults + 1
  /\ op' = [op EXCEPT ![q] = NoOp]
  /\ torn' = torn \cup op[q].todo
  /\ UNCHANGED <<fleetTables, sequences, graph, readers, reset, starting>>

\* The request is answered and its session closed, by the event loop.
FinishOp(q) ==
  /\ LoopIsFree /\ op[q].at = "syncing" /\ op[q].todo = {}
  /\ op' = [op EXCEPT ![q] = NoOp]
  /\ UNCHANGED <<fleetTables, sequences, graph, readers, reset, starting, torn, faults>>

-----------------------------------------------------------------------------
(* Reading, resetting, restarting *)

\* A read-only handler: its first query opens a transaction, which lasts until get_db
\* closes the session, after the handler and by the event loop.
ReadBegins ==
  /\ LoopIsFree /\ readers < Readers
  /\ readers' = readers + 1
  /\ UNCHANGED <<fleetTables, sequences, graph, op, reset, starting, torn, faults>>

ReadEnds ==
  /\ LoopIsFree /\ readers > 0
  /\ readers' = readers - 1
  /\ UNCHANGED <<fleetTables, sequences, graph, op, reset, starting, torn, faults>>

\* reset_fleet takes the event loop.
AskReset ==
  /\ LoopIsFree /\ faults < Faults
  /\ faults' = faults + 1
  /\ reset' = "asked"
  /\ UNCHANGED <<fleetTables, sequences, graph, op, readers, starting, torn>>

\* TRUNCATE ... RESTART IDENTITY wants the tables to itself: it waits for every open
\* transaction that has so much as read one.  seed_peerings holds one to its end (its
\* refresh after the commit begins it), delete_router none after its commit.
TablesAreFree ==
  readers = 0 /\ \A q \in Ops : op[q].at = "none" \/ (op[q].does = "delete" /\ op[q].at = "syncing")

\* A mutant: the sequences start one too low.
TruncateToZero ==
  /\ reset = "asked" /\ TablesAreFree
  /\ routerId' = [n \in Names |-> 0] /\ peerings' = {} /\ bundles' = {}
  /\ nextRouter' = 0 /\ nextPeering' = 0
  /\ reset' = "truncated"
  /\ UNCHANGED <<graph, op, readers, starting, torn, faults>>

TruncateFleet ==
  /\ reset = "asked" /\ TablesAreFree
  /\ routerId' = [n \in Names |-> 0] /\ peerings' = {} /\ bundles' = {}
  /\ nextRouter' = 1 /\ nextPeering' = 1
  /\ reset' = "truncated"
  /\ UNCHANGED <<graph, op, readers, starting, torn, faults>>

\* clear_topology; without Neo4j the old spans stay, under ids that will be used again.
ClearGraph ==
  /\ reset = "truncated"
  /\ reset' = "idle"
  /\ \/ graph' = {} /\ torn' = {} /\ faults' = faults
     \/ /\ faults < Faults /\ faults' = faults + 1
        /\ graph' = graph /\ torn' = torn \cup {e.peering : e \in graph}
  /\ UNCHANGED <<fleetTables, sequences, op, readers, starting>>

\* The backend ends and starts again: transactions are rolled back, mirroring stops.
RestartFleet ==
  /\ ~ starting /\ faults < Faults
  /\ faults' = faults + 1
  /\ starting' = TRUE /\ reset' = "idle" /\ readers' = 0
  /\ op' = [q \in Ops |-> NoOp]
  /\ torn' = torn \cup (UNION {op[q].todo : q \in Syncing})
                  \cup (IF reset = "truncated" THEN {e.peering : e \in graph} ELSE {})
  /\ UNCHANGED <<fleetTables, sequences, graph>>

\* The peerings that lack a bundle, and ensure_bundles_for_peering for these, in the
\* order of their ids.
Lacking == {p \in peerings : \E r \in p.ends : ~ \E b \in bundles : b.router = r /\ b.peering = p.id}

RepairLink(ports, found) ==
  LET p == CHOOSE p \in found : TRUE
  IN  IF found = {} THEN ports ELSE EnsureBoth(ports, p.id, Min(p.ends), Max(p.ends), 0, 0)

Repaired ==
  LET run[i \in 0..MaxId] ==
        IF i = 0 THEN bundles
        ELSE RepairLink(run[i - 1], {p \in Lacking : p.id = i})
  IN  run[MaxId]

\* repair_peering_bundles: bundles for the peerings that lack one, then the graph anew
\* for each of these (resync_peering_to_neo4j), as far as Neo4j can be reached.
RepairBundles ==
  LET ids == {p.id : p \in Lacking}
      repaired == Repaired
  IN  /\ starting
      /\ starting' = FALSE
      /\ bundles' = repaired
      /\ \E done \in SUBSET ids :
           /\ graph' = {e \in graph : e.peering \notin done}
                         \cup {b \in repaired : b.peering \in done}
           /\ torn' = (torn \ done) \cup (ids \ done)
           /\ IF done = ids THEN faults' = faults ELSE faults < Faults /\ faults' = faults + 1
      /\ UNCHANGED <<routerId, peerings, sequences, op, readers, reset>>

-----------------------------------------------------------------------------
(* Specification *)

\* Nothing yet, or the database of an earlier version, whose routers have the ids of
\* their places among Names.
FleetInit ==
  /\ \/ /\ routerId = [n \in Names |-> 0] /\ nextRouter = 1
        /\ peerings = {} /\ bundles = {} /\ graph = {} /\ nextPeering = 1 /\ torn = {}
     \/ /\ routerId = [n \in Names |-> Cardinality({m \in Names : m <= n})]
        /\ nextRouter = Cardinality(Names) + 1
        /\ peerings = LegacyLinks /\ bundles = LegacyBundles /\ graph = LegacyGraph
        /\ nextPeering = Cardinality(LegacyLinks) + 1 /\ torn = LinkIds
  /\ op = [q \in Ops |-> NoOp]
  /\ readers = 0 /\ reset = "idle" /\ starting = TRUE /\ faults = 0

FleetStep(q) ==
  \/ CommitSeed(q) \/ CommitRemoval(q) \/ RollBack(q) \/ FinishOp(q)
  \/ \E id \in FleetIds : SyncPeering(q, id) \/ UnlinkPeering(q, id)

FleetNext ==
  \/ \E batch \in RouterBatches : SeedRouters(batch)
  \/ \E q \in Ops :
       \/ \E batch \in LinkBatches : PrepareSeed(q, batch)
       \/ \E n \in Names : PrepareDelete(q, n)
       \/ SyncFails(q) \/ FleetStep(q)
  \/ ReadBegins \/ ReadEnds
  \/ AskReset \/ TruncateFleet \/ ClearGraph
  \/ RestartFleet \/ RepairBundles

\* What has begun goes on: the steps of requests, the close of sessions, the reset and
\* the startup.  Nobody has to send a request, and nothing has to restart or to fail.
FleetFairness ==
  /\ \A q \in Ops : WF_fleetVars(FleetStep(q))
  /\ WF_fleetVars(ReadEnds) /\ WF_fleetVars(TruncateFleet) /\ WF_fleetVars(ClearGraph)
  /\ WF_fleetVars(RepairBundles)

FleetSpec == FleetInit /\ [][FleetNext]_fleetVars /\ FleetFairness

-----------------------------------------------------------------------------
(* Properties *)

\* The types of all state.
FleetTypeOK ==
  /\ routerId \in [Names -> 0..MaxId]
  /\ peerings \subseteq Link /\ \A p \in peerings : Cardinality(p.ends) = 2
  /\ \A b \in bundles \cup graph : b \in Bundle
  /\ nextRouter \in 1..(MaxId + 1) /\ nextPeering \in 1..(MaxId + 1)
  /\ \A q \in Ops : /\ op[q].does \in {"none", "seed", "delete"}
                    /\ op[q].at \in {"none", "prepared", "syncing"}
                    /\ op[q].todo \cup torn \subseteq FleetIds
  /\ readers \in 0..Readers /\ reset \in {"idle", "asked", "truncated"} /\ starting \in BOOLEAN
  /\ faults \in 0..Faults

\* Every peering has a bundle of its own on each of its two routers, and no two bundles
\* of a router have one name; and the graph leads from exactly these bundles to its
\* span, and to no span of a peering that is gone - once the requests that change it are
\* through, and with the exception of the peerings that failures, restarts and overlaps
\* of the mirroring are known to have touched.  Correlation takes the graph's word for
\* which peering an interface is on.
TopologyIsMirrored ==
  ~ starting =>
    /\ \A p \in peerings :
         p.ends \subseteq Present /\ {b.router : b \in BundlesOf(p.id, bundles)} = p.ends
    /\ \A b, c \in bundles : b.router = c.router /\ b.number = c.number => b = c
    /\ reset # "truncated" =>
         \A id \in FleetIds \ (torn \cup UNION {op[q].todo : q \in Syncing}) :
           BundlesOf(id, graph) = BundlesOf(id, bundles)

\* A reset that is asked for deletes the fleet.  It does not: a request that still has
\* its session open keeps TRUNCATE waiting, TRUNCATE keeps the event loop, and without
\* the event loop no session is closed.
ResetCompletes == reset = "asked" ~> reset = "truncated"
=============================================================================

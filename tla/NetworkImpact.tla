--------------------------- MODULE NetworkImpact ----------------------------
(***************************************************************************)
(* What the operators are shown of the network as it is: the reroute path  *)
(* of a session that is down (backend/app/bgp_topology.py) and the         *)
(* customers each open incident hurts (backend/app/impact.py).             *)
(*                                                                         *)
(* Both are computed on read, from the rows of the moment.  The state is   *)
(* those rows, and the actions are the changes the rest of the system      *)
(* makes to them.  The order in which the database returns the peerings is *)
(* not fixed: it decides between paths of equal length and between         *)
(* components of equal size, so every order is considered.                 *)
(***************************************************************************)
EXTENDS Naturals, Sequences, FiniteSets, FiniteSetsExt

CONSTANTS
  Primaries,      \* backbone routers
  Customers,      \* single-homed customer routers
  Uplink,         \* [Customers -> Primaries]: Router.parent_router_id
  Mesh,           \* BGP peerings, each a set of two primaries
  Alarms,         \* incidents: [router, peering, affecting], see below
  Failing         \* the routers that go down

\* A peering is the set of its two ends; NoPeering is no peering's.
NoPeering == {}

ASSUME ImpactTopologyAssumption ==
  /\ IsFiniteSet(Primaries) /\ Uplink \in [Customers -> Primaries]
  /\ \A p \in Mesh : p \subseteq Primaries /\ Cardinality(p) = 2
  /\ Failing \subseteq Primaries \cup Customers

\* An incident's router, its peering if it is about a fiber, and whether its
\* type is one of SERVICE_AFFECTING_TYPES.
ASSUME AlarmAssumption ==
  Alarms \subseteq [router : Primaries \cup Customers, peering : Mesh \cup {NoPeering},
                    affecting : BOOLEAN]

VARIABLES
  established,    \* the peerings whose session is established
  reachable,      \* the routers whose status is not DOWN
  alarm           \* [Alarms -> {"none", "open", "cleared"}]: cleared by the
                  \* device, and still open
impactVars == <<established, reachable, alarm>>

-----------------------------------------------------------------------------
(* The graph of established sessions                                       *)

\* Mutant of build_established_adjacency: a session of any status counts.
AnySessionAdjacency(sessions, n) == {m \in Primaries : {n, m} \in Mesh}

build_established_adjacency(sessions, n) == {m \in Primaries : {n, m} \in sessions}

Linked(sessions) == {n \in Primaries : build_established_adjacency(sessions, n) # {}}

\* The search over all orders of the rows: the paths that may be in its queue, and the
\* nodes visited.  One level on, a node not visited yet is reached by whichever path of
\* this level comes first.
Deeper(sessions, search) ==
  LET Next(path) == build_established_adjacency(sessions, path[Len(path)])
      fresh == (UNION {Next(path) : path \in search.queue}) \ search.visited
  IN  [queue |-> UNION {{Append(path, n) : n \in fresh \cap Next(path)} : path \in search.queue},
       visited |-> search.visited \cup fresh]

Search(sessions, start) ==
  LET level[k \in 0..Cardinality(Primaries)] ==
        IF k = 0 THEN [queue |-> {<<start>>}, visited |-> {start}]
        ELSE Deeper(sessions, level[k - 1])
  IN  level

\* The paths returned from a level of the search, if any of its nodes has end beside it.
Arrivals(sessions, search, end) ==
  {Append(path, end) :
     path \in {q \in search.queue : end \in build_established_adjacency(sessions, q[Len(q)])}}

\* The paths shortest_reroute_path may return: none if the mesh is split.
shortest_reroute_path(sessions, start, end) ==
  LET level == Search(sessions, start)
      found == {k \in DOMAIN level : Arrivals(sessions, level[k], end) # {}}
  IN  IF {start, end} \subseteq Linked(sessions) /\ found # {}
      THEN Arrivals(sessions, level[Min(found)], end) ELSE {}

\* One node of the stack search of _isolated_primary_ids.
PopNode(sessions, search) ==
  LET node == CHOOSE n \in search.stack : TRUE
      new == build_established_adjacency(sessions, node) \ search.component
  IN  IF search.stack = {} THEN search
      ELSE [stack |-> (search.stack \ {node}) \cup new, component |-> search.component \cup new]

\* The component it collects: a node is on the stack at most once.
Component(sessions, start) ==
  LET after[k \in 0..Cardinality(Primaries)] ==
        IF k = 0 THEN [stack |-> {start}, component |-> {start}]
        ELSE PopNode(sessions, after[k - 1])
  IN  after[Cardinality(Primaries)].component

Components(sessions) == {Component(sessions, n) : n \in Linked(sessions)}

\* Mutant of LargestComponents: the last component found is kept.
AnyComponents(sessions) ==
  IF sessions = {} THEN {{}} ELSE Components(sessions)

\* The first of the largest, in the order the rows come: any of them.
LargestComponents(sessions) ==
  LET found == Components(sessions)
  IN IF found = {} THEN {{}}
     ELSE {c \in found : \A d \in found : Cardinality(d) <= Cardinality(c)}

Meshed == UNION Mesh

_isolated_primary_ids(largest) == Meshed \ largest

-----------------------------------------------------------------------------
(* compute_impacts                                                         *)

cut_off(largest) == _isolated_primary_ids(largest) \cup (Primaries \ reachable)

candidates == {i \in Alarms : alarm[i] = "open" /\ i.affecting}

\* The primaries an incident is about: both ends of a fiber, or its router.
Scope(i) == IF i.peering # NoPeering THEN i.peering ELSE {i.router} \cap Primaries

CustomersOf(i) == IF Scope(i) = {} THEN {i.router}
                  ELSE {c \in Customers : Uplink[c] \in Scope(i)}

\* Mutant of DownCustomersOf: those that are out of reach, not those cut off.
DownIfReachable(i, largest) ==
  {c \in CustomersOf(i) : c \notin reachable \/ Uplink[c] \notin cut_off(largest)}

DownCustomersOf(i, largest) ==
  {c \in CustomersOf(i) : c \notin reachable \/ Uplink[c] \in cut_off(largest)}

Level(i, largest) == IF DownCustomersOf(i, largest) # {} THEN "outage" ELSE "degraded"

\* impact_totals: each customer once.
DownOf(largest) == UNION {DownCustomersOf(i, largest) : i \in candidates}

-----------------------------------------------------------------------------
(* What changes the rows                                                   *)

SessionGoesDown(p) ==
  /\ p \in established
  /\ established' = established \ {p}
  /\ UNCHANGED <<reachable, alarm>>

SessionComesUp(p) ==
  /\ p \in Mesh \ established
  /\ established' = established \cup {p}
  /\ UNCHANGED <<reachable, alarm>>

RouterChanges(r) ==
  /\ reachable' = IF r \in reachable THEN reachable \ {r} ELSE reachable \cup {r}
  /\ UNCHANGED <<established, alarm>>

\* An incident opens, is cleared by the device while it waits for an engineer,
\* or is resolved (a bump of a cleared one makes it open again).
AlarmChanges(i, to) ==
  /\ alarm[i] # to
  /\ to = "cleared" => alarm[i] = "open"
  /\ alarm' = [alarm EXCEPT ![i] = to]
  /\ UNCHANGED <<established, reachable>>

ImpactInit ==
  /\ established = Mesh
  /\ reachable = Primaries \cup Customers
  /\ alarm = [i \in Alarms |-> "none"]

ImpactNext ==
  \/ \E p \in Mesh : SessionGoesDown(p) \/ SessionComesUp(p)
  \/ \E r \in Failing : RouterChanges(r)
  \/ \E i \in Alarms, to \in {"none", "open", "cleared"} : AlarmChanges(i, to)

ImpactSpec == ImpactInit /\ [][ImpactNext]_impactVars

-----------------------------------------------------------------------------
(* Properties                                                              *)

\* Reference: the primaries within 0, 1, 2, ... sessions of n.
Wider(sessions, ball) == ball \cup {m \in Primaries : \E k \in ball : {k, m} \in sessions}

Around(sessions, n) ==
  LET ball[k \in 0..Cardinality(Primaries)] ==
        IF k = 0 THEN {n} ELSE Wider(sessions, ball[k - 1])
  IN  ball

ReachedFrom(sessions, n) == Around(sessions, n)[Cardinality(Primaries)]
Distance(sessions, n, m) ==
  LET ball == Around(sessions, n) IN Min({k \in DOMAIN ball : m \in ball[k]})

\* The types of all state.
ImpactTypeOK ==
  /\ established \subseteq Mesh
  /\ reachable \subseteq Primaries \cup Customers
  /\ alarm \in [Alarms -> {"none", "open", "cleared"}]

\* Whichever order the rows come in, the path shown for a session that is down
\* is a shortest one over established sessions, visits no router twice, and is
\* missing exactly when there is none.
RerouteIsShortest ==
  \A p \in Mesh \ established : \A a, b \in p :
    LET paths == shortest_reroute_path(established, a, b)
    IN a # b =>
       /\ (paths # {}) <=> b \in ReachedFrom(established, a)
       /\ \A path \in paths :
            /\ path[1] = a /\ path[Len(path)] = b
            /\ \A k \in 1 .. Len(path) - 1 : {path[k], path[k + 1]} \in established
            /\ Len(path) = Distance(established, a, b) + 1

\* A primary counts as cut off exactly if it is in the mesh and cannot reach
\* the backbone; those that are not can reach one another, and no group of
\* primaries that is cut off is larger than the backbone.
IsolationIsReachability ==
  \A largest \in LargestComponents(established) :
    LET isolated == _isolated_primary_ids(largest)
    IN /\ isolated \subseteq Meshed
       /\ \A n \in Meshed \ isolated : ReachedFrom(established, n) = Meshed \ isolated
       /\ \A n \in isolated \cap Linked(established) :
            Cardinality(ReachedFrom(established, n)) <= Cardinality(Meshed \ isolated)

\* While one component holds more than half of the mesh, a session that fails
\* only adds to the customers that are down and one that comes up only takes
\* away from them.  (Without such a component the answer may jump: a failure
\* in the one half can make the other half the backbone.)
HasMajority(sessions) ==
  \E c \in Components(sessions) : 2 * Cardinality(c) > Cardinality(Meshed)

ShownDown(sessions) == UNION {DownOf(c) : c \in LargestComponents(sessions)}

ImpactFollowsSessions ==
  \A p \in established :
    HasMajority(established \ {p}) => ShownDown(established) \subseteq ShownDown(established \ {p})

=============================================================================

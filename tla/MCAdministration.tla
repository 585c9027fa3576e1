---- MODULE MCAdministration ----
(***************************************************************************)
(* The parts of the backend that an administrator or an operator works on  *)
(* and that share no table: the sum of their state spaces.  In a behaviour  *)
(* one part moves and the others stay as they are after installation.      *)
(***************************************************************************)
EXTENDS IncidentTransactions, UserAccounts, MibRegistry, FleetTopology, NetworkImpact

VARIABLE focus      \* the part that moves in this behaviour
administrationVars ==
  <<txVars, userVars, mibVars, fleetVars, impactVars, focus>>

\* Users: a new administrator beside the first; patches that demote, promote, and
\* reset password and one-time secret.
AdminPatches ==
  {[role |-> "viewer", password |-> FALSE, reset_otp |-> FALSE],
   [role |-> "admin", password |-> FALSE, reset_otp |-> FALSE],
   [role |-> "keep", password |-> TRUE, reset_otp |-> TRUE]}

\* MIBs: a vendor's root, a module that needs it, and one that spells out an OID,
\* defines a trap the second one also has, hangs a base symbol from the vendor's root
\* and a trap from that, and has a symbol below itself.
Smi == [name |-> "ACME-SMI", notifications |-> <<>>, traps |-> <<>>,
        defs |-> [acme |-> [parent |-> "enterprises", arcs |-> <<7>>]]]
Fan == [name |-> "ACME-FAN", notifications |-> <<"fail">>,
        traps |-> <<[name |-> "old", enterprise |-> "fan", specific |-> 1]>>,
        defs |-> [fan |-> [parent |-> "acme", arcs |-> <<1>>],
                  fail |-> [parent |-> "fan", arcs |-> <<0, 1>>]]]
Rival == [name |-> "RIVAL", notifications |-> <<"mark", "spin">>,
          traps |-> <<[name |-> "other", enterprise |-> "rival", specific |-> 1]>>,
          defs |-> [rival |-> [parent |-> NoSymbol, arcs |-> <<1, 7, 1, 0>>],
                    system |-> [parent |-> "acme", arcs |-> <<2>>],
                    mark |-> [parent |-> "system", arcs |-> <<3>>],
                    spin |-> [parent |-> "spin", arcs |-> <<1>>]]]
MibFiles == {Smi, Fan, Rival}
MibBatches == {<<Smi>>, <<Fan, Rival>>}
MibBase == [enterprises |-> <<1>>, system |-> <<2>>]
TrapRules ==
  {[oid |-> <<9>>, action |-> "raise", enabled |-> TRUE],
   [oid |-> <<9>>, action |-> "clear", enabled |-> FALSE]}

\* The fleet: three routers, a hub with two peerings; and the same in a database of
\* before repair_peering_bundles, whose hub has one bundle for both peerings.
SeededRouters == {<<1, 2, 3>>}
SeededLinks == {<<<<1, 2>>, <<1, 3>>>>}
OldLinks == {[id |-> 1, ends |-> {1, 2}], [id |-> 2, ends |-> {1, 3}]}
OldBundles == {[router |-> 1, peering |-> 1, number |-> 0],
               [router |-> 2, peering |-> 1, number |-> 0],
               [router |-> 3, peering |-> 2, number |-> 0]}
OldGraph == OldBundles \cup {[router |-> 1, peering |-> 2, number |-> 0]}

\* Impact: a triangle with a spur on either side and a primary without a peering; a
\* customer on the one spur and one on the triangle.
Backbone == {"n1", "n2", "n3", "n4", "n5", "n6"}
Spurs == {{"n1", "n2"}, {"n2", "n3"}, {"n3", "n4"}, {"n2", "n4"}, {"n4", "n5"}}
HomeOf == [c1 |-> "n1", c4 |-> "n4"]
OpenAlarms == {[router |-> "n3", peering |-> {"n3", "n4"}, affecting |-> TRUE],
               [router |-> "n1", peering |-> NoPeering, affecting |-> TRUE],
               [router |-> "c4", peering |-> NoPeering, affecting |-> FALSE]}

\* Where the network is not what a behaviour is about, all its sessions are down,
\* which costs the invariants of impact least to evaluate.
SessionsDown ==
  /\ established = {}
  /\ reachable = Primaries \cup Customers
  /\ alarm = [i \in Alarms |-> "none"]

AdministrationInit ==
  /\ focus \in {"incidents", "users", "imports", "rules", "fleet", "impact"}
  /\ TxInit /\ UserInit /\ MibInit /\ FleetInit
  /\ IF focus = "impact" THEN ImpactInit ELSE SessionsDown
  /\ focus = "fleet" \/ peerings = {}

IncidentsMove ==
  /\ focus = "incidents" /\ TxNext
  /\ UNCHANGED <<userVars, mibVars, fleetVars, impactVars, focus>>

UsersMove ==
  /\ focus = "users" /\ UserNext
  /\ UNCHANGED <<txVars, mibVars, fleetVars, impactVars, focus>>

\* Imports and deletions, two at once.
ImportsMove ==
  /\ focus = "imports" /\ \E q \in Uploads : UploadNext(q)
  /\ UNCHANGED <<txVars, userVars, fleetVars, impactVars, focus>>

\* Rules and the cache, and one import or deletion after another.
RulesMove ==
  /\ focus = "rules"
  /\ UploadNext(CHOOSE q \in Uploads : TRUE) \/ RuleNext
  /\ nextModule' <= 3
  /\ UNCHANGED <<txVars, userVars, fleetVars, impactVars, focus>>

FleetMoves ==
  /\ focus = "fleet" /\ FleetNext
  /\ UNCHANGED <<txVars, userVars, mibVars, impactVars, focus>>

NetworkMoves ==
  /\ focus = "impact" /\ ImpactNext
  /\ UNCHANGED <<txVars, userVars, mibVars, fleetVars, focus>>

AdministrationNext ==
  IncidentsMove \/ UsersMove \/ ImportsMove \/ RulesMove \/ FleetMoves \/ NetworkMoves

AdministrationSpec ==
  AdministrationInit /\ [][AdministrationNext]_administrationVars

\* The fleet alone, for what must happen under the fairness of its processes.
FleetAlone ==
  /\ AdministrationInit /\ focus = "fleet"
  /\ [][AdministrationNext]_administrationVars
  /\ FleetFairness

\* Requests are alike, and so are the operations on the fleet.
Alike == Permutations(Requests) \cup Permutations(Ops)

\* All parts of the state are of their types.
AdministrationTypeOK ==
  /\ TxTypeOK /\ UserTypeOK /\ MibTypeOK /\ FleetTypeOK /\ ImpactTypeOK
====

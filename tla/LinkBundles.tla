---------------------------- MODULE LinkBundles -----------------------------
(***************************************************************************)
(* Interface bundles and BGP sessions: backend/app/bundles.py, the part of *)
(* snmp/classifier.py that keeps them, resolve-all's _restore_link_state   *)
(* (api/incidents.py), and the coroutines that send the traps: those of    *)
(* simulator/trap_simulator.py, and a fiber fault's (fiber_faults.py).     *)
(*                                                                         *)
(* A peering has an end at each of its two routers, an end has a bundle of *)
(* members.  The correlator handles one trap at a time, in a transaction   *)
(* whose statements interleave with those of _restore_link_state at READ   *)
(* COMMITTED: what a transaction wrote is seen by others once it commits,  *)
(* a row it wrote is locked until then, and of an object it loaded it      *)
(* writes back only the columns it changed.  Traps are neither lost nor    *)
(* overtaken on their way here; that is the subject of AlarmPipeline.      *)
(***************************************************************************)
EXTENDS Naturals, Sequences, FiniteSets

CONSTANTS
  Routers,        \* the primaries
  Peerings,       \* BGP peerings
  SideA, SideB,   \* [Peerings -> Routers]
  BlipPorts,      \* members that lose their adjacency one at a time
  FailingEnds,    \* ends that lose every member
  ResetEnds,      \* ends whose BGP session is reset
  FaultSpans,     \* <<peering, span>>: interior spans, which fiber faults cut
  Coroutines,     \* bound of the model: events under way at once
  Mishaps         \* bound of the model: resolve-alls, pauses and restarts

BUNDLE_MEMBER_COUNT == 2

Members == 1 .. BUNDLE_MEMBER_COUNT
Ends    == {e \in Peerings \X Routers : e[2] \in {SideA[e[1]], SideB[e[1]]}}
EndsOf(p) == {e \in Ends : e[1] = p}
Port    == Ends \X Members

ASSUME LinkTopologyAssumption ==
  /\ SideA \in [Peerings -> Routers]
  /\ SideB \in [Peerings -> Routers]
  /\ \A p \in Peerings : SideA[p] # SideB[p]

ASSUME LinkInputAssumption ==
  /\ BlipPorts \subseteq Port /\ FailingEnds \subseteq Ends /\ ResetEnds \subseteq Ends
  /\ FaultSpans \subseteq Peerings \X Nat /\ Mishaps \in Nat

VARIABLES
  adjacent,    \* [Port -> BOOLEAN]: Interface.isis_adjacency_up, committed
  bundle,      \* [Ends -> status]: InterfaceBundle.status, committed
  session,     \* [Peerings -> status]: BgpPeering.status, committed
  trapTx,      \* the correlator's transaction
  restoreTx,   \* _restore_link_state's transaction
  tasks,       \* [Coroutines -> [script, by]]: the traps each has still to send
  simulation,  \* the backend's simulation switch
  polled,      \* the simulator's copy of it
  mishaps,     \* resolve-alls, pauses and restarts so far
  swallowed,   \* history: what is still owed a recovery that was never sent
  raced        \* history: ends with a trap handled while a restore was open,
               \* and none since that was not

rows     == <<adjacent, bundle, session>>
linkVars == <<rows, trapTx, restoreTx, tasks, simulation, polled, mishaps, swallowed, raced>>

-----------------------------------------------------------------------------
(* Traps, and the coroutines that send them                                *)

OfMember(m)  == [kind |-> "isis", port |-> m]
OfSession(e) == [kind |-> "bgp", end |-> e]

Falls(x) == [of |-> x, up |-> FALSE]
Rises(x) == [of |-> x, up |-> TRUE]

\* One thing goes down and comes back: a member's blip, a session's reset.
Blink(x) == <<Falls(x), Rises(x)>>

\* Every member of the bundle in turn, down and then up.
BundleFailure(e) ==
  [k \in Members |-> Falls(OfMember(<<e, k>>))] \o [k \in Members |-> Rises(OfMember(<<e, k>>))]

SimulatorScripts ==
  {Blink(OfMember(m)) : m \in BlipPorts} \cup
  {BundleFailure(e) : e \in FailingEnds} \cup
  {Blink(OfSession(e)) : e \in ResetEnds}

\* Mutant of FiberFault: side B's other member is the one that heals.
CrossedFiberFault(p, span) ==
  LET k      == 1 + (span % BUNDLE_MEMBER_COUNT)
      onA    == OfMember(<<<<p, SideA[p]>>, k>>)
      onB(j) == OfMember(<<<<p, SideB[p]>>, j>>)
  IN <<Falls(onA), Falls(onB(k)), Rises(onA), Rises(onB(3 - k))>>

\* One member on each side, picked by the span cut, down and then up.
FiberFault(p, span) ==
  LET hit(r) == OfMember(<<<<p, r>>, 1 + (span % BUNDLE_MEMBER_COUNT)>>)
  IN <<Falls(hit(SideA[p])), Falls(hit(SideB[p])), Rises(hit(SideA[p])), Rises(hit(SideB[p]))>>

Idle == <<>>

\* What a recovery repairs: both ends of a session repair the same thing.
SessionOf(p) == [kind |-> "bgp", peering |-> p]
Repairs(x)   == IF x.kind = "bgp" THEN SessionOf(x.end[1]) ELSE x

Recoveries(script) == {Repairs(script[k].of) : k \in {j \in DOMAIN script : script[j].up}}

\* An event of the simulator begins, whether it is paused or not: the switch
\* is looked at in send_trap only.  (The loops also wait while the L3 rate is
\* 0; an event already begun does not.)
StartEvent(c) ==
  /\ tasks[c].script = Idle
  /\ \E script \in SimulatorScripts :
       tasks' = [tasks EXCEPT ![c] = [script |-> script, by |-> "simulator"]]
  /\ UNCHANGED <<rows, trapTx, restoreTx, simulation, polled, mishaps, swallowed, raced>>

\* fiber_fault_loop: a span of an established peering with no fault active.
StartFault(c) ==
  /\ tasks[c].script = Idle
  /\ simulation
  /\ \E cut \in FaultSpans :
       /\ session[cut[1]] = "established"
       /\ \A d \in Coroutines : tasks[d].script = Idle \/ tasks[d].by # cut[1]
       /\ tasks' = [tasks EXCEPT ![c] = [script |-> FiberFault(cut[1], cut[2]), by |-> cut[1]]]
  /\ UNCHANGED <<rows, trapTx, restoreTx, simulation, polled, mishaps, swallowed, raced>>

NextTrap(c) == Head(tasks[c].script)

\* Mutant of Sent: a coroutine is garbage-collected after its first send.
SentAndCollected(c) == [tasks EXCEPT ![c].script = Idle]

Sent(c) == [tasks EXCEPT ![c].script = Tail(@)]

\* send_trap of a paused simulator returns without sending.
Drop(c) ==
  /\ tasks[c].script # Idle
  /\ tasks[c].by = "simulator"
  /\ ~polled
  /\ tasks' = Sent(c)
  /\ swallowed' = IF NextTrap(c).up THEN swallowed \cup {Repairs(NextTrap(c).of)} ELSE swallowed
  /\ UNCHANGED <<rows, trapTx, restoreTx, simulation, polled, mishaps, raced>>

\* A trap is sent and the correlator, which is idle, takes it.
MaySend(c) ==
  /\ trapTx.at = "idle"
  /\ tasks[c].script # Idle
  /\ tasks[c].by = "simulator" => polled

Mishap == mishaps < Mishaps /\ mishaps' = mishaps + 1

Pause ==
  /\ simulation /\ Mishap
  /\ simulation' = FALSE
  /\ UNCHANGED <<rows, trapTx, restoreTx, tasks, polled, swallowed, raced>>

Resume ==
  /\ ~simulation
  /\ simulation' = TRUE
  /\ UNCHANGED <<rows, trapTx, restoreTx, tasks, polled, mishaps, swallowed, raced>>

PollSwitch ==
  /\ polled' = simulation
  /\ UNCHANGED <<rows, trapTx, restoreTx, tasks, simulation, mishaps, swallowed, raced>>

-----------------------------------------------------------------------------
(* classify_and_store: one trap, one transaction                           *)

NoTrap == [at |-> "idle", trap |-> Idle, status |-> "none", writes |-> {}, clean |-> FALSE]

PortOf(trap)  == trap.of.port
EndOf(trap)   == PortOf(trap)[1]
Restoring     == restoreTx.at # "idle"

\* Mutant of SessionStatus: the bundle's status is taken for the session's.
BundleStatus(up)  == IF up THEN "up" ELSE "down"
SessionStatus(up) == IF up THEN "established" ELSE "down"

\* The rows the correlator's transaction has written so far and so holds.
HeldPorts   == IF trapTx.at \in {"flip", "commit"} THEN {PortOf(trapTx.trap)} ELSE {}
HeldBundles == IF "bundle" \in trapTx.writes THEN {EndOf(trapTx.trap)} ELSE {}

\* A BGP trap locks the session's row, reads it and writes it.
SessionTrap(c) ==
  /\ MaySend(c)
  /\ NextTrap(c).of.kind = "bgp"
  /\ LET trap == NextTrap(c)  p == trap.of.end[1]
     IN /\ p \notin restoreTx.peerings
        /\ session' = [session EXCEPT ![p] = SessionStatus(trap.up)]
        /\ swallowed' = IF trap.up THEN swallowed \ {SessionOf(p)} ELSE swallowed
  /\ tasks' = Sent(c)
  /\ UNCHANGED <<adjacent, bundle, trapTx, restoreTx, simulation, polled, mishaps, raced>>

\* update_member_and_bundle loads the member; the column is written back only
\* if the value loaded is another.
LoadMember(c) ==
  /\ MaySend(c)
  /\ NextTrap(c).of.kind = "isis"
  /\ LET trap == NextTrap(c)
     IN /\ trapTx' = [at |-> "loaded", trap |-> trap, status |-> "none", clean |-> ~Restoring,
                      writes |-> IF adjacent[PortOf(trap)] # trap.up THEN {"member"} ELSE {}]
        /\ raced' = IF Restoring THEN raced \cup {EndOf(trap)} ELSE raced
  /\ tasks' = Sent(c)
  /\ UNCHANGED <<rows, restoreTx, simulation, polled, mishaps, swallowed>>

\* The members as the transaction sees them: its own, and others' committed.
SeenUp(m) == IF m = PortOf(trapTx.trap) THEN trapTx.trap.up ELSE adjacent[m]

\* Mutant of recompute_bundle_status: up only while every member is.
EveryMember(e) == IF \A k \in Members : SeenUp(<<e, k>>) THEN "up" ELSE "down"

recompute_bundle_status(e) == IF \E k \in Members : SeenUp(<<e, k>>) THEN "up" ELSE "down"

\* Mutant of RollUp: a bundle's status is what the last trap of a member said.
RollUpLast ==
  /\ trapTx.at = "loaded"
  /\ PortOf(trapTx.trap) \notin restoreTx.ports
  /\ LET e == EndOf(trapTx.trap)  new == IF trapTx.trap.up THEN "up" ELSE "down"
     IN trapTx' = IF new = bundle[e] THEN [trapTx EXCEPT !.at = "commit"]
                  ELSE [trapTx EXCEPT !.at = "flip", !.status = new]
  /\ UNCHANGED <<rows, restoreTx, tasks, simulation, polled, mishaps, swallowed, raced>>

\* The member is flushed, and its bundle's status computed and compared.
RollUp ==
  /\ trapTx.at = "loaded"
  /\ PortOf(trapTx.trap) \notin restoreTx.ports
  /\ LET e == EndOf(trapTx.trap)  new == recompute_bundle_status(e)
     IN trapTx' = IF new = bundle[e] THEN [trapTx EXCEPT !.at = "commit"]
                  ELSE [trapTx EXCEPT !.at = "flip", !.status = new]
  /\ UNCHANGED <<rows, restoreTx, tasks, simulation, polled, mishaps, swallowed, raced>>

\* Mutant of FlipBundle: the session is left alone when a bundle flips back.
FlipDownOnly ==
  /\ trapTx.at = "flip"
  /\ EndOf(trapTx.trap) \notin restoreTx.bundles
  /\ trapTx' = [trapTx EXCEPT !.at = "commit",
       !.writes = @ \cup {"bundle"} \cup (IF trapTx.status = "down" THEN {"session"} ELSE {})]
  /\ UNCHANGED <<rows, restoreTx, tasks, simulation, polled, mishaps, swallowed, raced>>

\* A bundle whose status changed is flushed, and takes the session with it:
\* the session was loaded through the bundle, before its row is locked.
FlipBundle ==
  /\ trapTx.at = "flip"
  /\ EndOf(trapTx.trap) \notin restoreTx.bundles
  /\ LET p == EndOf(trapTx.trap)[1]
     IN trapTx' = [trapTx EXCEPT !.at = "commit",
          !.writes = @ \cup {"bundle"} \cup
                     (IF session[p] # SessionStatus(trapTx.status = "up") THEN {"session"} ELSE {})]
  /\ UNCHANGED <<rows, restoreTx, tasks, simulation, polled, mishaps, swallowed, raced>>

\* The session's row is locked and written, and the transaction commits.
CommitTrap ==
  /\ trapTx.at = "commit"
  /\ LET m == PortOf(trapTx.trap)  e == m[1]  p == e[1]  wrote(x) == x \in trapTx.writes
     IN /\ wrote("bundle") => p \notin restoreTx.peerings
        /\ adjacent' = IF wrote("member") THEN [adjacent EXCEPT ![m] = trapTx.trap.up] ELSE adjacent
        /\ bundle' = IF wrote("bundle") THEN [bundle EXCEPT ![e] = trapTx.status] ELSE bundle
        /\ session' = IF wrote("session")
                      THEN [session EXCEPT ![p] = SessionStatus(trapTx.status = "up")] ELSE session
        /\ swallowed' = IF trapTx.trap.up THEN swallowed \ {OfMember(m)} ELSE swallowed
        /\ raced' = IF trapTx.clean THEN raced \ {e} ELSE raced
  /\ trapTx' = NoTrap
  /\ UNCHANGED <<restoreTx, tasks, simulation, polled, mishaps>>

-----------------------------------------------------------------------------
(* _restore_link_state: three updates, one transaction, no router's lock   *)

NoRestore == [at |-> "idle", ports |-> {}, bundles |-> {}, peerings |-> {}]

DownPorts    == {m \in Port : ~adjacent[m]}
DownBundles  == {e \in Ends : bundle[e] = "down"}
DownSessions == {p \in Peerings : session[p] = "down"}

RestorePorts ==
  /\ restoreTx.at = "idle"
  /\ DownPorts \cap HeldPorts = {}
  /\ Mishap
  /\ restoreTx' = [NoRestore EXCEPT !.at = "bundles", !.ports = DownPorts]
  /\ trapTx' = [trapTx EXCEPT !.clean = FALSE]
  /\ raced' = IF trapTx.at = "idle" THEN raced ELSE raced \cup {EndOf(trapTx.trap)}
  /\ UNCHANGED <<rows, tasks, simulation, polled, swallowed>>

RestoreBundles ==
  /\ restoreTx.at = "bundles"
  /\ DownBundles \cap HeldBundles = {}
  /\ restoreTx' = [restoreTx EXCEPT !.at = "peerings", !.bundles = DownBundles]
  /\ UNCHANGED <<rows, trapTx, tasks, simulation, polled, mishaps, swallowed, raced>>

RestorePeerings ==
  /\ restoreTx.at = "peerings"
  /\ restoreTx' = [restoreTx EXCEPT !.at = "commit", !.peerings = DownSessions]
  /\ UNCHANGED <<rows, trapTx, tasks, simulation, polled, mishaps, swallowed, raced>>

CommitRestore ==
  /\ restoreTx.at = "commit"
  /\ adjacent' = [m \in Port |-> adjacent[m] \/ m \in restoreTx.ports]
  /\ bundle' = [e \in Ends |-> IF e \in restoreTx.bundles THEN "up" ELSE bundle[e]]
  /\ session' = [p \in Peerings |-> IF p \in restoreTx.peerings THEN "established" ELSE session[p]]
  /\ swallowed' = swallowed \ ({OfMember(m) : m \in restoreTx.ports}
                               \cup {SessionOf(p) : p \in restoreTx.peerings})
  /\ restoreTx' = NoRestore
  /\ UNCHANGED <<trapTx, tasks, simulation, polled, mishaps, raced>>

\* The fault tasks and an open restore die with the backend, and the switch
\* is back on; the correlator is a process of its own.
BackendRestart ==
  /\ Mishap
  /\ tasks' = [c \in Coroutines |-> IF tasks[c].by = "simulator" THEN tasks[c]
                                    ELSE [tasks[c] EXCEPT !.script = Idle]]
  /\ swallowed' = swallowed \cup
       UNION {Recoveries(tasks[c].script) : c \in {d \in Coroutines : tasks[d].by # "simulator"}}
  /\ restoreTx' = NoRestore
  /\ simulation' = TRUE
  /\ UNCHANGED <<rows, trapTx, polled, raced>>

-----------------------------------------------------------------------------
LinkInit ==
  /\ adjacent = [m \in Port |-> TRUE]
  /\ bundle = [e \in Ends |-> "up"]
  /\ session = [p \in Peerings |-> "established"]
  /\ trapTx = NoTrap
  /\ restoreTx = NoRestore
  /\ tasks = [c \in Coroutines |-> [script |-> Idle, by |-> "simulator"]]
  /\ simulation = TRUE
  /\ polled = TRUE
  /\ mishaps = 0
  /\ swallowed = {}
  /\ raced = {}

SendNext(c)  == LoadMember(c) \/ SessionTrap(c) \/ Drop(c)
TrapStep     == RollUp \/ FlipBundle \/ CommitTrap
RestoreStep  == RestoreBundles \/ RestorePeerings \/ CommitRestore

LinkNext ==
  \/ \E c \in Coroutines : StartEvent(c) \/ StartFault(c) \/ SendNext(c)
  \/ Pause
  \/ Resume
  \/ PollSwitch
  \/ TrapStep
  \/ RestorePorts
  \/ RestoreStep
  \/ BackendRestart

\* A coroutine that slept goes on, the correlator takes traps in the order
\* they came, and a transaction that may go on does.
LinkFairness ==
  /\ \A c \in Coroutines : SF_linkVars(SendNext(c))
  /\ WF_linkVars(TrapStep)
  /\ WF_linkVars(RestoreStep)

LinkSpec == LinkInit /\ [][LinkNext]_linkVars /\ LinkFairness

-----------------------------------------------------------------------------
(* Properties                                                              *)

\* The types of all state.
LinkTypeOK ==
  /\ adjacent \in [Port -> BOOLEAN]
  /\ bundle \in [Ends -> {"up", "down"}]
  /\ session \in [Peerings -> {"established", "down"}]
  /\ trapTx.at \in {"idle", "loaded", "flip", "commit"}
  /\ restoreTx.at \in {"idle", "bundles", "peerings", "commit"}
  /\ simulation \in BOOLEAN /\ polled \in BOOLEAN
  /\ raced \subseteq Ends /\ mishaps \in 0 .. Mishaps

\* A bundle is up exactly while one of its members is, unless a trap of it was
\* handled while a restore was open: and the next trap handled alone sets the
\* bundle right (update_member_and_bundle against _restore_link_state).
BundleFollowsMembers ==
  \A e \in Ends \ raced : (bundle[e] = "up") <=> \E k \in Members : adjacent[<<e, k>>]

Owed == swallowed \cup (UNION {Recoveries(tasks[c].script) : c \in Coroutines})
               \cup (IF trapTx.at # "idle" THEN Recoveries(<<trapTx.trap>>) ELSE {})

\* A member that is down has a recovery coming, or one that a pause of the
\* simulator or a restart of the backend swallowed: whatever overlaps, every
\* event of the simulator and of the fault loop takes back what it did.
DownWillRecover ==
  \A m \in Port : adjacent[m] \/ OfMember(m) \in Owed

\* A session is down because a bundle at one of its ends is, or because a
\* reset of it has not been taken back yet: two ends flipping, resets on top
\* of them and a restore between never leave it down for no reason.
DownSessionIsExplained ==
  \A p \in Peerings : session[p] = "down" =>
    (\E e \in EndsOf(p) : bundle[e] = "down") \/ SessionOf(p) \in Owed

\* True redundancy: losing members takes a session down only when an end has
\* no member left, unless a restore was being written at the same time.
RedundancyHolds ==
  [][\A p \in Peerings :
       session[p] = "established" /\ session'[p] = "down" /\ trapTx.at = "commit" =>
         \E e \in EndsOf(p) : e \in raced \/ \A k \in Members : ~adjacent'[<<e, k>>]]_linkVars

\* A session that goes down comes back, unless a recovery of it was swallowed
\* or a restore ran into one of its bundles' traps.
SessionRecovers ==
  \A p \in Peerings :
    session[p] = "down" ~>
      \/ session[p] = "established"
      \/ \E e \in EndsOf(p) : e \in raced \/ \E k \in Members : OfMember(<<e, k>>) \in swallowed
      \/ SessionOf(p) \in swallowed

=============================================================================

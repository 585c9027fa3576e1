----------------------------- MODULE SweepQueue -----------------------------
(***************************************************************************)
(* The queue in front of the sweeper: the NEW incidents of                 *)
(* backend/app/incidents/service.py, in the order of their                 *)
(* stage_changed_at, of which a sweep takes at most SWEEP_BATCH that are   *)
(* ripe and whose row no API request has locked.  Alarms and releases      *)
(* bring new ones without end: a row that has left may come again as       *)
(* another incident.                                                       *)
(*                                                                         *)
(* What a sweep makes of the incidents it takes is IncidentWorkflow's      *)
(* subject.  Here each leaves NEW, as it does there, and what matters is   *)
(* which are taken.                                                        *)
(***************************************************************************)
EXTENDS Naturals, Sequences, FiniteSets, Functions, IncidentTypes

CONSTANTS
  Rows,          \* bound of the model: incidents in NEW at the same time
  Types,         \* the types of the incidents that open
  Settle,        \* INCIDENT_SETTLE_SECONDS, in ticks
  SweepBatch,    \* SWEEP_BATCH
  MaxRollbacks   \* bound of the model: requests that are rolled back

ASSUME QueueAssumption ==
  /\ Types \subseteq AUTO_HEAL_ELIGIBLE_TYPES
  /\ Settle \in Nat /\ MaxRollbacks \in Nat /\ SweepBatch \in Nat \ {0}

VARIABLES
  queue,      \* NEW incidents, oldest first, as sets that became NEW at one time
  alarm,      \* [Waiting -> Types]: their types
  age,        \* [Waiting -> 0 .. Settle]: ticks since their stage_changed_at
  locked,     \* those an open request has updated
  rollbacks   \* requests rolled back so far

queueVars == <<queue, alarm, age, locked, rollbacks>>

Waiting == UNION Range(queue)

\* The incidents of S are NEW no longer.
TakeOut(S) ==
  /\ queue' = SelectSeq([i \in DOMAIN queue |-> queue[i] \ S], LAMBDA cohort : cohort # {})
  /\ alarm' = Restrict(alarm, Waiting \ S)
  /\ age' = Restrict(age, Waiting \ S)

-----------------------------------------------------------------------------
(* Coming and going                                                        *)

\* One transaction makes the incidents of S new: an alarm opens one, the clear
\* of a root releases several.  All get the transaction's time.
BecomeNew(S, type) ==
  /\ S # {}
  /\ S \cap Waiting = {}
  /\ queue' = Append(queue, S)
  /\ alarm' = [n \in Waiting \cup S |-> IF n \in S THEN type[n] ELSE alarm[n]]
  /\ age' = [n \in Waiting \cup S |-> IF n \in S THEN 0 ELSE age[n]]
  /\ UNCHANGED <<locked, rollbacks>>

\* The correlator claims one for a root or clears it; it waits for row locks.
LeaveNew(n) ==
  /\ n \in Waiting \ locked
  /\ TakeOut({n})
  /\ UNCHANGED <<locked, rollbacks>>

\* An operator's acknowledge, dispatch or resolve has written its row ...
Request(n) ==
  /\ n \in Waiting \ locked
  /\ locked' = locked \cup {n}
  /\ UNCHANGED <<queue, alarm, age, rollbacks>>

\* ... commits, which takes it out of NEW ...
Commit(n) ==
  /\ n \in locked
  /\ locked' = locked \ {n}
  /\ TakeOut({n})
  /\ UNCHANGED rollbacks

\* ... or fails.
RollBack(n) ==
  /\ n \in locked
  /\ rollbacks < MaxRollbacks
  /\ rollbacks' = rollbacks + 1
  /\ locked' = locked \ {n}
  /\ UNCHANGED <<queue, alarm, age>>

Tick ==
  /\ age' = [n \in Waiting |-> IF age[n] < Settle THEN age[n] + 1 ELSE Settle]
  /\ UNCHANGED <<queue, alarm, locked, rollbacks>>

-----------------------------------------------------------------------------
(* The sweep                                                               *)

Ripe(n) == age[n] >= Settle \/ alarm[n] \in SETTLE_EXEMPT_TYPES

\* What FOR UPDATE SKIP LOCKED leaves of the incidents that are due.
Due == {n \in Waiting : Ripe(n) /\ n \notin locked}

Older(n, m) == \E i, j \in DOMAIN queue : i < j /\ n \in queue[i] /\ m \in queue[j]

\* Mutant of Taken: the query has a limit, but no order.
TakenInAnyOrder ==
  {B \in SUBSET Due : IF Cardinality(Due) <= SweepBatch THEN B = Due
                                                        ELSE Cardinality(B) = SweepBatch}

\* The batches the query may return: equal times come in any order.
Taken ==
  {B \in SUBSET Due :
     /\ IF Cardinality(Due) <= SweepBatch THEN B = Due ELSE Cardinality(B) = SweepBatch
     /\ \A n \in B, m \in Due \ B : ~Older(m, n)}

Sweep ==
  /\ Due # {}
  /\ \E B \in Taken : TakeOut(B)
  /\ UNCHANGED <<locked, rollbacks>>

-----------------------------------------------------------------------------

QueueInit ==
  /\ queue = <<>>
  /\ alarm = [n \in {} |-> "UNKNOWN"]
  /\ age = [n \in {} |-> 0]
  /\ locked = {}
  /\ rollbacks = 0

QueueNext ==
  \/ \E S \in SUBSET Rows : \E type \in [S -> Types] : BecomeNew(S, type)
  \/ \E n \in Rows : LeaveNew(n) \/ Request(n) \/ Commit(n) \/ RollBack(n)
  \/ Tick
  \/ Sweep

\* The correlator sweeps again and again, time passes, and every request ends.
\* Nothing obliges an alarm to stop coming or a request to come.
QueueFairness ==
  /\ WF_queueVars(Sweep)
  /\ WF_queueVars(Tick)
  /\ \A n \in Rows : WF_queueVars(Commit(n) \/ RollBack(n))

QueueSpec == QueueInit /\ [][QueueNext]_queueVars /\ QueueFairness

-----------------------------------------------------------------------------

\* No incident starves in NEW (service.py:465): however many younger ones come,
\* the settle-exempt among them due at once, and however long requests hold its
\* row or others', a sweep of any batch size comes to take it.
NobodyStarves == \A n \in Rows : n \in Waiting ~> n \notin Waiting

=============================================================================

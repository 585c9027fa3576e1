------------------------ MODULE IncidentTransactions ------------------------
(***************************************************************************)
(* The two processes that write incident rows: the backend's incident      *)
(* handlers and the correlator. IncidentWorkflow takes each operation as    *)
(* one step; here a handler or a message is a database transaction at      *)
(* READ COMMITTED: it loads rows into its session, decides on the copies,  *)
(* and its commit writes only the columns that changed, whatever the rows  *)
(* hold by then. A flush takes row locks, and the other process's writes   *)
(* to those rows wait for the commit.                                      *)
(*                                                                         *)
(* The incident handlers are coroutines that use the database without      *)
(* awaiting it, mail included, so the backend has one of them under way at *)
(* a time; the correlator handles one message or one sweep at a time.      *)
(*                                                                         *)
(* Each identity here is a problem that opens once. Counters, timestamps,  *)
(* priorities and router status are IncidentWorkflow's.                    *)
(***************************************************************************)
EXTENDS IncidentTypes

CONSTANTS
  Roots,       \* fiber faults: layer L1, with a peering
  Symptoms,    \* alarms of the layer above, each on a span of every root
  NoRoot       \* root_cause_incident_id is None

ASSUME ProblemAssumption == Roots \cap Symptoms = {} /\ NoRoot \notin Roots \cup Symptoms

VARIABLES
  rows,        \* [Roots \cup Symptoms -> row], as committed
  tx,          \* [Processes -> transaction under way, or Idle]
  decided,     \* the stage an operator's committed action gave the incident
  raced        \* incidents decided on from a copy the other process outdated

txVars == <<rows, tx, decided, raced>>

Problems == Roots \cup Symptoms
Processes == {"backend", "correlator"}
Other(p) == IF p = "backend" THEN "correlator" ELSE "backend"

TxRow ==
  [status : IncidentStatus \cup {"absent"}, stage : IncidentStage,
   root : Roots \cup {NoRoot}]

Absent == [status |-> "absent", stage |-> "new", root |-> NoRoot]
NewRow(root) ==
  [status |-> "open", stage |-> IF root = NoRoot THEN "new" ELSE "suppressed",
   root |-> root]

NoTx == [op |-> "idle", on |-> {}, seen |-> <<>>, copy |-> <<>>,
         locks |-> {}, stale |-> {}]

IsOpen(i) == rows[i].status = "open"

(***************************************************************************)
(* The session.                                                            *)
(***************************************************************************)

\* A transaction that has loaded the incidents of I and decides on those of on.
Loaded(op, on, I) ==
  [NoTx EXCEPT !.op = op, !.on = on,
     !.seen = [i \in I |-> rows[i]], !.copy = [i \in I |-> rows[i]]]

\* The row after the unit of work's UPDATE: it sets the columns whose value changed.
Updated(row, before, after) ==
  LET column(c) == IF after[c] # before[c] THEN after[c] ELSE row[c] IN
  [status |-> column("status"), stage |-> column("stage"), root |-> column("root")]

\* A process may write a row once the other has let go of its lock.
MayWrite(p, I) == I \cap tx[Other(p)].locks = {}

\* The incidents whose rows or whose root another process changed after they
\* were read, or that it linked to a row this transaction has decided on.
Outdated(t) ==
  LET mine == DOMAIN t.copy IN
  (t.stale \cap mine)
    \cup {i \in mine : t.copy[i].root \in t.stale}
    \cup {i \in t.stale : rows[i].root \in mine}

\* Commits t with the copies it ends with.
CommitTx(p, t) ==
  LET written == {i \in DOMAIN t.copy : t.copy[i] # t.seen[i]} IN
  /\ MayWrite(p, written)
  /\ rows' = [i \in Problems |->
                IF i \in written THEN Updated(rows[i], t.seen[i], t.copy[i])
                ELSE rows[i]]
  /\ tx' = [q \in Processes |->
              IF q = p \/ tx[q].op = "idle" THEN NoTx
              ELSE [tx[q] EXCEPT !.stale = @ \cup written]]

\* The copies with every incident of I resolved, as _resolve leaves them.
Resolved(copy, I) ==
  [i \in DOMAIN copy |->
     IF i \in I THEN [copy[i] EXCEPT !.status = "resolved", !.stage = "resolved"]
     ELSE copy[i]]

\* A mutant: the query returns no symptom.
NoSymptoms(I) == {i \in I : FALSE}

\* Run after the root's own change is flushed; sees what is committed.
_open_symptoms(I) == {s \in Symptoms : IsOpen(s) /\ rows[s].root \in I}

\* The symptoms the query returns join the session; those it holds stay as loaded.
WithSymptoms(t, I) ==
  LET load(f) == [i \in DOMAIN f \cup _open_symptoms(I) |->
                    IF i \in DOMAIN f THEN f[i] ELSE rows[i]] IN
  [t EXCEPT !.seen = load(@), !.copy = load(@)]

\* What t has loaded that is still open in its session.
OpenCopies(t) == {i \in DOMAIN t.copy : t.copy[i].status = "open"}

(***************************************************************************)
(* The backend's handlers.                                                 *)
(***************************************************************************)

\* ack, notify and resolve load the incident and refuse a closed one or a symptom.
BeginHandler(op, i) ==
  /\ tx["backend"].op = "idle"
  /\ IsOpen(i)
  /\ rows[i].root = NoRoot
  /\ tx' = [tx EXCEPT !["backend"] = Loaded(op, {i}, {i})]
  /\ UNCHANGED <<rows, decided, raced>>

\* resolve-all loads whatever is open.
BeginResolveAll ==
  LET open == {i \in Problems : IsOpen(i)} IN
  /\ tx["backend"].op = "idle"
  /\ tx' = [tx EXCEPT !["backend"] = Loaded("resolve", open, open)]
  /\ UNCHANGED <<rows, decided, raced>>

CommitHandler(t) ==
  /\ CommitTx("backend", t)
  /\ raced' = raced \cup Outdated(t)

\* A dispatched incident stays dispatched when it is acknowledged.
acknowledge(i) ==
  LET t == tx["backend"]
      stage == IF t.copy[i].stage = "dispatched" THEN "dispatched" ELSE "acknowledged"
  IN
  /\ t.op = "ack"
  /\ t.on = {i}
  /\ CommitHandler([t EXCEPT !.copy[i].stage = stage])
  /\ decided' = [decided EXCEPT ![i] = stage]

\* The mail has been sent, or recorded as simulated.
dispatch(i) ==
  LET t == tx["backend"] IN
  /\ t.op = "notify"
  /\ t.on = {i}
  /\ CommitHandler([t EXCEPT !.copy[i].stage = "dispatched"])
  /\ decided' = [decided EXCEPT ![i] = "dispatched"]

\* A mail that failed is recorded and leaves the stage alone.
MailFailed ==
  /\ tx["backend"].op = "notify"
  /\ CommitHandler(tx["backend"])
  /\ UNCHANGED decided

\* resolve, bulk resolve and resolve-all: the incidents are resolved in the
\* session and flushed, then each one's open symptoms are loaded and resolved.
FlushResolve ==
  LET t == WithSymptoms(tx["backend"], tx["backend"].on) IN
  /\ tx["backend"].op = "resolve"
  /\ MayWrite("backend", tx["backend"].on)
  /\ tx' = [tx EXCEPT !["backend"] =
              [t EXCEPT !.op = "flushed", !.locks = t.on,
                        !.copy = Resolved(t.copy, OpenCopies(t))]]
  /\ UNCHANGED <<rows, decided, raced>>

CommitResolve ==
  /\ tx["backend"].op = "flushed"
  /\ CommitHandler(tx["backend"])
  /\ UNCHANGED decided

(***************************************************************************)
(* The correlator's messages.                                              *)
(***************************************************************************)

Begin(t) ==
  /\ tx["correlator"].op = "idle"
  /\ tx' = [tx EXCEPT !["correlator"] = t]
  /\ UNCHANGED <<rows, decided, raced>>

\* An alarm of the layer above: open_or_bump finds no open incident and
\* _correlate looks for an open root, if one is recent enough.
OpenSymptom(s) ==
  /\ rows[s].status = "absent"
  /\ \E root \in {r \in Roots : IsOpen(r)} \cup {NoRoot} :
       Begin([Loaded("open", {s}, {s}) EXCEPT !.copy[s] = NewRow(root)])

\* A fiber fault: the new root claims the recent open incidents that have no
\* root and that no human owns.
OpenRoot(r) ==
  LET orphans == {s \in Symptoms : /\ IsOpen(s)
                                   /\ rows[s].root = NoRoot
                                   /\ rows[s].stage \notin HUMAN_OWNED_STAGES} IN
  /\ rows[r].status = "absent"
  /\ \E claimed \in SUBSET orphans :
       LET t == Loaded("open", {r}, {r} \cup claimed) IN
       Begin([t EXCEPT !.copy =
                [i \in DOMAIN t.copy |->
                   IF i = r THEN NewRow(NoRoot)
                   ELSE [t.copy[i] EXCEPT !.root = r, !.stage = "suppressed"]]])

\* The device reports the condition gone, with auto-heal on.
BeginClear(i) ==
  /\ IsOpen(i)
  /\ Begin(Loaded("clear", {i}, {i}))

\* The cleared incident is flushed; its open symptoms are released.
FlushClear ==
  LET t == WithSymptoms(tx["correlator"], tx["correlator"].on)
      i == CHOOSE j \in t.on : TRUE
      release(s) == [t.copy[s] EXCEPT !.root = NoRoot, !.stage = "new"]
  IN
  /\ tx["correlator"].op = "clear"
  /\ MayWrite("correlator", t.on)
  /\ tx' = [tx EXCEPT !["correlator"] =
              [t EXCEPT !.op = "open", !.locks = t.on,
                        !.copy = [j \in DOMAIN t.copy |->
                                    IF j = i THEN Resolved(t.copy, t.on)[i] ELSE release(j)]]]
  /\ UNCHANGED <<rows, decided, raced>>

CommitMessage ==
  LET t == tx["correlator"] IN
  /\ t.op = "open"
  /\ CommitTx("correlator", t)
  /\ raced' = raced \cup Outdated(t)
  /\ UNCHANGED decided

(***************************************************************************)
(* The sweep.                                                              *)
(***************************************************************************)

\* Settled new incidents without a root, and fixes nothing has confirmed.
Ready == {i \in Problems : IsOpen(i) /\ rows[i].root = NoRoot /\ rows[i].stage = "new"}
Overdue == {i \in Problems : IsOpen(i) /\ rows[i].stage = "monitoring"}

\* A mutant: the rows are read but not locked.
SweepUnlocked ==
  \E I \in SUBSET (Ready \cup Overdue) : Begin(Loaded("sweep", I, I))

\* _lock_for_sweep: FOR UPDATE SKIP LOCKED. What the settle and monitoring
\* times leave out is any part of the rest.
SweepLock ==
  \E I \in SUBSET ((Ready \cup Overdue) \ tx["backend"].locks) :
     Begin([Loaded("sweep", I, I) EXCEPT !.locks = I])

\* Auto-heal resolves an incident whose fix needs no confirmation, with its
\* symptoms; waits for the clear; or hands over to triage, as an overdue fix is.
SweepCommit ==
  LET t == tx["correlator"] IN
  /\ t.op = "sweep"
  /\ \E healed, waiting \in SUBSET {i \in t.on : t.copy[i].stage = "new"} :
       LET loaded == WithSymptoms(t, healed)
           moved == [i \in DOMAIN loaded.copy |->
                       IF i \in waiting THEN [loaded.copy[i] EXCEPT !.stage = "monitoring"]
                       ELSE IF i \in t.on THEN [loaded.copy[i] EXCEPT !.stage = "triage"]
                       ELSE loaded.copy[i]]
       IN /\ healed \cap waiting = {}
          /\ CommitTx("correlator",
               [loaded EXCEPT !.copy =
                  Resolved(moved, healed \cup (DOMAIN moved \ t.on))])
  /\ UNCHANGED <<decided, raced>>

-----------------------------------------------------------------------------

TxInit ==
  /\ rows = [i \in Problems |-> Absent]
  /\ tx = [p \in Processes |-> NoTx]
  /\ decided = [i \in Problems |-> "new"]
  /\ raced = {}

TxNext ==
  \/ \E i \in Problems :
       \/ \E op \in {"ack", "notify", "resolve"} : BeginHandler(op, i)
       \/ acknowledge(i)
       \/ dispatch(i)
       \/ BeginClear(i)
  \/ BeginResolveAll
  \/ MailFailed
  \/ FlushResolve
  \/ CommitResolve
  \/ \E s \in Symptoms : OpenSymptom(s)
  \/ \E r \in Roots : OpenRoot(r)
  \/ FlushClear
  \/ CommitMessage
  \/ SweepLock
  \/ SweepCommit

TxSpec == TxInit /\ [][TxNext]_txVars

-----------------------------------------------------------------------------

\* Rows, transactions and histories are of their types.
TxTypeOK ==
  /\ rows \in [Problems -> TxRow]
  /\ DOMAIN tx = Processes
  /\ \A p \in Processes :
       /\ tx[p].op \in {"idle", "ack", "notify", "resolve", "flushed", "open",
                        "clear", "sweep"}
       /\ tx[p].on \cup tx[p].locks \cup tx[p].stale \cup DOMAIN tx[p].copy \subseteq Problems
       /\ DOMAIN tx[p].seen = DOMAIN tx[p].copy
       /\ \A i \in DOMAIN tx[p].copy : {tx[p].copy[i], tx[p].seen[i]} \subseteq TxRow
  /\ decided \in [Problems -> HUMAN_OWNED_STAGES \cup {"new"}]
  /\ raced \subseteq Problems

\* What an operator committed stands until the incident is resolved: the
\* sweep, whose rows are locked from its query to its commit, never takes an
\* acknowledged or dispatched incident back, and neither does a later alarm or
\* root. Only a transaction that had read the row before the other process
\* committed it can (acknowledge, dispatch, find_l3_symptoms, sweep).
DecisionIsKept ==
  \A i \in Problems \ raced :
    decided[i] # "new" => \/ rows[i].stage = decided[i]
                          \/ rows[i].stage = "dispatched"
                          \/ rows[i].stage = "resolved"

\* The incident tree as the handlers of the two processes leave it: a resolved
\* row is at stage resolved, an incident is suppressed exactly when it has a
\* root, and an open symptom's root is open. Only transactions that overlapped
\* on the incident or its root leave it otherwise (_resolve, _correlate).
TreeIsConsistent ==
  \A i \in Problems \ raced :
    LET row == rows[i] IN
    /\ (row.status = "resolved") = (row.stage = "resolved")
    /\ row.status = "open" =>
         /\ (row.stage = "suppressed") = (row.root # NoRoot)
         /\ row.root # NoRoot => IsOpen(row.root)

=============================================================================

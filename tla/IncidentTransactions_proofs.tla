--------------------- MODULE IncidentTransactions_proofs ---------------------
(***************************************************************************)
(* What overlapping transactions leave of the incidents, for any number of *)
(* roots and symptoms: the types, the decisions of operators and the tree. *)
(*                                                                         *)
(* Part 1 is about one commit: what it makes of the rows when the copies it *)
(* writes are lawful changes of what it had loaded, and what was changed    *)
(* since is counted as raced. Part 2 shows that every transaction under way *)
(* has such copies in hand, and that a commit of the other process keeps    *)
(* it so. Part 3 takes the actions one by one.                             *)
(***************************************************************************)
EXTENDS IncidentTransactions, SequenceTheorems, TLAPS

-----------------------------------------------------------------------------
(* Types *)

\* What a session holds: rows by the incident they are of.
Copies == UNION {[I -> TxRow] : I \in SUBSET Problems}

TxOps == {"idle", "ack", "notify", "resolve", "flushed", "open", "clear", "sweep"}

Tx == [op : TxOps, on : SUBSET Problems, seen : Copies, copy : Copies,
       locks : SUBSET Problems, stale : SUBSET Problems]

\* A root cause is never given a root.
Topmost(f) == \A r \in Roots \cap DOMAIN f : f[r].root = NoRoot

TxTypes ==
  /\ rows \in [Problems -> TxRow] /\ Topmost(rows)
  /\ tx \in [Processes -> Tx]
  /\ \A p \in Processes : DOMAIN tx[p].seen = DOMAIN tx[p].copy /\ Topmost(tx[p].copy)
  /\ decided \in [Problems -> HUMAN_OWNED_STAGES \cup {"new"}]
  /\ raced \subseteq Problems

\* A function from incidents to rows is what a session may hold.
LEMMA HoldsRows ==
  ASSUME NEW f, f = [i \in DOMAIN f |-> f[i]], DOMAIN f \subseteq Problems,
         \A i \in DOMAIN f : f[i] \in TxRow
  PROVE  f \in Copies
<1>1. f \in [DOMAIN f -> TxRow]
  OBVIOUS
<1> QED
  BY <1>1 DEF Copies

\* And a session holds nothing else.
LEMMA RowsHeld ==
  ASSUME NEW f \in Copies
  PROVE  /\ f = [i \in DOMAIN f |-> f[i]] /\ DOMAIN f \subseteq Problems
         /\ \A i \in DOMAIN f : f[i] \in TxRow
<1>1. PICK I \in SUBSET Problems : f \in [I -> TxRow]
  BY DEF Copies
<1> QED
  BY <1>1

\* A session that has loaded nothing.
LEMMA NothingLoaded == NoTx \in Tx /\ DOMAIN NoTx.seen = {} /\ DOMAIN NoTx.copy = {}
<1>1. <<>> \in Seq(TxRow) /\ DOMAIN <<>> = {}
  BY EmptySeq
<1>2. <<>> = [i \in DOMAIN <<>> |-> <<>>[i]]
  BY <1>1
<1>3. <<>> \in Copies
  BY <1>1, <1>2, HoldsRows
<1> QED
  BY <1>1, <1>3 DEF NoTx, Tx, TxOps

\* The rows and the two symbols that are none.
LEMMA RowsAre ==
  /\ Absent \in TxRow
  /\ \A root \in Roots \cup {NoRoot} :
       /\ NewRow(root) \in TxRow /\ NewRow(root).status = "open" /\ NewRow(root).root = root
       /\ NewRow(root).stage = IF root = NoRoot THEN "new" ELSE "suppressed"
  /\ NoRoot \notin Problems /\ Roots \subseteq Problems /\ Roots \cap Symptoms = {}
BY ProblemAssumption DEF Absent, NewRow, TxRow, IncidentStatus, IncidentStage, Problems

\* Resolving is closing, whatever the session holds.
LEMMA ResolvedCopies ==
  ASSUME NEW f \in Copies, NEW I \in SUBSET DOMAIN f
  PROVE  /\ Resolved(f, I) \in Copies /\ DOMAIN Resolved(f, I) = DOMAIN f
         /\ \A i \in DOMAIN f \ I : Resolved(f, I)[i] = f[i]
         /\ \A i \in I : Resolved(f, I)[i] =
                           [f[i] EXCEPT !.status = "resolved", !.stage = "resolved"]
<1>1. \A i \in DOMAIN f : f[i] \in TxRow
  BY RowsHeld
<1>2. \A i \in DOMAIN f :
        [f[i] EXCEPT !.status = "resolved", !.stage = "resolved"] \in TxRow
  BY <1>1 DEF TxRow, IncidentStatus, IncidentStage
<1>3. \A i \in DOMAIN Resolved(f, I) : Resolved(f, I)[i] \in TxRow
  BY <1>1, <1>2 DEF Resolved
<1>4. Resolved(f, I) \in Copies
  <2>1. DOMAIN Resolved(f, I) \subseteq Problems
    BY RowsHeld DEF Resolved
  <2>2. Resolved(f, I) = [i \in DOMAIN Resolved(f, I) |-> Resolved(f, I)[i]]
    BY DEF Resolved
  <2> QED
    BY <1>3, <2>1, <2>2, HoldsRows
<1> QED
  BY <1>4 DEF Resolved

\* An UPDATE makes a row, and of a row nobody else wrote it makes the copy.
LEMMA UpdatedRow ==
  ASSUME NEW row \in TxRow, NEW before \in TxRow, NEW after \in TxRow
  PROVE  /\ Updated(row, before, after) \in TxRow
         /\ row = before => Updated(row, before, after) = after
         /\ after.status = "open" /\ row.status = "open" =>
              Updated(row, before, after).status = "open"
BY DEF Updated, TxRow

-----------------------------------------------------------------------------
(* Part 1: one commit *)

\* The changes a transaction makes to a row it found as a.
Leaves(a, b)   == a.status = "open" /\ a.root = NoRoot /\ b = a
Decides(a, b)  == /\ a.status = "open" /\ a.root = NoRoot
                  /\ \E stage \in HUMAN_OWNED_STAGES : b = [a EXCEPT !.stage = stage]
Closes(a, b)   == a.status = "open" /\ b = [a EXCEPT !.status = "resolved", !.stage = "resolved"]
Opens(a, b)    == a.status = "absent" /\ \E root \in Roots \cup {NoRoot} : b = NewRow(root)
Claims(a, b)   == /\ a.status = "open" /\ a.root = NoRoot /\ a.stage \notin HUMAN_OWNED_STAGES
                  /\ \E root \in Roots : b = [a EXCEPT !.root = root, !.stage = "suppressed"]
Releases(a, b) == /\ a.status = "open" /\ a.root # NoRoot
                  /\ b = [a EXCEPT !.root = NoRoot, !.stage = "new"]
Judges(a, b)   == /\ a.status = "open" /\ a.stage \in {"new", "monitoring"}
                  /\ \E stage \in {"monitoring", "triage"} : b = [a EXCEPT !.stage = stage]

Reports(a, b) == Closes(a, b) \/ Opens(a, b) \/ Claims(a, b) \/ Releases(a, b)

\* What was loaded is committed still, unless it was changed since.
Fresh(seen, stale) == \A i \in DOMAIN seen \ stale : seen[i] = rows[i]

\* The open symptoms of what is to be closed are in hand, or came since.
Complete(copy, stale) ==
  \A i \in DOMAIN copy : copy[i].status = "resolved" =>
    \A s \in Problems : IsOpen(s) /\ rows[s].root = i => s \in DOMAIN copy \cup stale

\* A root a row is given is open, will be, or was changed since.
RootsStand(seen, copy, stale) ==
  \A i \in DOMAIN copy : copy[i].root \notin {seen[i].root, NoRoot} =>
    \/ copy[i].root \in stale
    \/ copy[i].root \in DOMAIN copy /\ copy[copy[i].root].status = "open"
    \/ copy[i].root \notin DOMAIN copy /\ IsOpen(copy[i].root)

Written(seen, copy) == {i \in DOMAIN copy : copy[i] # seen[i]}

\* The table after the commit.
Merged(seen, copy) ==
  [i \in Problems |-> IF i \in Written(seen, copy) THEN Updated(rows[i], seen[i], copy[i])
                      ELSE rows[i]]

\* Outdated of a transaction with these copies.
Overtaken(copy, stale) ==
  (stale \cap DOMAIN copy) \cup {i \in DOMAIN copy : copy[i].root \in stale}
    \cup {i \in stale : rows[i].root \in DOMAIN copy}

\* A row that is not there yet is blank.
AbsentIsBlank == \A i \in Problems \ raced : rows[i].status = "absent" => rows[i] = Absent

RowsInv == DecisionIsKept /\ TreeIsConsistent /\ AbsentIsBlank

\* What one commit has in hand and does.
Commits(seen, copy, stale) ==
  /\ seen \in Copies /\ copy \in Copies /\ DOMAIN seen = DOMAIN copy /\ Topmost(copy)
  /\ Fresh(seen, stale) /\ Complete(copy, stale) /\ RootsStand(seen, copy, stale)
  /\ rows' = Merged(seen, copy)
  /\ raced \cup Overtaken(copy, stale) \subseteq raced'
  /\ \A i \in Problems : i \notin DOMAIN copy => decided'[i] = decided[i]
  /\ \A i \in DOMAIN copy :
       \/ Decides(seen[i], copy[i]) /\ decided'[i] = copy[i].stage
       \/ decided'[i] = decided[i] /\ ( \/ Leaves(seen[i], copy[i])
                                        \/ Reports(seen[i], copy[i])
                                        \/ Judges(seen[i], copy[i]) )

\* The rows keep their types.
LEMMA CommitTypes ==
  ASSUME TxTypes, NEW seen, NEW copy, NEW stale, Commits(seen, copy, stale)
  PROVE  rows' \in [Problems -> TxRow] /\ Topmost(rows)'
<1>1. \A i \in DOMAIN copy : seen[i] \in TxRow /\ copy[i] \in TxRow
  BY RowsHeld DEF Commits
<1>2. \A i \in Written(seen, copy) \cap Problems : Updated(rows[i], seen[i], copy[i]) \in TxRow
  BY <1>1, UpdatedRow DEF Written, TxTypes
<1>3. rows' \in [Problems -> TxRow]
  BY <1>2 DEF Commits, Merged, TxTypes
<1>4. ASSUME NEW r \in Roots PROVE rows'[r].root = NoRoot
  <2>1. r \in Problems /\ rows[r].root = NoRoot
    BY RowsAre DEF TxTypes, Topmost
  <2>2. r \in DOMAIN copy => copy[r].root = NoRoot
    BY DEF Commits, Topmost
  <2> QED
    BY <2>1, <2>2 DEF Commits, Merged, Written, Updated
<1> QED
  BY <1>3, <1>4 DEF Topmost

\* What was not changed since is committed as it is in hand.
LEMMA CommittedRow ==
  ASSUME TxTypes, NEW seen, NEW copy, NEW stale, Commits(seen, copy, stale),
         NEW i \in Problems, i \notin raced'
  PROVE  /\ i \notin raced
         /\ i \notin DOMAIN copy => rows'[i] = rows[i] /\ decided'[i] = decided[i]
         /\ i \in DOMAIN copy => /\ i \notin stale /\ copy[i].root \notin stale
                                 /\ seen[i] = rows[i] /\ rows'[i] = copy[i]
         /\ i \in stale => rows[i].root \notin DOMAIN copy
<1>1. i \notin raced /\ i \notin Overtaken(copy, stale)
  BY DEF Commits
<1>2. i \in DOMAIN copy => i \notin stale /\ copy[i].root \notin stale
  BY <1>1 DEF Overtaken
<1>3. i \in stale => rows[i].root \notin DOMAIN copy
  BY <1>1 DEF Overtaken
<1>4. ASSUME i \in DOMAIN copy PROVE seen[i] = rows[i] /\ rows'[i] = copy[i]
  <2>1. seen[i] = rows[i]
    BY <1>2, <1>4 DEF Commits, Fresh
  <2>2. seen[i] \in TxRow /\ copy[i] \in TxRow
    BY <1>4, RowsHeld DEF Commits
  <2>3. Updated(rows[i], seen[i], copy[i]) = copy[i]
    BY <2>1, <2>2, UpdatedRow
  <2> QED
    BY <1>4, <2>1, <2>3 DEF Commits, Merged, Written
<1>5. i \notin DOMAIN copy => rows'[i] = rows[i] /\ decided'[i] = decided[i]
  BY DEF Commits, Merged, Written
<1> QED
  BY <1>1, <1>2, <1>3, <1>4, <1>5

\* A row in hand that the commit leaves open stays open, changed since or not.
LEMMA StaysOpen ==
  ASSUME TxTypes, NEW seen, NEW copy, NEW stale, Commits(seen, copy, stale),
         NEW r \in DOMAIN copy, copy[r].status = "open", r \notin stale \/ IsOpen(r)
  PROVE  rows'[r].status = "open"
<1>1. seen[r] \in TxRow /\ copy[r] \in TxRow /\ r \in Problems
  BY RowsHeld DEF Commits
<1>2. rows[r] \in TxRow
  BY <1>1 DEF TxTypes
<1>3. CASE r \notin stale
  <2>1. seen[r] = rows[r]
    BY <1>3 DEF Commits, Fresh
  <2>2. Updated(rows[r], seen[r], copy[r]) = copy[r]
    BY <1>1, <2>1, UpdatedRow
  <2> QED
    BY <1>1, <2>1, <2>2 DEF Commits, Merged, Written
<1>4. CASE IsOpen(r)
  <2>1. Updated(rows[r], seen[r], copy[r]).status = "open"
    BY <1>1, <1>2, <1>4, UpdatedRow DEF IsOpen
  <2> QED
    BY <1>1, <1>4, <2>1 DEF Commits, Merged, IsOpen
<1> QED
  BY <1>3, <1>4


\* A row changed lawfully is there.
LEMMA LawfulStatus ==
  ASSUME NEW a \in TxRow, NEW b \in TxRow,
         \/ Decides(a, b) \/ Leaves(a, b) \/ Reports(a, b) \/ Judges(a, b)
  PROVE  b.status \in {"open", "resolved"}
<1>1. CASE Decides(a, b) \/ Judges(a, b)
  BY <1>1 DEF Decides, Judges, TxRow
<1>2. CASE Leaves(a, b)
  BY <1>2 DEF Leaves
<1>3. CASE Closes(a, b)
  BY <1>3 DEF Closes, TxRow
<1>4. CASE Opens(a, b)
  BY <1>4, RowsAre DEF Opens
<1>5. CASE Claims(a, b)
  BY <1>5 DEF Claims, TxRow
<1>6. CASE Releases(a, b)
  BY <1>6 DEF Releases, TxRow
<1> QED
  BY <1>1, <1>2, <1>3, <1>4, <1>5, <1>6 DEF Reports

\* A row changed lawfully is consistent, if it was.
LEMMA LawfulRow ==
  ASSUME NEW a \in TxRow, NEW b \in TxRow,
         a.status = "resolved" <=> a.stage = "resolved",
         a.status = "open" => (a.stage = "suppressed" <=> a.root # NoRoot),
         a.status = "absent" => a = Absent,
         \/ Decides(a, b) \/ Leaves(a, b) \/ Reports(a, b) \/ Judges(a, b)
  PROVE  /\ b.status = "resolved" <=> b.stage = "resolved"
         /\ b.status = "open" => (b.stage = "suppressed" <=> b.root # NoRoot)
         /\ b.status # "absent"
         /\ b.status = "open" /\ b.root # NoRoot => b.root # a.root
<1>1. CASE Decides(a, b)
  BY <1>1 DEF Decides, TxRow, HUMAN_OWNED_STAGES
<1>2. CASE Leaves(a, b)
  BY <1>2 DEF Leaves, TxRow
<1>3. CASE Closes(a, b)
  BY <1>3 DEF Closes, TxRow
<1>4. CASE Opens(a, b)
  <2>1. PICK root \in Roots \cup {NoRoot} : b = NewRow(root)
    BY <1>4 DEF Opens
  <2> QED
    BY <2>1, <1>4, RowsAre DEF Opens, Absent
<1>5. CASE Claims(a, b)
  <2>1. PICK root \in Roots : b = [a EXCEPT !.root = root, !.stage = "suppressed"]
    BY <1>5 DEF Claims
  <2>2. root # NoRoot
    BY RowsAre
  <2> QED
    BY <1>5, <2>1, <2>2 DEF Claims, TxRow
<1>6. CASE Releases(a, b)
  BY <1>6 DEF Releases, TxRow
<1>7. CASE Judges(a, b)
  BY <1>7 DEF Judges, TxRow
<1> QED
  BY <1>1, <1>2, <1>3, <1>4, <1>5, <1>6, <1>7 DEF Reports

\* The tree after a commit: a root is closed with its symptoms, and nothing is
\* hung from what is closed, except by what was raced.
LEMMA CommitKeepsTree ==
  ASSUME TxTypes, RowsInv, NEW seen, NEW copy, NEW stale, Commits(seen, copy, stale)
  PROVE  TreeIsConsistent' /\ AbsentIsBlank'
<1>0. rows' \in [Problems -> TxRow] /\ rows \in [Problems -> TxRow]
  BY CommitTypes DEF TxTypes
<1> SUFFICES ASSUME NEW i \in Problems, i \notin raced'
             PROVE  /\ rows'[i].status = "resolved" <=> rows'[i].stage = "resolved"
                    /\ rows'[i].status = "open" =>
                         (rows'[i].stage = "suppressed" <=> rows'[i].root # NoRoot)
                    /\ rows'[i].status = "open" /\ rows'[i].root # NoRoot =>
                         rows'[rows'[i].root].status = "open"
                    /\ rows'[i].status = "absent" => rows'[i] = Absent
  BY <1>0 DEF TreeIsConsistent, AbsentIsBlank, IsOpen
<1> DEFINE r == rows'[i].root
<1>1. /\ i \notin raced
      /\ i \notin DOMAIN copy => rows'[i] = rows[i]
      /\ i \in DOMAIN copy => /\ i \notin stale /\ copy[i].root \notin stale
                              /\ seen[i] = rows[i] /\ rows'[i] = copy[i]
      /\ i \in stale => rows[i].root \notin DOMAIN copy
  BY CommittedRow
<1>2. /\ rows[i].status = "resolved" <=> rows[i].stage = "resolved"
      /\ rows[i].status = "open" => (rows[i].stage = "suppressed" <=> rows[i].root # NoRoot)
      /\ rows[i].status = "open" /\ rows[i].root # NoRoot => IsOpen(rows[i].root)
      /\ rows[i].status = "absent" => rows[i] = Absent
  BY <1>1 DEF RowsInv, TreeIsConsistent, AbsentIsBlank, IsOpen
<1>3. r \in Roots \cup {NoRoot}
  BY <1>0 DEF TxRow
<1>4. \A j \in Problems : j \notin DOMAIN copy => rows'[j] = rows[j]
  BY DEF Commits, Merged, Written
<1>5. CASE i \notin DOMAIN copy
  <2>1. rows'[i] = rows[i]
    BY <1>1, <1>5
  <2> SUFFICES ASSUME rows[i].status = "open", r # NoRoot
               PROVE  rows'[r].status = "open"
    BY <1>2, <2>1
  <2>2. IsOpen(r) /\ r \in Problems
    BY <1>2, <1>3, <2>1, RowsAre
  <2>3. CASE r \notin DOMAIN copy
    BY <1>4, <2>2, <2>3 DEF IsOpen
  <2>4. CASE r \in DOMAIN copy
    <3>1. copy[r].status # "resolved"
      BY <1>1, <1>5, <2>1, <2>4 DEF Commits, Complete, IsOpen
    <3>2. copy[r].status # "absent" /\ copy[r].status \in {"open", "resolved", "absent"}
      <4>1. copy[r] \in TxRow /\ seen[r] \in TxRow
        BY <2>4, RowsHeld DEF Commits
      <4>2. \/ Decides(seen[r], copy[r]) \/ Leaves(seen[r], copy[r])
            \/ Reports(seen[r], copy[r]) \/ Judges(seen[r], copy[r])
        BY <2>4 DEF Commits
      <4> QED
        BY <4>1, <4>2, LawfulStatus
    <3> QED
      BY <2>2, <2>4, <3>1, <3>2, StaysOpen
  <2> QED
    BY <2>3, <2>4
<1>6. CASE i \in DOMAIN copy
  <2>1. seen[i] \in TxRow /\ copy[i] \in TxRow /\ seen[i] = rows[i] /\ rows'[i] = copy[i]
    BY <1>1, <1>6, RowsHeld DEF Commits
  <2>2. \/ Decides(seen[i], copy[i]) \/ Leaves(seen[i], copy[i])
        \/ Reports(seen[i], copy[i]) \/ Judges(seen[i], copy[i])
    BY <1>6 DEF Commits
  <2>3. /\ copy[i].status = "resolved" <=> copy[i].stage = "resolved"
        /\ copy[i].status = "open" => (copy[i].stage = "suppressed" <=> copy[i].root # NoRoot)
        /\ copy[i].status # "absent"
        /\ copy[i].status = "open" /\ copy[i].root # NoRoot => copy[i].root # seen[i].root
    BY <1>2, <2>1, <2>2, LawfulRow
  <2> SUFFICES ASSUME copy[i].status = "open", r # NoRoot
               PROVE  rows'[r].status = "open"
    BY <2>1, <2>3
  <2>4. r = copy[i].root /\ r \in Problems /\ r \notin stale /\ r # seen[i].root
    BY <1>1, <1>3, <1>6, <2>1, <2>3, RowsAre
  <2>5. \/ r \in DOMAIN copy /\ copy[r].status = "open"
        \/ r \notin DOMAIN copy /\ IsOpen(r)
    BY <1>6, <2>4 DEF Commits, RootsStand
  <2> QED
    BY <1>4, <2>4, <2>5, StaysOpen DEF IsOpen
<1> QED
  BY <1>5, <1>6

\* What an operator decided stands after a commit, except for what was raced.
LEMMA CommitKeepsDecisions ==
  ASSUME TxTypes, RowsInv, NEW seen, NEW copy, NEW stale, Commits(seen, copy, stale)
  PROVE  DecisionIsKept'
<1> SUFFICES ASSUME NEW i \in Problems, i \notin raced', decided'[i] # "new"
             PROVE  rows'[i].stage \in {decided'[i], "dispatched", "resolved"}
  BY DEF DecisionIsKept
<1>1. /\ i \notin raced
      /\ i \notin DOMAIN copy => rows'[i] = rows[i] /\ decided'[i] = decided[i]
      /\ i \in DOMAIN copy => seen[i] = rows[i] /\ rows'[i] = copy[i]
  BY CommittedRow
<1>2. /\ decided[i] # "new" => rows[i].stage \in {decided[i], "dispatched", "resolved"}
      /\ decided[i] \in HUMAN_OWNED_STAGES \cup {"new"}
      /\ rows[i].status = "resolved" <=> rows[i].stage = "resolved"
      /\ rows[i].status = "open" => (rows[i].stage = "suppressed" <=> rows[i].root # NoRoot)
      /\ rows[i].status = "absent" => rows[i] = Absent
  BY <1>1 DEF RowsInv, DecisionIsKept, TreeIsConsistent, AbsentIsBlank, TxTypes
<1>3. CASE i \notin DOMAIN copy
  BY <1>1, <1>2, <1>3
<1>4. CASE i \in DOMAIN copy
  <2>1. seen[i] \in TxRow /\ copy[i] \in TxRow /\ seen[i] = rows[i] /\ rows'[i] = copy[i]
    BY <1>1, <1>4, RowsHeld DEF Commits
  <2>2. CASE decided'[i] = copy[i].stage
    BY <2>1, <2>2
  <2>3. CASE decided'[i] = decided[i] /\ Leaves(seen[i], copy[i])
    BY <1>2, <2>1, <2>3 DEF Leaves
  <2>4. CASE decided'[i] = decided[i] /\ Closes(seen[i], copy[i])
    BY <2>1, <2>4 DEF Closes, TxRow
  <2>5. CASE decided'[i] = decided[i] /\ (Opens(seen[i], copy[i]) \/ Claims(seen[i], copy[i]))
    <3>1. CASE Opens(seen[i], copy[i])
      <4>1. rows[i].stage = "new"
        BY <1>2, <2>1, <3>1 DEF Opens, Absent
      <4>2. decided[i] = "new"
        BY <1>2, <4>1 DEF HUMAN_OWNED_STAGES
      <4> QED
        BY <2>5, <4>2
    <3>2. CASE Claims(seen[i], copy[i])
      BY <1>2, <2>1, <2>5, <3>2 DEF Claims, HUMAN_OWNED_STAGES
    <3> QED
      BY <2>5, <3>1, <3>2
  <2>6. CASE decided'[i] = decided[i] /\ (Releases(seen[i], copy[i]) \/ Judges(seen[i], copy[i]))
    BY <1>2, <2>1, <2>6 DEF Releases, Judges, HUMAN_OWNED_STAGES
  <2> QED
    BY <1>4, <2>2, <2>3, <2>4, <2>5, <2>6 DEF Commits, Reports
<1> QED
  BY <1>3, <1>4


-----------------------------------------------------------------------------
(* Part 2: the transactions under way *)

\* Rows loaded, and nothing done to them yet.
Untouched(t) == /\ t.copy = t.seen /\ DOMAIN t.seen = t.on /\ t.locks = {}
                /\ \A i \in t.on : t.seen[i].status = "open"

\* What a transaction has in hand, by how far it has got. The sweep's rows are
\* locked from the beginning, so that they are never stale.
Underway(t) ==
  /\ Fresh(t.seen, t.stale)
  /\ t.op = "idle" => t = NoTx
  /\ t.op \in {"ack", "notify", "resolve", "clear"} => Untouched(t)
  /\ t.op \in {"ack", "notify"} => \A i \in t.on : t.seen[i].root = NoRoot
  /\ t.op = "clear" => \E i \in Problems : t.on = {i}
  /\ t.op \in {"flushed", "open"} =>
       /\ Complete(t.copy, t.stale)
       /\ RootsStand(t.seen, t.copy, t.stale)
       /\ \A i \in DOMAIN t.copy : Reports(t.seen[i], t.copy[i])
  /\ t.op = "sweep" =>
       /\ t.copy = t.seen /\ DOMAIN t.seen = t.on /\ t.locks = t.on /\ t.on \cap t.stale = {}
       /\ \A i \in t.on : t.seen[i].status = "open" /\ t.seen[i].stage \in {"new", "monitoring"}

TxInv == TxTypes /\ RowsInv /\ \A p \in Processes : Underway(tx[p])

\* A transaction's next step inside its session.
LEMMA SessionStep ==
  ASSUME TxInv, NEW p \in Processes, NEW t \in Tx,
         DOMAIN t.seen = DOMAIN t.copy, Topmost(t.copy), Underway(t),
         tx' = [tx EXCEPT ![p] = t], UNCHANGED <<rows, decided, raced>>
  PROVE  TxInv'
<1>1. TxTypes'
  BY DEF TxInv, TxTypes
<1>2. RowsInv'
  BY DEF TxInv, RowsInv, DecisionIsKept, TreeIsConsistent, AbsentIsBlank, IsOpen
<1>3. \A q \in Processes : tx'[q] = IF q = p THEN t ELSE tx[q]
  BY DEF TxInv, TxTypes
<1>4. \A q \in Processes : Underway(tx'[q])
  BY <1>3 DEF TxInv
<1>5. ASSUME NEW q \in Processes PROVE Underway(tx[q])'
  <2>1. Underway(tx'[q])
    BY <1>4
  <2>2. Fresh(tx'[q].seen, tx'[q].stale) => Fresh(tx[q].seen, tx[q].stale)'
    BY DEF Fresh
  <2>3. Complete(tx'[q].copy, tx'[q].stale) => Complete(tx[q].copy, tx[q].stale)'
    BY DEF Complete, IsOpen
  <2>4. RootsStand(tx'[q].seen, tx'[q].copy, tx'[q].stale)
          => RootsStand(tx[q].seen, tx[q].copy, tx[q].stale)'
    BY DEF RootsStand, IsOpen
  <2> QED
    BY <2>1, <2>2, <2>3, <2>4 DEF Underway, Untouched
<1> QED
  BY <1>1, <1>2, <1>5 DEF TxInv

\* The roots that a session gives its rows when another has committed W.
StillStand(seen, copy, stale) ==
  \A i \in DOMAIN copy : copy[i].root \notin {seen[i].root, NoRoot} =>
    \/ copy[i].root \in stale
    \/ copy[i].root \in DOMAIN copy /\ copy[copy[i].root].status = "open"
    \/ copy[i].root \notin DOMAIN copy /\ rows'[copy[i].root].status = "open"

\* Those that stood stand, or were changed by it.
LEMMA RootsPass ==
  ASSUME NEW seen, NEW copy, NEW stale, NEW W, RootsStand(seen, copy, stale),
         \A i \in DOMAIN copy : copy[i].root \in Problems \cup {NoRoot},
         \A i \in Problems \ W : rows'[i] = rows[i]
  PROVE  StillStand(seen, copy, stale \cup W)
<1> SUFFICES ASSUME NEW i \in DOMAIN copy, NEW r, r = copy[i].root,
                    r \notin {seen[i].root, NoRoot}, r \notin stale \cup W
             PROVE  \/ r \in DOMAIN copy /\ copy[r].status = "open"
                    \/ r \notin DOMAIN copy /\ rows'[r].status = "open"
  BY DEF StillStand
<1>1. rows'[r] = rows[r]
  OBVIOUS
<1>2. \/ r \in DOMAIN copy /\ copy[r].status = "open"
      \/ r \notin DOMAIN copy /\ rows[r].status = "open"
  BY DEF RootsStand, IsOpen
<1> QED
  BY <1>1, <1>2

\* What the other process has in hand when a commit goes past it.
LEMMA CommitPasses ==
  ASSUME TxInv, NEW p \in Processes, NEW q \in Processes, q = Other(p),
         NEW seen, NEW copy, rows' = Merged(seen, copy), DOMAIN copy \subseteq Problems,
         Written(seen, copy) \cap tx[q].locks = {},
         tx[q].op # "idle",
         tx'[q] = [tx[q] EXCEPT !.stale = @ \cup Written(seen, copy)]
  PROVE  Underway(tx[q])'
<1> DEFINE W == Written(seen, copy)
           t == tx[q]
<1>1. t \in Tx /\ W \subseteq Problems
  BY DEF TxInv, TxTypes, Written
<1>2. /\ tx'[q].op = t.op /\ tx'[q].on = t.on /\ tx'[q].seen = t.seen
      /\ tx'[q].copy = t.copy /\ tx'[q].locks = t.locks /\ tx'[q].stale = t.stale \cup W
  BY <1>1 DEF Tx
<1>3. \A i \in Problems \ W : rows'[i] = rows[i]
  BY DEF Merged
<1>u. Underway(t)
  BY DEF TxInv
<1> HIDE DEF W
<1>4. Fresh(tx[q].seen, tx[q].stale)'
  <2>1. DOMAIN t.seen \subseteq Problems
    BY <1>1, RowsHeld DEF Tx
  <2> QED
    BY <1>2, <1>3, <1>u, <2>1 DEF Underway, Fresh
<1>5. Complete(t.copy, t.stale) => Complete(tx[q].copy, tx[q].stale)'
  BY <1>2, <1>3 DEF Complete, IsOpen
<1>6. RootsStand(t.seen, t.copy, t.stale) => RootsStand(tx[q].seen, tx[q].copy, tx[q].stale)'
  <2> SUFFICES ASSUME RootsStand(t.seen, t.copy, t.stale)
               PROVE  RootsStand(tx[q].seen, tx[q].copy, tx[q].stale)'
    OBVIOUS
  <2>1. \A i \in DOMAIN t.copy : t.copy[i].root \in Problems \cup {NoRoot}
    BY <1>1, RowsHeld, RowsAre DEF Tx, TxRow
  <2>2. StillStand(t.seen, t.copy, t.stale \cup W)
    BY <1>3, <2>1, RootsPass
  <2> HIDE DEF t
  <2> QED
    BY <1>2, <2>2 DEF RootsStand, StillStand, IsOpen
<1>7. t.locks \cap W = {}
  BY DEF W
<1> QED
  BY <1>2, <1>4, <1>5, <1>6, <1>7, <1>u DEF Underway, Untouched

\* A commit keeps the invariant.
LEMMA CommitStep ==
  ASSUME TxInv, NEW p \in Processes, NEW t, NEW stale,
         CommitTx(p, t), Commits(t.seen, t.copy, stale),
         decided' \in [Problems -> HUMAN_OWNED_STAGES \cup {"new"}], raced' \subseteq Problems
  PROVE  TxInv'
<1> DEFINE q == Other(p)
           W == Written(t.seen, t.copy)
<1>1. q \in Processes /\ q # p /\ Processes = {p, q}
  BY DEF Other, Processes
<1>2. DOMAIN t.copy \subseteq Problems /\ W \subseteq Problems
  BY RowsHeld DEF Commits, Written
<1>3. W \cap tx[q].locks = {}
  BY DEF CommitTx, MayWrite, Written
<1>4. /\ tx'[p] = NoTx
      /\ tx'[q] = IF tx[q].op = "idle" THEN NoTx
                  ELSE [tx[q] EXCEPT !.stale = @ \cup W]
      /\ tx' = [r \in Processes |-> tx'[r]]
  BY <1>1 DEF CommitTx, Written
<1> HIDE DEF W
<1>5. TxTypes'
  <2>1. tx[q] \in Tx /\ NoTx \in Tx
    BY <1>1, NothingLoaded DEF TxInv, TxTypes
  <2>i. tx[q].op = "idle" => tx[q] = NoTx
    BY <1>1 DEF TxInv, Underway
  <2>2. /\ tx'[q] \in Tx /\ tx'[q].seen = tx[q].seen /\ tx'[q].copy = tx[q].copy
    BY <1>2, <1>4, <2>1, <2>i DEF Tx
  <2>3. tx' \in [Processes -> Tx]
    BY <1>1, <1>4, <2>1, <2>2
  <2>4. \A r \in Processes : DOMAIN tx'[r].seen = DOMAIN tx'[r].copy /\ Topmost(tx[r].copy)'
    <3>1. tx'[p].seen = NoTx.seen /\ tx'[p].copy = NoTx.copy
      BY <1>4
    <3>2. DOMAIN tx'[p].seen = DOMAIN tx'[p].copy /\ Topmost(tx[p].copy)'
      BY <3>1, NothingLoaded DEF Topmost
    <3>3. DOMAIN tx[q].seen = DOMAIN tx[q].copy /\ Topmost(tx[q].copy)
      BY <1>1 DEF TxInv, TxTypes
    <3>4. DOMAIN tx'[q].seen = DOMAIN tx'[q].copy /\ Topmost(tx[q].copy)'
      BY <2>2, <3>3 DEF Topmost
    <3> QED
      BY <1>1, <3>2, <3>4
  <2> QED
    BY <2>3, <2>4, CommitTypes DEF TxInv, TxTypes
<1>6. RowsInv'
  BY CommitKeepsTree, CommitKeepsDecisions DEF TxInv, RowsInv
<1>7. Underway(tx[p])'
  BY <1>4, NothingLoaded DEF Underway, Fresh, NoTx
<1>8. Underway(tx[q])'
  <2>1. CASE tx[q].op = "idle"
    <3>1. tx'[q] = NoTx
      BY <1>4, <2>1
    <3> QED
      BY <3>1, NothingLoaded DEF Underway, Fresh, NoTx
  <2>2. CASE tx[q].op # "idle"
    <3>1. rows' = Merged(t.seen, t.copy)
      BY DEF Commits
    <3> QED
      BY <1>1, <1>2, <1>3, <1>4, <2>2, <3>1, CommitPasses DEF W
  <2> QED
    BY <2>1, <2>2
<1> QED
  BY <1>1, <1>5, <1>6, <1>7, <1>8 DEF TxInv


-----------------------------------------------------------------------------
(* Part 3: the actions *)

IsLoaded(t, op, on, I) ==
  /\ t \in Tx /\ t.op = op /\ t.on = on /\ t.locks = {} /\ t.stale = {}
  /\ t.copy = t.seen /\ DOMAIN t.seen = I /\ \A i \in I : t.seen[i] = rows[i]
  /\ Topmost(t.copy)

\* What is committed can be loaded.
LEMMA LoadedRows ==
  ASSUME TxInv, NEW op \in TxOps, NEW on \in SUBSET Problems, NEW I \in SUBSET Problems
  PROVE  IsLoaded(Loaded(op, on, I), op, on, I)
<1> DEFINE f == [i \in I |-> rows[i]]
<1>1. f \in Copies
  BY HoldsRows DEF TxInv, TxTypes
<1>2. NoTx \in Tx /\ NoTx.locks = {} /\ NoTx.stale = {}
  BY NothingLoaded DEF NoTx
<1>3. Topmost(f)
  BY DEF TxInv, TxTypes, Topmost, Problems
<1>4. Loaded(op, on, I) = [NoTx EXCEPT !.op = op, !.on = on, !.seen = f, !.copy = f]
  BY DEF Loaded
<1> HIDE DEF f
<1>5. /\ Loaded(op, on, I) \in Tx /\ Loaded(op, on, I).op = op /\ Loaded(op, on, I).on = on
      /\ Loaded(op, on, I).seen = f /\ Loaded(op, on, I).copy = f
      /\ Loaded(op, on, I).locks = {} /\ Loaded(op, on, I).stale = {}
  BY <1>1, <1>2, <1>4 DEF Tx
<1> QED
  BY <1>3, <1>5 DEF f, IsLoaded

\* The handlers of the API begin with what they load.
LEMMA BeginSteps ==
  ASSUME TxInv,
         \/ \E op \in {"ack", "notify", "resolve"}, i \in Problems : BeginHandler(op, i)
         \/ \E i \in Problems : BeginClear(i)
         \/ BeginResolveAll
  PROVE  TxInv'
<1>1. ASSUME NEW op \in {"ack", "notify", "resolve"}, NEW i \in Problems, BeginHandler(op, i)
      PROVE  TxInv'
  <2> DEFINE t == Loaded(op, {i}, {i})
  <2>1. IsLoaded(t, op, {i}, {i})
    <3>1. op \in TxOps /\ {i} \in SUBSET Problems
      BY DEF TxOps
    <3> QED
      BY <3>1, LoadedRows
  <2>2. IsOpen(i) /\ rows[i].root = NoRoot /\ tx' = [tx EXCEPT !["backend"] = t]
        /\ UNCHANGED <<rows, decided, raced>>
    BY <1>1 DEF BeginHandler
  <2> HIDE DEF t
  <2>3. Underway(t)
    BY <2>1, <2>2 DEF IsLoaded, Underway, Untouched, Fresh, IsOpen
  <2> QED
    BY <2>1, <2>2, <2>3, SessionStep DEF IsLoaded, Processes
<1>2. ASSUME NEW i \in Problems, BeginClear(i) PROVE TxInv'
  <2> DEFINE t == Loaded("clear", {i}, {i})
  <2>1. IsLoaded(t, "clear", {i}, {i})
    <3>1. "clear" \in TxOps /\ {i} \in SUBSET Problems
      BY DEF TxOps
    <3> QED
      BY <3>1, LoadedRows
  <2>2. IsOpen(i) /\ tx' = [tx EXCEPT !["correlator"] = t]
        /\ UNCHANGED <<rows, decided, raced>>
    BY <1>2 DEF BeginClear, Begin
  <2> HIDE DEF t
  <2>3. Underway(t)
    BY <2>1, <2>2 DEF IsLoaded, Underway, Untouched, Fresh, IsOpen
  <2> QED
    BY <2>1, <2>2, <2>3, SessionStep DEF IsLoaded, Processes
<1>3. CASE BeginResolveAll
  <2> DEFINE I == {i \in Problems : IsOpen(i)}
             t == Loaded("resolve", I, I)
  <2>1. IsLoaded(t, "resolve", I, I)
    <3>1. "resolve" \in TxOps /\ I \in SUBSET Problems
      BY DEF TxOps
    <3> QED
      BY <3>1, LoadedRows
  <2>2. tx' = [tx EXCEPT !["backend"] = t] /\ UNCHANGED <<rows, decided, raced>>
    BY <1>3 DEF BeginResolveAll
  <2> HIDE DEF t
  <2>3. Underway(t)
    BY <2>1, <2>2 DEF IsLoaded, Underway, Untouched, Fresh, IsOpen
  <2> QED
    BY <2>1, <2>2, <2>3, SessionStep DEF IsLoaded, Processes
<1> QED
  BY <1>1, <1>2, <1>3

\* acknowledge and dispatch: what is decided is what is committed.
LEMMA DecideStep ==
  ASSUME TxInv, NEW i \in Problems, tx["backend"].op \in {"ack", "notify"},
         tx["backend"].on = {i}, NEW stage \in HUMAN_OWNED_STAGES,
         CommitHandler([tx["backend"] EXCEPT !.copy[i].stage = stage]),
         decided' = [decided EXCEPT ![i] = stage]
  PROVE  TxInv'
<1> DEFINE t == tx["backend"]
           u == [t EXCEPT !.copy[i].stage = stage]
<1>1. t \in Tx /\ Untouched(t) /\ t.seen[i].root = NoRoot /\ Fresh(t.seen, t.stale)
      /\ DOMAIN t.seen = {i} /\ t.copy = t.seen /\ t.seen[i].status = "open"
  BY DEF TxInv, TxTypes, Underway, Untouched, Processes
<1>2. t.seen \in Copies /\ t.seen[i] \in TxRow /\ t.stale \subseteq Problems
  BY <1>1, RowsHeld DEF Tx
<1>3. /\ u.seen = t.seen /\ u.stale = t.stale
      /\ u.copy = [t.seen EXCEPT ![i] = [t.seen[i] EXCEPT !.stage = stage]]
  BY <1>1 DEF Tx
<1>4. DOMAIN u.copy = {i} /\ u.copy[i] = [t.seen[i] EXCEPT !.stage = stage]
  BY <1>1, <1>3
<1>5. u.copy[i] \in TxRow /\ u.copy[i].status = "open" /\ u.copy[i].root = NoRoot
      /\ u.copy[i].stage = stage
  BY <1>1, <1>2, <1>4 DEF TxRow, HUMAN_OWNED_STAGES, IncidentStage
<1>6. u.copy \in Copies
  <2>1. u.copy = [j \in DOMAIN u.copy |-> u.copy[j]]
    BY <1>3, <1>2, RowsHeld
  <2> QED
    BY <1>4, <1>5, <2>1, HoldsRows
<1>7. decided' \in [Problems -> HUMAN_OWNED_STAGES \cup {"new"}]
      /\ decided'[i] = stage /\ \A j \in Problems \ {i} : decided'[j] = decided[j]
  BY DEF TxInv, TxTypes
<1>8. CommitTx("backend", u) /\ raced' = raced \cup Outdated(u)
  BY DEF CommitHandler
<1> HIDE DEF t, u
<1>9. rows' = Merged(u.seen, u.copy) /\ Outdated(u) = Overtaken(u.copy, u.stale)
  BY <1>8 DEF CommitTx, Merged, Written, Outdated, Overtaken
<1>10. Commits(u.seen, u.copy, t.stale)
  <2>1. Complete(u.copy, t.stale) /\ RootsStand(u.seen, u.copy, t.stale) /\ Topmost(u.copy)
    BY <1>4, <1>5 DEF Complete, RootsStand, Topmost
  <2>2. Decides(u.seen[i], u.copy[i])
    BY <1>1, <1>3, <1>4 DEF Decides
  <2> QED
    BY <1>1, <1>2, <1>3, <1>4, <1>5, <1>6, <1>7, <1>8, <1>9, <2>1, <2>2 DEF Commits
<1>11. raced' \subseteq Problems
  BY <1>2, <1>3, <1>4, <1>8, <1>9 DEF Overtaken, TxInv, TxTypes
<1> QED
  BY <1>7, <1>8, <1>10, <1>11, CommitStep DEF Processes

\* Both are commits of that kind.
LEMMA DecideSteps ==
  ASSUME TxInv, NEW i \in Problems, acknowledge(i) \/ dispatch(i)
  PROVE  TxInv'
<1>1. CASE acknowledge(i)
  BY <1>1, DecideStep DEF acknowledge, HUMAN_OWNED_STAGES
<1>2. CASE dispatch(i)
  BY <1>2, DecideStep DEF dispatch, HUMAN_OWNED_STAGES
<1> QED
  BY <1>1, <1>2

\* A commit that decides nothing, of rows left alone or changed by a report.
LEMMA ReportStep ==
  ASSUME TxInv, NEW p \in Processes, NEW t, t = tx[p],
         t.op \in {"notify", "flushed", "open"},
         CommitTx(p, t), raced' = raced \cup Outdated(t), UNCHANGED decided
  PROVE  TxInv'
<1>1. t \in Tx /\ DOMAIN t.seen = DOMAIN t.copy /\ Topmost(t.copy) /\ Underway(t)
  BY DEF TxInv, TxTypes
<1>2. rows' = Merged(t.seen, t.copy) /\ Outdated(t) = Overtaken(t.copy, t.stale)
  BY DEF CommitTx, Merged, Written, Outdated, Overtaken
<1>3. \A i \in DOMAIN t.copy : Leaves(t.seen[i], t.copy[i]) \/ Reports(t.seen[i], t.copy[i])
  BY <1>1 DEF Underway, Untouched, Leaves
<1>4. Complete(t.copy, t.stale) /\ RootsStand(t.seen, t.copy, t.stale)
  <2>1. CASE t.op = "notify"
    <3>1. \A i \in DOMAIN t.copy : t.copy[i].status = "open" /\ t.copy[i].root = t.seen[i].root
      BY <1>1, <2>1 DEF Underway, Untouched
    <3> QED
      BY <3>1 DEF Complete, RootsStand
  <2>2. CASE t.op # "notify"
    BY <1>1, <2>2 DEF Underway
  <2> QED
    BY <2>1, <2>2
<1>5. Commits(t.seen, t.copy, t.stale)
  BY <1>1, <1>2, <1>3, <1>4 DEF Commits, Tx, Underway
<1>6. decided' \in [Problems -> HUMAN_OWNED_STAGES \cup {"new"}] /\ raced' \subseteq Problems
  <2>1. DOMAIN t.copy \subseteq Problems /\ t.stale \subseteq Problems
    BY <1>1, RowsHeld DEF Tx
  <2> QED
    BY <1>2, <2>1 DEF Overtaken, TxInv, TxTypes
<1> QED
  BY <1>5, <1>6, CommitStep

\* MailFailed, CommitResolve and CommitMessage.
LEMMA ReportSteps ==
  ASSUME TxInv, MailFailed \/ CommitResolve \/ CommitMessage
  PROVE  TxInv'
<1>1. CASE MailFailed \/ CommitResolve
  BY <1>1, ReportStep DEF MailFailed, CommitResolve, CommitHandler, Processes
<1>2. CASE CommitMessage
  BY <1>2, ReportStep DEF CommitMessage, Processes
<1> QED
  BY <1>1, <1>2


\* An alarm's transaction: a new row, hung from an open root if from any.
LEMMA OpenSymptomStep ==
  ASSUME TxInv, NEW s \in Symptoms, OpenSymptom(s)
  PROVE  TxInv'
<1>1. rows[s].status = "absent" /\ s \in Problems /\ s \notin Roots
  BY ProblemAssumption DEF OpenSymptom, Problems
<1>2. PICK root \in {r \in Roots : IsOpen(r)} \cup {NoRoot} :
        Begin([Loaded("open", {s}, {s}) EXCEPT !.copy[s] = NewRow(root)])
  BY DEF OpenSymptom
<1> DEFINE l == Loaded("open", {s}, {s})
           t == [l EXCEPT !.copy[s] = NewRow(root)]
<1>3. {s} \in SUBSET Problems /\ "open" \in TxOps
  BY <1>1 DEF TxOps
<1>4. /\ l \in Tx /\ l.op = "open" /\ l.on = {s} /\ DOMAIN l.seen = {s} /\ l.seen[s] = rows[s]
      /\ l.copy = l.seen /\ l.locks = {} /\ l.stale = {}
  <2>1. IsLoaded(l, "open", {s}, {s})
    BY <1>3, LoadedRows
  <2> QED
    BY <2>1 DEF IsLoaded
<1>5. tx' = [tx EXCEPT !["correlator"] = t] /\ UNCHANGED <<rows, decided, raced>>
  BY <1>2 DEF Begin
<1> HIDE DEF l
<1>6. /\ t.op = "open" /\ t.on = {s} /\ t.seen = l.seen /\ t.locks = {} /\ t.stale = {}
      /\ t.copy = [l.seen EXCEPT ![s] = NewRow(root)]
  BY <1>4 DEF Tx
<1>7. /\ DOMAIN t.copy = {s} /\ t.copy[s] = NewRow(root)
      /\ t.copy = [j \in DOMAIN t.copy |-> t.copy[j]]
  BY <1>4, <1>6
<1>8. t.copy \in Copies
  BY <1>3, <1>7, HoldsRows, RowsAre
<1>9. t \in Tx
  BY <1>4, <1>8 DEF Tx
<1> HIDE DEF t
<1>10. Topmost(t.copy)
  BY <1>1, <1>7 DEF Topmost
<1>11. Underway(t)
  <2>1. t.copy[s].status = "open" /\ t.copy[s].root = root
    BY <1>7, RowsAre
  <2>2. RootsStand(t.seen, t.copy, t.stale)
    BY <1>1, <1>7, <2>1, RowsAre DEF RootsStand
  <2>3. Reports(t.seen[s], t.copy[s])
    BY <1>1, <1>4, <1>6, <1>7 DEF Reports, Opens
  <2> QED
    BY <1>4, <1>6, <1>7, <2>1, <2>2, <2>3 DEF Underway, Fresh, Complete
<1> QED
  BY <1>4, <1>5, <1>6, <1>7, <1>9, <1>10, <1>11, SessionStep DEF Processes

\* A fiber fault's: a new root, and the orphans it claims.
LEMMA OpenRootStep ==
  ASSUME TxInv, NEW r \in Roots, OpenRoot(r)
  PROVE  TxInv'
<1> DEFINE orphans == {s \in Symptoms : /\ IsOpen(s)
                                        /\ rows[s].root = NoRoot
                                        /\ rows[s].stage \notin HUMAN_OWNED_STAGES}
<1>1. PICK claimed \in SUBSET orphans :
        LET l == Loaded("open", {r}, {r} \cup claimed) IN
        Begin([l EXCEPT !.copy =
                 [i \in DOMAIN l.copy |->
                    IF i = r THEN NewRow(NoRoot)
                    ELSE [l.copy[i] EXCEPT !.root = r, !.stage = "suppressed"]]])
  BY DEF OpenRoot
<1> DEFINE I == {r} \cup claimed
           l == Loaded("open", {r}, I)
           f == l.seen
           g == [i \in DOMAIN l.copy |->
                   IF i = r THEN NewRow(NoRoot)
                   ELSE [l.copy[i] EXCEPT !.root = r, !.stage = "suppressed"]]
           t == [l EXCEPT !.copy = g]
<1>2. /\ rows[r].status = "absent" /\ r \in Problems /\ I \subseteq Problems
      /\ \A i \in I \ {r} : /\ i \in Symptoms /\ i \notin Roots /\ rows[i].status = "open"
                            /\ rows[i].root = NoRoot /\ rows[i].stage \notin HUMAN_OWNED_STAGES
      /\ \A i \in I : rows[i] \in TxRow
  BY ProblemAssumption DEF OpenRoot, IsOpen, Problems, TxInv, TxTypes
<1>3. tx' = [tx EXCEPT !["correlator"] = t] /\ UNCHANGED <<rows, decided, raced>>
  BY <1>1 DEF Begin
<1>4. /\ l \in Tx /\ l.op = "open" /\ l.on = {r} /\ DOMAIN l.seen = I /\ l.copy = l.seen
      /\ l.locks = {} /\ l.stale = {} /\ \A i \in I : l.seen[i] = rows[i]
  <2>1. I \in SUBSET Problems /\ {r} \in SUBSET Problems /\ "open" \in TxOps
    BY <1>2 DEF TxOps
  <2>2. IsLoaded(l, "open", {r}, I)
    BY <2>1, LoadedRows
  <2> QED
    BY <2>2 DEF IsLoaded
<1> HIDE DEF l
<1>5. DOMAIN f = I /\ DOMAIN g = I /\ f[r] = rows[r] /\ g[r] = NewRow(NoRoot)
  BY <1>4
<1>6. \A i \in I \ {r} : /\ f[i] = rows[i]
                         /\ g[i] = [rows[i] EXCEPT !.root = r, !.stage = "suppressed"]
  BY <1>4
<1>w. t.op = "open" /\ t.on = {r} /\ t.seen = f /\ t.copy = g /\ t.locks = {} /\ t.stale = {}
  BY <1>4 DEF Tx
<1>7. g = [i \in DOMAIN g |-> g[i]]
  OBVIOUS
<1>t. g \in Copies => t \in Tx
  BY <1>4 DEF Tx
<1> HIDE DEF f, g, t
<1>8. ASSUME NEW i \in I
      PROVE  /\ g[i] \in TxRow /\ g[i].status = "open" /\ g[i].root \in {NoRoot, r}
             /\ Reports(f[i], g[i]) /\ f[i] = rows[i]
  <2>1. CASE i = r
    BY <1>2, <1>5, <2>1, RowsAre DEF Reports, Opens
  <2>2. CASE i # r
    <3>1. rows[i] \in TxRow /\ g[i] = [rows[i] EXCEPT !.root = r, !.stage = "suppressed"]
          /\ f[i] = rows[i]
      BY <1>2, <1>6, <2>2
    <3>2. g[i] \in TxRow /\ g[i].status = rows[i].status /\ g[i].root = r
      BY <3>1 DEF TxRow, IncidentStage
    <3>3. Claims(f[i], g[i])
      <4>1. g[i] = [f[i] EXCEPT !.root = r, !.stage = "suppressed"]
        BY <3>1
      <4>2. f[i].status = "open" /\ f[i].root = NoRoot /\ f[i].stage \notin HUMAN_OWNED_STAGES
        BY <1>2, <2>2, <3>1
      <4> HIDE <3>1
      <4> QED
        BY <4>1, <4>2 DEF Claims
    <3> QED
      BY <1>2, <2>2, <3>1, <3>2, <3>3 DEF Reports
  <2> QED
    BY <2>1, <2>2
<1>9. g \in Copies
  BY <1>2, <1>5, <1>7, <1>8, HoldsRows
<1>10. Topmost(g)
  BY <1>2, <1>5, RowsAre DEF Topmost
<1>11. Underway(t)
  <2>1. RootsStand(f, g, {}) /\ Complete(g, {}) /\ Fresh(f, {})
    BY <1>5, <1>8, RowsAre DEF RootsStand, Complete, Fresh, I
  <2> QED
    BY <1>5, <1>8, <1>w, <2>1 DEF Underway
<1> QED
  BY <1>3, <1>5, <1>9, <1>10, <1>11, <1>w, <1>t, SessionStep DEF Processes

\* What the symptoms of I make of a session that has not changed anything yet.
IsJoined(t, I, w) ==
  /\ w \in Tx /\ w.op = t.op /\ w.on = t.on /\ w.locks = t.locks /\ w.stale = t.stale
  /\ w.copy = w.seen /\ w.seen \in Copies
  /\ DOMAIN w.seen = t.on \cup _open_symptoms(I)
  /\ \A i \in t.on : w.seen[i] = t.seen[i]
  /\ \A i \in _open_symptoms(I) \ t.on : w.seen[i] = rows[i]
  /\ Fresh(w.seen, w.stale) /\ Topmost(w.copy)

\* The symptoms that the query returns join the session.
LEMMA SymptomsJoin ==
  ASSUME TxInv, NEW t \in Tx, t.copy = t.seen, Fresh(t.seen, t.stale), Topmost(t.copy),
         NEW I \in SUBSET t.on, DOMAIN t.seen = t.on
  PROVE  IsJoined(t, I, WithSymptoms(t, I))
<1> DEFINE J == t.on \cup _open_symptoms(I)
           f == [i \in J |-> IF i \in t.on THEN t.seen[i] ELSE rows[i]]
<1>1. J \subseteq Problems
  BY DEF Tx, _open_symptoms, Problems
<1>2. \A i \in t.on : t.seen[i] \in TxRow
  BY RowsHeld DEF Tx
<1>3. \A i \in J : f[i] \in TxRow
  BY <1>1, <1>2 DEF TxInv, TxTypes
<1>4. f \in Copies
  BY <1>1, <1>3, HoldsRows
<1>5. WithSymptoms(t, I) = [t EXCEPT !.seen = f, !.copy = f]
  BY DEF WithSymptoms
<1>6. DOMAIN f = J /\ (\A i \in t.on : f[i] = t.seen[i])
      /\ (\A i \in _open_symptoms(I) \ t.on : f[i] = rows[i])
  OBVIOUS
<1>7. Fresh(f, t.stale) /\ Topmost(f)
  <2>1. \A r \in Roots \cap t.on : f[r].root = NoRoot
    BY <1>6 DEF Topmost
  <2>2. Roots \cap _open_symptoms(I) = {}
    BY RowsAre DEF _open_symptoms
  <2> QED
    BY <1>6, <2>1, <2>2 DEF Fresh, Topmost
<1> HIDE DEF f
<1>8. LET w == WithSymptoms(t, I) IN
        /\ w \in Tx /\ w.op = t.op /\ w.on = t.on /\ w.locks = t.locks /\ w.stale = t.stale
        /\ w.copy = f /\ w.seen = f
  BY <1>4, <1>5 DEF Tx
<1> QED
  BY <1>4, <1>6, <1>7, <1>8 DEF IsJoined

\* The symptoms of whatever a session closes are in it, for it closes nothing
\* but incidents whose symptoms it has queried, and symptoms, which have none.
LEMMA SymptomsFound ==
  ASSUME TxInv, NEW copy, NEW stale, NEW I, DOMAIN copy \subseteq Problems,
         _open_symptoms(I) \subseteq DOMAIN copy,
         \A i \in DOMAIN copy : copy[i].status = "resolved" => i \in I \cup Symptoms
  PROVE  Complete(copy, stale)
<1> SUFFICES ASSUME NEW i \in DOMAIN copy, copy[i].status = "resolved",
                    NEW s \in Problems, IsOpen(s), rows[s].root = i
             PROVE  s \in DOMAIN copy
  BY DEF Complete
<1>1. i # NoRoot /\ i \in Problems
  BY RowsAre
<1>2. s \notin Roots
  BY <1>1 DEF TxInv, TxTypes, Topmost, Problems
<1>3. rows[s] \in TxRow
  BY DEF TxInv, TxTypes
<1>4. i \in Roots
  BY <1>1, <1>3 DEF TxRow
<1>5. i \in I
  BY <1>4, RowsAre
<1> QED
  BY <1>2, <1>5 DEF _open_symptoms, Problems

\* An open row closed.
LEMMA ClosedRow ==
  ASSUME NEW a \in TxRow, NEW b, Closes(a, b)
  PROVE  b.status = "resolved" /\ b.root = a.root
BY DEF TxRow, Closes

\* What g makes of f by closing the incidents of I.
IsClosed(f, I, g) ==
  /\ g \in Copies /\ DOMAIN g = DOMAIN f
  /\ \A i \in DOMAIN f \ I : g[i] = f[i]
  /\ \A i \in I : Closes(f[i], g[i]) /\ g[i].status = "resolved" /\ g[i].root = f[i].root

\* Resolving what is open closes it.
LEMMA ClosedCopies ==
  ASSUME NEW f \in Copies, NEW I \in SUBSET DOMAIN f, \A i \in I : f[i].status = "open"
  PROVE  IsClosed(f, I, Resolved(f, I))
<1>1. ASSUME NEW i \in I
      PROVE  /\ Closes(f[i], Resolved(f, I)[i])
             /\ Resolved(f, I)[i].status = "resolved" /\ Resolved(f, I)[i].root = f[i].root
  <2>1. Closes(f[i], Resolved(f, I)[i])
    BY DEF Closes, Resolved
  <2>2. f[i] \in TxRow
    BY RowsHeld
  <2> QED
    BY <2>1, <2>2, ClosedRow
<1> QED
  BY <1>1, ResolvedCopies DEF IsClosed

\* resolve: the incidents and their symptoms are closed in the session.
LEMMA FlushResolveStep ==
  ASSUME TxInv, FlushResolve
  PROVE  TxInv'
<1> DEFINE h == tx["backend"]
           w == WithSymptoms(h, h.on)
           f == w.seen
           g == Resolved(w.copy, OpenCopies(w))
           t == [w EXCEPT !.op = "flushed", !.locks = w.on, !.copy = g]
<1>1. h \in Tx /\ Underway(h) /\ h.op = "resolve" /\ Topmost(h.copy)
  BY DEF TxInv, TxTypes, Processes, FlushResolve
<1>2. Untouched(h) /\ Fresh(h.seen, h.stale)
  BY <1>1 DEF Underway
<1>3. tx' = [tx EXCEPT !["backend"] = t] /\ UNCHANGED <<rows, decided, raced>>
  BY DEF FlushResolve
<1>4. /\ w \in Tx /\ w.on = h.on /\ w.copy = f /\ f \in Copies
      /\ DOMAIN f = h.on \cup _open_symptoms(h.on)
      /\ \A i \in h.on : f[i] = h.seen[i]
      /\ \A i \in _open_symptoms(h.on) \ h.on : f[i] = rows[i]
      /\ Fresh(f, w.stale) /\ Topmost(w.copy)
  <2>1. IsJoined(h, h.on, w)
    BY <1>1, <1>2, SymptomsJoin DEF Untouched
  <2> HIDE DEF h, w
  <2> QED
    BY <2>1 DEF IsJoined
<1> HIDE DEF h, w
<1>5. \A i \in DOMAIN f : f[i].status = "open" /\ f[i] \in TxRow
  BY <1>2, <1>4, RowsHeld DEF Untouched, _open_symptoms, IsOpen
<1>6. OpenCopies(w) = DOMAIN f
  BY <1>4, <1>5 DEF OpenCopies
<1>7. g \in Copies /\ DOMAIN g = DOMAIN f
      /\ \A i \in DOMAIN f : Closes(f[i], g[i]) /\ g[i].root = f[i].root
  <2>1. OpenCopies(w) \in SUBSET DOMAIN w.copy
        /\ \A i \in OpenCopies(w) : w.copy[i].status = "open"
    BY DEF OpenCopies
  <2>2. IsClosed(w.copy, OpenCopies(w), g)
    BY <1>4, <2>1, ClosedCopies
  <2> HIDE DEF g
  <2> QED
    BY <1>4, <1>6, <2>2 DEF IsClosed
<1>8. /\ t.op = "flushed" /\ t.on = w.on /\ t.locks = w.on /\ t.copy = g /\ t.seen = f
      /\ t.stale = w.stale /\ t \in Tx
  BY <1>4, <1>7 DEF Tx, TxOps
<1> HIDE DEF f, g, t
<1>9. \A i \in DOMAIN f : g[i].root = f[i].root /\ Reports(f[i], g[i])
  BY <1>7 DEF Reports
<1>10. Topmost(g)
  BY <1>4, <1>7, <1>9 DEF Topmost
<1>11. Complete(g, w.stale)
  <2>1. DOMAIN g \subseteq Problems
    BY <1>7, RowsHeld
  <2>2. DOMAIN g \subseteq h.on \cup Symptoms /\ _open_symptoms(h.on) \subseteq DOMAIN g
    BY <1>4, <1>7 DEF _open_symptoms
  <2> QED
    BY <2>1, <2>2, SymptomsFound
<1>12. RootsStand(f, g, w.stale)
  BY <1>7, <1>9 DEF RootsStand
<1>13. Underway(t)
  BY <1>4, <1>7, <1>8, <1>9, <1>11, <1>12 DEF Underway
<1> QED
  BY <1>3, <1>7, <1>8, <1>10, <1>13, SessionStep DEF Processes


\* An open row released.
LEMMA ReleasedRow ==
  ASSUME NEW a \in TxRow, a.status = "open", a.root # NoRoot,
         NEW b, b = [a EXCEPT !.root = NoRoot, !.stage = "new"]
  PROVE  b \in TxRow /\ b.status = "open" /\ b.root = NoRoot /\ Releases(a, b)
BY DEF TxRow, IncidentStage, Releases

\* An open row that the sweep has judged, which may still be closed.
LEMMA JudgedRow ==
  ASSUME NEW a \in TxRow, a.status = "open", a.stage \in {"new", "monitoring"},
         NEW stage \in {"monitoring", "triage"}, NEW b, b = [a EXCEPT !.stage = stage]
  PROVE  /\ b \in TxRow /\ b.status = "open" /\ b.root = a.root /\ Judges(a, b)
         /\ \A c : Closes(b, c) => Closes(a, c)
<1>1. b \in TxRow /\ b.status = "open" /\ b.root = a.root
  BY DEF TxRow, IncidentStage
<1>2. Judges(a, b)
  BY DEF Judges
<1>3. [b EXCEPT !.status = "resolved", !.stage = "resolved"] =
        [a EXCEPT !.status = "resolved", !.stage = "resolved"]
  BY DEF TxRow
<1> QED
  BY <1>1, <1>2, <1>3 DEF Closes

\* The device's clear: the incident is closed and its symptoms are let go.
LEMMA FlushClearStep ==
  ASSUME TxInv, FlushClear
  PROVE  TxInv'
<1> DEFINE h == tx["correlator"]
           w == WithSymptoms(h, h.on)
           f == w.seen
           i == CHOOSE j \in w.on : TRUE
           release(s) == [w.copy[s] EXCEPT !.root = NoRoot, !.stage = "new"]
           c == Resolved(w.copy, w.on)[i]
           g == [j \in DOMAIN w.copy |-> IF j = i THEN c ELSE release(j)]
           t == [w EXCEPT !.op = "open", !.locks = w.on, !.copy = g]
<1>1. h \in Tx /\ Underway(h) /\ h.op = "clear" /\ Topmost(h.copy)
  <2>1. w.op = h.op
    BY DEF WithSymptoms, TxInv, TxTypes, Processes, Tx
  <2>2. h.op = "clear"
    BY DEF FlushClear
  <2> QED
    BY <2>2 DEF TxInv, TxTypes, Processes
<1>2. Untouched(h) /\ Fresh(h.seen, h.stale) /\ \E j \in Problems : h.on = {j}
  BY <1>1 DEF Underway
<1>3. tx' = [tx EXCEPT !["correlator"] = t] /\ UNCHANGED <<rows, decided, raced>>
  BY DEF FlushClear
<1>4. /\ w \in Tx /\ w.on = h.on /\ w.copy = f /\ f \in Copies
      /\ DOMAIN f = h.on \cup _open_symptoms(h.on)
      /\ \A j \in h.on : f[j] = h.seen[j]
      /\ \A j \in _open_symptoms(h.on) \ h.on : f[j] = rows[j]
      /\ Fresh(f, w.stale) /\ Topmost(w.copy)
  <2>1. IsJoined(h, h.on, w)
    BY <1>1, <1>2, SymptomsJoin DEF Untouched
  <2> HIDE DEF h, w
  <2> QED
    BY <2>1 DEF IsJoined
<1>5. h.on = {i} /\ i \in Problems
  <2>1. PICK k \in Problems : h.on = {k}
    BY <1>2
  <2>2. w.on = {k}
    BY <1>4, <2>1
  <2> HIDE DEF h, w
  <2>3. i \in w.on
    BY <2>2
  <2> QED
    BY <2>1, <2>2, <2>3
<1> HIDE DEF h, w, i, c
<1>6. \A j \in DOMAIN f : f[j].status = "open" /\ f[j] \in TxRow
  BY <1>2, <1>4, RowsHeld DEF Untouched, _open_symptoms, IsOpen
<1>7. /\ DOMAIN g = DOMAIN f /\ g = [j \in DOMAIN g |-> g[j]]
      /\ \A j \in DOMAIN f \ {i} : g[j] = release(j)
      /\ g[i] = c
  BY <1>4, <1>5
<1>8. /\ g[i] \in TxRow /\ g[i].status = "resolved" /\ g[i].root = f[i].root
      /\ Closes(f[i], g[i])
  <2>1. w.on \in SUBSET DOMAIN w.copy /\ \A j \in w.on : w.copy[j].status = "open"
    BY <1>4, <1>6
  <2>2. IsClosed(w.copy, w.on, Resolved(w.copy, w.on))
    BY <1>4, <2>1, ClosedCopies
  <2>3. Resolved(w.copy, w.on) \in Copies /\ i \in w.on /\ i \in DOMAIN Resolved(w.copy, w.on)
    BY <1>4, <1>5, <2>2 DEF IsClosed
  <2>4. c \in TxRow
    BY <2>3, RowsHeld DEF c
  <2> HIDE DEF g
  <2> QED
    BY <1>4, <1>5, <1>7, <2>2, <2>3, <2>4 DEF IsClosed, c
<1>9. /\ t.op = "open" /\ t.on = w.on /\ t.locks = w.on /\ t.copy = g /\ t.seen = f
      /\ t.stale = w.stale /\ (g \in Copies => t \in Tx)
  BY <1>4 DEF Tx, TxOps
<1> HIDE DEF f, g, t
<1>10. ASSUME NEW j \in DOMAIN f \ {i}
       PROVE  g[j] \in TxRow /\ g[j].status = "open" /\ g[j].root = NoRoot /\ Releases(f[j], g[j])
  <2>1. f[j] = rows[j] /\ rows[j].root = i
    BY <1>4, <1>5 DEF _open_symptoms
  <2>2. f[j].root # NoRoot
    BY <1>5, <2>1, RowsAre
  <2> QED
    BY <1>4, <1>6, <1>7, <2>2, ReleasedRow
<1>11. g \in Copies
  <2>1. DOMAIN g \subseteq Problems
    BY <1>4, <1>7, RowsHeld
  <2> QED
    BY <1>7, <1>8, <1>10, <2>1, HoldsRows
<1>12. Topmost(g)
  BY <1>4, <1>7, <1>8, <1>10 DEF Topmost
<1>13. Complete(g, w.stale)
  <2>1. _open_symptoms({i}) \subseteq DOMAIN g /\ DOMAIN g \subseteq Problems
    BY <1>4, <1>5, <1>7, <1>11, RowsHeld
  <2>2. \A j \in DOMAIN g : g[j].status = "resolved" => j \in {i} \cup Symptoms
    BY <1>7, <1>10
  <2> QED
    BY <2>1, <2>2, SymptomsFound
<1>14. RootsStand(f, g, w.stale)
  BY <1>7, <1>8, <1>10 DEF RootsStand
<1>15. \A j \in DOMAIN f : Reports(f[j], g[j])
  BY <1>8, <1>10 DEF Reports
<1>16. Underway(t)
  BY <1>4, <1>7, <1>9, <1>13, <1>14, <1>15 DEF Underway
<1> QED
  BY <1>3, <1>7, <1>9, <1>11, <1>12, <1>16, SessionStep DEF Processes

\* The sweep locks what it loads.
LEMMA SweepLockStep ==
  ASSUME TxInv, SweepLock
  PROVE  TxInv'
<1>1. PICK I \in SUBSET ((Ready \cup Overdue) \ tx["backend"].locks) :
        Begin([Loaded("sweep", I, I) EXCEPT !.locks = I])
  BY DEF SweepLock
<1> DEFINE l == Loaded("sweep", I, I)
           t == [l EXCEPT !.locks = I]
<1>2. /\ I \subseteq Problems
      /\ \A i \in I : rows[i].status = "open" /\ rows[i].stage \in {"new", "monitoring"}
  BY DEF Ready, Overdue, IsOpen
<1>3. tx' = [tx EXCEPT !["correlator"] = t] /\ UNCHANGED <<rows, decided, raced>>
  BY <1>1 DEF Begin
<1>4. IsLoaded(l, "sweep", I, I)
  <2>1. I \in SUBSET Problems /\ "sweep" \in TxOps
    BY <1>2 DEF TxOps
  <2> QED
    BY <2>1, LoadedRows
<1> HIDE DEF l
<1>5. /\ t \in Tx /\ t.op = "sweep" /\ t.on = I /\ t.locks = I /\ t.stale = {}
      /\ t.seen = l.seen /\ t.copy = t.seen /\ DOMAIN t.seen = I
      /\ Topmost(t.copy) /\ \A i \in I : t.seen[i] = rows[i]
  BY <1>2, <1>4 DEF IsLoaded, Tx
<1> HIDE DEF t
<1>6. Underway(t)
  BY <1>2, <1>5 DEF Underway, Fresh
<1> QED
  BY <1>3, <1>5, <1>6, SessionStep DEF Processes



\* The sweep's verdicts are committed: its rows were locked, so that they are
\* as it loaded them, and nobody decided on them in the meantime.
LEMMA SweepCommitStep ==
  ASSUME TxInv, SweepCommit
  PROVE  TxInv'
<1> DEFINE h == tx["correlator"]
<1>1. PICK healed \in SUBSET {i \in h.on : h.copy[i].stage = "new"},
           waiting \in SUBSET {i \in h.on : h.copy[i].stage = "new"} :
        LET loaded == WithSymptoms(h, healed)
            moved == [i \in DOMAIN loaded.copy |->
                        IF i \in waiting THEN [loaded.copy[i] EXCEPT !.stage = "monitoring"]
                        ELSE IF i \in h.on THEN [loaded.copy[i] EXCEPT !.stage = "triage"]
                        ELSE loaded.copy[i]]
        IN /\ healed \cap waiting = {}
           /\ CommitTx("correlator",
                [loaded EXCEPT !.copy = Resolved(moved, healed \cup (DOMAIN moved \ h.on))])
  BY DEF SweepCommit
<1> DEFINE w == WithSymptoms(h, healed)
           f == w.seen
           m == [i \in DOMAIN w.copy |->
                   IF i \in waiting THEN [w.copy[i] EXCEPT !.stage = "monitoring"]
                   ELSE IF i \in h.on THEN [w.copy[i] EXCEPT !.stage = "triage"]
                   ELSE w.copy[i]]
           closed == healed \cup (DOMAIN m \ h.on)
           g == Resolved(m, closed)
           t == [w EXCEPT !.copy = g]
<1>2. CommitTx("correlator", t) /\ UNCHANGED <<decided, raced>>
  BY <1>1 DEF SweepCommit
<1>3. h \in Tx /\ Underway(h) /\ h.op = "sweep" /\ Topmost(h.copy)
  BY DEF TxInv, TxTypes, Processes, SweepCommit
<1>4. /\ h.copy = h.seen /\ DOMAIN h.seen = h.on /\ h.on \cap h.stale = {}
      /\ \A i \in h.on : h.seen[i].status = "open" /\ h.seen[i].stage \in {"new", "monitoring"}
      /\ Fresh(h.seen, h.stale)
  BY <1>3 DEF Underway
<1>5. healed \subseteq h.on /\ waiting \subseteq h.on
  OBVIOUS
<1>6. IsJoined(h, healed, w)
  BY <1>3, <1>4, <1>5, SymptomsJoin
<1> HIDE DEF h, w
<1>7. /\ w \in Tx /\ w.copy = f /\ f \in Copies /\ Topmost(w.copy)
      /\ DOMAIN f = h.on \cup _open_symptoms(healed)
      /\ \A i \in h.on : f[i] = h.seen[i] /\ f[i] = rows[i]
      /\ \A i \in _open_symptoms(healed) \ h.on : f[i] = rows[i]
  BY <1>4, <1>6 DEF IsJoined, Fresh
<1>8. \A i \in DOMAIN f : /\ f[i].status = "open" /\ f[i] \in TxRow /\ f[i] = rows[i]
                          /\ i \in h.on => f[i].stage \in {"new", "monitoring"}
  BY <1>4, <1>7, RowsHeld DEF _open_symptoms, IsOpen
<1>9. /\ DOMAIN m = DOMAIN f /\ m = [i \in DOMAIN m |-> m[i]]
      /\ \A i \in h.on : \E stage \in {"monitoring", "triage"} :
           m[i] = [w.copy[i] EXCEPT !.stage = stage]
      /\ \A i \in DOMAIN f \ h.on : m[i] = f[i]
  BY <1>5, <1>7
<1> HIDE DEF m
<1>10. ASSUME NEW i \in h.on
       PROVE  /\ m[i] \in TxRow /\ m[i].status = "open" /\ m[i].root = f[i].root
              /\ Judges(f[i], m[i]) /\ \A c : Closes(m[i], c) => Closes(f[i], c)
  <2>1. PICK stage \in {"monitoring", "triage"} : m[i] = [w.copy[i] EXCEPT !.stage = stage]
    BY <1>9
  <2>2. w.copy[i] = f[i] /\ f[i] \in TxRow /\ f[i].status = "open"
        /\ f[i].stage \in {"new", "monitoring"}
    BY <1>7, <1>8
  <2> QED
    BY <2>1, <2>2, JudgedRow
<1>11. \A i \in DOMAIN f : /\ m[i] \in TxRow /\ m[i].status = "open" /\ m[i].root = f[i].root
                           /\ \A c : Closes(m[i], c) => Closes(f[i], c)
  BY <1>8, <1>9, <1>10
<1>12. m \in Copies
  <2>1. DOMAIN m \subseteq Problems
    BY <1>7, <1>9, RowsHeld
  <2> QED
    BY <1>9, <1>11, <2>1, HoldsRows
<1>13. IsClosed(m, closed, g)
  <2>1. closed \in SUBSET DOMAIN m /\ \A i \in closed : m[i].status = "open"
    BY <1>5, <1>7, <1>9, <1>11
  <2> QED
    BY <1>12, <2>1, ClosedCopies
<1>14. t.seen = f /\ t.copy = g
  BY <1>7 DEF Tx
<1> HIDE DEF f, g, t
<1>15. /\ g \in Copies /\ DOMAIN g = DOMAIN f
       /\ \A i \in h.on \ healed : g[i] = m[i]
       /\ \A i \in closed : /\ Closes(m[i], g[i]) /\ g[i].status = "resolved"
                            /\ g[i].root = m[i].root
  BY <1>5, <1>7, <1>9, <1>13 DEF IsClosed
<1>16. \A i \in DOMAIN f : i \in h.on \ healed \/ i \in closed
  BY <1>9
<1>17. \A i \in DOMAIN f : /\ g[i].root = f[i].root
                           /\ Closes(f[i], g[i]) \/ Judges(f[i], g[i])
  BY <1>10, <1>11, <1>15, <1>16
<1>18. Complete(g, {})
  <2>1. DOMAIN g \subseteq Problems /\ _open_symptoms(healed) \subseteq DOMAIN g
    BY <1>7, <1>15, RowsHeld
  <2>2. \A i \in DOMAIN g : g[i].status = "resolved" => i \in healed \cup Symptoms
    BY <1>7, <1>10, <1>15 DEF _open_symptoms
  <2> QED
    BY <2>1, <2>2, SymptomsFound
<1>19. Fresh(f, {}) /\ RootsStand(f, g, {}) /\ Topmost(g)
  BY <1>7, <1>8, <1>15, <1>17 DEF Fresh, RootsStand, Topmost
<1>20. rows' = Merged(f, g) /\ Overtaken(g, {}) = {}
  BY <1>2, <1>14 DEF CommitTx, Merged, Written, Overtaken
<1>21. Commits(f, g, {})
  BY <1>2, <1>7, <1>15, <1>17, <1>18, <1>19, <1>20 DEF Commits, Reports
<1> QED
  BY <1>2, <1>14, <1>21, CommitStep DEF Processes, TxInv, TxTypes

\* Nothing has been loaded, and no row is there, at the start.
LEMMA TxInitially == TxInit => TxInv
<1> SUFFICES ASSUME TxInit PROVE TxInv
  OBVIOUS
<1>1. /\ rows = [i \in Problems |-> Absent] /\ tx = [p \in Processes |-> NoTx]
      /\ decided = [i \in Problems |-> "new"] /\ raced = {}
  BY DEF TxInit
<1>2. Absent \in TxRow /\ Absent.root = NoRoot /\ Absent.stage = "new"
      /\ Absent.status = "absent"
  BY RowsAre DEF Absent
<1>3. NoTx \in Tx /\ DOMAIN NoTx.seen = {} /\ DOMAIN NoTx.copy = {} /\ NoTx.op = "idle"
  BY NothingLoaded DEF NoTx
<1>4. TxTypes
  BY <1>1, <1>2, <1>3, RowsAre DEF TxTypes, Topmost
<1>5. RowsInv
  BY <1>1, <1>2 DEF RowsInv, DecisionIsKept, TreeIsConsistent, AbsentIsBlank
<1>6. Underway(NoTx)
  BY <1>3 DEF Underway, Fresh
<1> QED
  BY <1>1, <1>4, <1>5, <1>6 DEF TxInv

\* The invariant is inductive.
LEMMA TxStep == TxInv /\ [TxNext]_txVars => TxInv'
<1> SUFFICES ASSUME TxInv, [TxNext]_txVars PROVE TxInv'
  OBVIOUS
<1>1. ASSUME NEW i \in Problems,
             (\E op \in {"ack", "notify", "resolve"} : BeginHandler(op, i)) \/ BeginClear(i)
      PROVE  TxInv'
  BY <1>1, BeginSteps
<1>2. ASSUME NEW i \in Problems, acknowledge(i) \/ dispatch(i) PROVE TxInv'
  BY <1>2, DecideSteps
<1>3. CASE BeginResolveAll
  BY <1>3, BeginSteps
<1>4. CASE MailFailed \/ CommitResolve \/ CommitMessage
  BY <1>4, ReportSteps
<1>5. CASE FlushResolve
  BY <1>5, FlushResolveStep
<1>6. CASE FlushClear
  BY <1>6, FlushClearStep
<1>7. ASSUME NEW s \in Symptoms, OpenSymptom(s) PROVE TxInv'
  BY <1>7, OpenSymptomStep
<1>8. ASSUME NEW r \in Roots, OpenRoot(r) PROVE TxInv'
  BY <1>8, OpenRootStep
<1>9. CASE SweepLock
  BY <1>9, SweepLockStep
<1>10. CASE SweepCommit
  BY <1>10, SweepCommitStep
<1>11. CASE UNCHANGED txVars
  BY <1>11 DEF txVars, TxInv, TxTypes, RowsInv, DecisionIsKept, TreeIsConsistent,
       AbsentIsBlank, IsOpen, Underway, Untouched, Fresh, Complete, RootsStand
<1> QED
  BY <1>1, <1>2, <1>3, <1>4, <1>5, <1>6, <1>7, <1>8, <1>9, <1>10, <1>11 DEF TxNext

\* The invariant holds throughout.
LEMMA TxInvariant == TxSpec => []TxInv
BY TxInitially, TxStep, PTL DEF TxSpec

-----------------------------------------------------------------------------

\* Whatever the two processes have under way, rows are rows, sessions hold
\* copies of rows, and the locks and the stale rows are incidents' (the unit of
\* work of the handlers and of the correlator).
THEOREM TxTypesHold == TxSpec => []TxTypeOK
<1>1. TxInv => TxTypeOK
  <2> SUFFICES ASSUME TxInv PROVE TxTypeOK
    OBVIOUS
  <2>1. /\ rows \in [Problems -> TxRow] /\ tx \in [Processes -> Tx]
        /\ \A p \in Processes : DOMAIN tx[p].seen = DOMAIN tx[p].copy
        /\ decided \in [Problems -> HUMAN_OWNED_STAGES \cup {"new"}] /\ raced \subseteq Problems
    BY DEF TxInv, TxTypes
  <2>2. ASSUME NEW p \in Processes
        PROVE  /\ tx[p].op \in {"idle", "ack", "notify", "resolve", "flushed", "open",
                                "clear", "sweep"}
               /\ tx[p].on \cup tx[p].locks \cup tx[p].stale \cup DOMAIN tx[p].copy
                    \subseteq Problems
               /\ \A i \in DOMAIN tx[p].copy : {tx[p].copy[i], tx[p].seen[i]} \subseteq TxRow
    <3>1. tx[p] \in Tx
      BY <2>1
    <3>2. /\ tx[p].op \in TxOps /\ tx[p].on \subseteq Problems /\ tx[p].locks \subseteq Problems
          /\ tx[p].stale \subseteq Problems /\ tx[p].copy \in Copies /\ tx[p].seen \in Copies
      BY <3>1 DEF Tx
    <3>3. DOMAIN tx[p].copy \subseteq Problems
          /\ \A i \in DOMAIN tx[p].copy : tx[p].copy[i] \in TxRow /\ tx[p].seen[i] \in TxRow
      BY <2>1, <3>2, RowsHeld
    <3> QED
      BY <3>2, <3>3 DEF TxOps
  <2> QED
    BY <2>1, <2>2 DEF TxTypeOK
<1> QED
  BY <1>1, TxInvariant, PTL

\* An operator's acknowledgement or dispatch stands until the incident is
\* resolved, however the handlers, the correlator's messages and the sweep
\* overlap, save where a transaction decided on a row it had read before the
\* other process committed it (acknowledge, dispatch, find_l3_symptoms, sweep).
THEOREM DecisionIsKeptHolds == TxSpec => []DecisionIsKept
<1>1. TxInv => DecisionIsKept
  BY DEF TxInv, RowsInv
<1> QED
  BY <1>1, TxInvariant, PTL

\* Likewise no open symptom hangs from a root that is not open, and an incident
\* is suppressed exactly when it has a root, save where two transactions
\* overlapped on the incident or its root (_resolve, _correlate).
THEOREM TreeIsConsistentHolds == TxSpec => []TreeIsConsistent
<1>1. TxInv => TreeIsConsistent
  BY DEF TxInv, RowsInv
<1> QED
  BY <1>1, TxInvariant, PTL


=============================================================================

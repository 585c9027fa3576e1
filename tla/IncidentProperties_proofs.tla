---------------------- MODULE IncidentProperties_proofs ---------------------
(***************************************************************************)
(* Proofs of the other safety and action properties of IncidentWorkflow.   *)
(* Part 1 says what one transaction may make of a row and of a table, part *)
(* 2 that every action keeps to it, and part 3 draws the conclusions.      *)
(***************************************************************************)
EXTENDS IncidentLifecycle_proofs

-----------------------------------------------------------------------------
(* Part 1: rows and tables                                                 *)

\* What a transaction other than a deletion may make of row a: what is closed stays
\* as it is, what is open keeps its problem and its age and is not taken from the
\* hands it is in, and is closed only with a reason that fits its author.
Moves(a, b) ==
  /\ b.router = a.router /\ b.type = a.type /\ b.iface = a.iface /\ b.peering = a.peering
  /\ a.status = "resolved" => b = a
  /\ a.status = "open" /\ b.status = "open" =>
       /\ a.age <= b.age
       /\ \/ b.stage \in HUMAN_OWNED_STAGES
          \/ a.stage \notin HUMAN_OWNED_STAGES /\ b.owner = a.owner
  /\ a.status = "open" /\ b.status = "resolved" =>
       Attributed(b) /\ (b.reason \in AutoReasons => autoHeal)
  /\ ~autoHeal => b.playbooks = a.playbooks

\* A symptom keeps its root for as long as both are open, and only an incident that has
\* just appeared becomes the root of another.
StaysLinked(rows, after, n) ==
  Open(after, n) =>
    \/ after[n].root = rows[n].root
    \/ after[n].root = NoId /\ ~Open(after, rows[n].root)
    \/ rows[n].root = NoId /\ after[n].root \notin DOMAIN rows

TableMoves(rows, after) ==
  \A n \in DOMAIN rows :
    /\ n \in DOMAIN after /\ Moves(rows[n], after[n]) /\ StaysLinked(rows, after, n)
    /\ Open(rows, n) /\ ~Open(after, n) => WentWithRoot(after, n)

\* No link incident that stays open is marked as cleared by its device.
Unmarked(rows, after) ==
  \A n \in DOMAIN rows :
    Open(after, n) /\ rows[n].type \in LINK_TYPES /\ after[n].cleared => rows[n].cleared

\* The fields the lemmas on SetStage, Resolved, Released and LinkSymptom left out.
SameRest(a, b) ==
  /\ b.iface = a.iface /\ b.peering = a.peering /\ b.owner = a.owner
  /\ b.playbooks = a.playbooks /\ b.cleared = a.cleared

\* A new stage leaves the other columns, and the age, alone.
LEMMA SetStageRest ==
  ASSUME NEW row \in Incident, NEW stage \in IncidentStage
  PROVE  SameRest(row, SetStage(row, stage)) /\ SetStage(row, stage).age = row.age
BY DEF SetStage, SameRest, Incident

\* Resolving leaves alone what says where and what the problem is.
LEMMA ResolvedRest ==
  ASSUME NEW row \in Incident, NEW reason, NEW by
  PROVE  SameRest(row, Resolved(row, reason, by))
<1> DEFINE staged == SetStage(row, "resolved")
<1>1. staged \in Incident /\ SameRest(row, staged)
  BY SetStageRow, SetStageRest DEF IncidentStage
<1>2. Resolved(row, reason, by) = [staged EXCEPT !.status = "resolved", !.reason = reason,
                                                 !.by = by, !.age = 0]
  BY DEF Resolved
<1> HIDE DEF staged
<1> QED
  BY <1>1, <1>2 DEF SameRest, Incident

\* So does releasing a symptom, with its age.
LEMMA ReleasedRest ==
  ASSUME NEW row \in Incident
  PROVE  SameRest(row, Released(row)) /\ Released(row).age = row.age
<1> DEFINE staged == SetStage(row, "new")
<1>1. staged \in Incident /\ SameRest(row, staged) /\ staged.age = row.age
  BY SetStageRow, SetStageRest DEF IncidentStage
<1>2. Released(row) = [staged EXCEPT !.root = NoId]
  BY DEF Released
<1> HIDE DEF staged
<1> QED
  BY <1>1, <1>2 DEF SameRest, Incident

\* So does claiming one, with its age.
LEMMA LinkSymptomRest ==
  ASSUME NEW row \in Incident, NEW root \in Ids
  PROVE  SameRest(row, LinkSymptom(row, root)) /\ LinkSymptom(row, root).age = row.age
<1> DEFINE staged == SetStage(row, "suppressed")
<1>1. staged \in Incident /\ SameRest(row, staged) /\ staged.age = row.age
  BY SetStageRow, SetStageRest DEF IncidentStage
<1>2. LinkSymptom(row, root) = [staged EXCEPT !.root = root]
  BY DEF LinkSymptom
<1> HIDE DEF staged
<1> QED
  BY <1>1, <1>2 DEF SameRest, Incident

\* A row that is left alone.
LEMMA StillMoves ==
  ASSUME NEW row \in Incident
  PROVE  Moves(row, row)
<1>1. row.status \in {"open", "resolved"} /\ row.age \in Nat
  BY DEF Incident, IncidentStatus
<1> QED
  BY <1>1 DEF Moves

\* One move after another.
LEMMA MovesOn ==
  ASSUME NEW a \in Incident, NEW b \in Incident, NEW c \in Incident, Moves(a, b), Moves(b, c)
  PROVE  Moves(a, c)
<1>1. /\ a.status \in {"open", "resolved"} /\ b.status \in {"open", "resolved"}
      /\ a.age \in Nat /\ b.age \in Nat /\ c.age \in Nat
  BY DEF Incident, IncidentStatus
<1> QED
  BY <1>1 DEF Moves

\* A row nobody owns is restaged.
LEMMA RestagedMoves ==
  ASSUME NEW a \in Incident, NEW b \in Incident,
         a.status = "open", b.status = "open", a.stage \notin HUMAN_OWNED_STAGES,
         b.router = a.router, b.type = a.type, b.iface = a.iface, b.peering = a.peering,
         b.owner = a.owner, b.age = a.age, autoHeal \/ b.playbooks = a.playbooks
  PROVE  Moves(a, b)
<1>1. a.age \in Nat
  BY DEF Incident
<1> QED
  BY <1>1 DEF Moves

\* An open row is closed.
LEMMA ClosedMoves ==
  ASSUME NEW row \in Incident, row.status = "open",
         NEW reason \in ResolutionReason, NEW by \in Principals \cup {SYSTEM},
         reason \in AutoReasons => by = SYSTEM /\ autoHeal,
         reason \notin AutoReasons => by \in Principals
  PROVE  Moves(row, Resolved(row, reason, by))
BY ResolvedRow, ResolvedRest DEF Moves, Attributed, SameRest

\* An open row of which neither stage nor owner changes.
LEMMA AnnotatedMoves ==
  ASSUME NEW a \in Incident, NEW b \in Incident, a.status = "open", b.status = "open",
         b.router = a.router, b.type = a.type, b.iface = a.iface, b.peering = a.peering,
         b.stage = a.stage, b.owner = a.owner, b.playbooks = a.playbooks, a.age <= b.age
  PROVE  Moves(a, b)
BY DEF Moves

\* A table that is left alone.
LEMMA TableStill ==
  ASSUME NEW rows, Sound(rows)
  PROVE  TableMoves(rows, rows)
BY StillMoves DEF TableMoves, StaysLinked, Sound, Table

\* One transaction's writes, one after another; none of them inserts or deletes a row.
LEMMA TableMovesOn ==
  ASSUME NEW rows, NEW mid, NEW after, Sound(rows), Sound(mid), Sound(after),
         DOMAIN mid = DOMAIN rows, DOMAIN after = DOMAIN rows,
         TableMoves(rows, mid), TableMoves(mid, after)
  PROVE  TableMoves(rows, after)
<1>1. /\ \A n \in DOMAIN rows : rows[n] \in Incident
      /\ \A n \in DOMAIN rows : mid[n] \in Incident
      /\ \A n \in DOMAIN rows : after[n] \in Incident
  BY DEF Sound, Table
<1>2. /\ \A n \in DOMAIN rows : Moves(rows[n], mid[n])
      /\ \A n \in DOMAIN rows : Moves(mid[n], after[n])
  BY DEF TableMoves
<1>3. \A n \in DOMAIN rows : Open(after, n) => Open(mid, n)
  BY <1>1, <1>2 DEF Moves, Open, Incident, IncidentStatus
<1>4. ASSUME NEW n \in DOMAIN rows, Open(after, n)
      PROVE  \/ after[n].root = rows[n].root
             \/ after[n].root = NoId /\ ~Open(after, rows[n].root)
  <2>1. Open(mid, n) /\ Open(rows, n)
    <3>1. Open(mid, n)
      BY <1>3, <1>4
    <3> QED
      BY <1>1, <1>2, <3>1 DEF Moves, Open, Incident, IncidentStatus
  <2>2. /\ mid[n].root # NoId => mid[n].root \in DOMAIN rows
        /\ after[n].root # NoId => after[n].root \in DOMAIN rows
        /\ rows[n].root # NoId => rows[n].root \in DOMAIN rows
    BY <1>4, <2>1 DEF Sound, TreeOf, OpenSymptom
  <2>3. \/ mid[n].root = rows[n].root
        \/ mid[n].root = NoId /\ ~Open(mid, rows[n].root)
    BY <2>1, <2>2 DEF TableMoves, StaysLinked
  <2>4. \/ after[n].root = mid[n].root
        \/ after[n].root = NoId /\ ~Open(after, mid[n].root)
    BY <1>4, <2>2 DEF TableMoves, StaysLinked
  <2>5. CASE mid[n].root = rows[n].root
    BY <2>4, <2>5
  <2>6. CASE mid[n].root = NoId /\ ~Open(mid, rows[n].root) /\ rows[n].root # NoId
    <3>1. ~Open(after, rows[n].root)
      BY <1>3, <2>2, <2>6
    <3>2. after[n].root = NoId
      BY <2>4, <2>6
    <3> QED
      BY <3>1, <3>2
  <2> QED
    BY <2>3, <2>5, <2>6
<1>5. ASSUME NEW n \in DOMAIN rows
      PROVE  Moves(rows[n], after[n])
  BY <1>1, <1>2, MovesOn
<1>6. ASSUME NEW n \in DOMAIN rows, Open(rows, n), ~Open(after, n)
      PROVE  WentWithRoot(after, n)
  <2>1. \A m \in DOMAIN rows : ~Open(mid, m) => after[m] = mid[m]
    BY <1>1, <1>2 DEF Moves, Open, Incident, IncidentStatus
  <2>2. CASE Open(mid, n)
    BY <1>6, <2>2 DEF TableMoves
  <2>3. CASE ~Open(mid, n)
    BY <1>6, <2>1, <2>3 DEF TableMoves, WentWithRoot, Open
  <2> QED
    BY <2>2, <2>3
<1> QED
  BY <1>4, <1>5, <1>6 DEF TableMoves, StaysLinked

\* The same for the device's marks.
LEMMA UnmarkedOn ==
  ASSUME NEW rows, NEW mid, NEW after, Sound(mid), Sound(after),
         DOMAIN mid = DOMAIN rows, DOMAIN after = DOMAIN rows,
         TableMoves(rows, mid), TableMoves(mid, after),
         Unmarked(rows, mid), Unmarked(mid, after)
  PROVE  Unmarked(rows, after)
<1>1. \A n \in DOMAIN rows : mid[n] \in Incident /\ after[n] \in Incident
  BY DEF Sound, Table
<1>2. \A n \in DOMAIN rows : /\ Open(after, n) => Open(mid, n)
                              /\ mid[n].type = rows[n].type
  BY <1>1 DEF TableMoves, Moves, Open, Incident, IncidentStatus
<1> QED
  BY <1>2 DEF Unmarked

\* A cascade of _resolve: a symptom is released, in nobody's hands, because its root is
\* closed with it, or goes with its root, by the same hand; and the system closes no
\* symptom, for what it heals for good is no root.
LEMMA ResolveEachMoves ==
  ASSUME NEW rows, Sound(rows), NEW S \in SUBSET DOMAIN rows,
         NEW reason \in ResolutionReason, NEW by \in Principals \cup {SYSTEM},
         reason \in AutoReasons => by = SYSTEM /\ autoHeal,
         reason \notin AutoReasons =>
           by \in Principals /\ reason \in USER_RESOLUTION_REASONS,
         reason = "auto_healed" => \A n \in S : Layer(rows[n].type) # "L1"
  PROVE  /\ TableMoves(rows, ResolveEach(rows, S, reason, by))
         /\ Unmarked(rows, ResolveEach(rows, S, reason, by))
<1> DEFINE after == ResolveEach(rows, S, reason, by)
           closing == Closing(rows, S)
           symptoms == OpenSymptoms(rows, closing) \ closing
<1>1. /\ DOMAIN after = DOMAIN rows
      /\ \A n \in DOMAIN rows : after[n] =
           IF n \in closing THEN Resolved(rows[n], reason, by)
           ELSE IF n \notin symptoms THEN rows[n]
           ELSE IF reason = "auto_cleared" THEN Released(rows[n])
           ELSE Resolved(rows[n], "root_cause_resolved", by)
  BY DEF ResolveEach
<1>2. /\ \A n \in DOMAIN rows : rows[n] \in Incident
      /\ \A n \in closing : n \in DOMAIN rows /\ n \in S /\ rows[n].status = "open"
      /\ NoId \notin closing
  BY DEF Sound, Table, Closing, Open, Ids, NoId
<1>3. \A n \in symptoms : /\ n \in DOMAIN rows /\ rows[n].status = "open"
                          /\ rows[n].stage = "suppressed" /\ rows[n].root \in closing
                          /\ Layer(rows[rows[n].root].type) = "L1"
  BY <1>2 DEF OpenSymptoms, Sound, TreeOf, OpenSymptom, Open
<1>4. symptoms # {} => reason # "auto_healed"
  BY <1>2, <1>3
<1> HIDE DEF after, closing, symptoms
<1>5. ASSUME NEW n \in DOMAIN rows
      PROVE  /\ Moves(rows[n], after[n])
             /\ Open(after, n) => after[n].cleared = rows[n].cleared
             /\ Open(after, n) => n \notin closing
             /\ n \notin symptoms /\ n \notin closing => after[n].root = rows[n].root
             /\ Open(after, n) /\ n \in symptoms => after[n].root = NoId
             /\ n \in closing => after[n].reason = reason /\ after[n].by = by
             /\ Open(rows, n) /\ ~Open(after, n) /\ n \notin closing =>
                  /\ n \in symptoms /\ reason \notin AutoReasons
                  /\ after[n].root = rows[n].root /\ after[n].by = by
  <2>1. rows[n] \in Incident
    BY <1>2
  <2>2. CASE n \in closing
    <3>1. after[n] = Resolved(rows[n], reason, by)
      BY <1>1, <2>2
    <3> QED
      BY <1>2, <2>1, <2>2, <3>1, ClosedMoves, ResolvedRow DEF Open
  <2>3. CASE n \notin closing /\ n \notin symptoms
    BY <1>1, <2>1, <2>3, StillMoves DEF Open
  <2>4. CASE n \in symptoms /\ n \notin closing /\ reason = "auto_cleared"
    <3>1. after[n] = Released(rows[n])
      BY <1>1, <2>4
    <3>2. rows[n].status = "open" /\ rows[n].stage \notin HUMAN_OWNED_STAGES
      BY <1>3, <2>4 DEF HUMAN_OWNED_STAGES
    <3> QED
      BY <2>1, <2>4, <3>1, <3>2, ReleasedRow, ReleasedRest, RestagedMoves DEF SameRest, Open
  <2>5. CASE n \in symptoms /\ n \notin closing /\ reason # "auto_cleared"
    <3>1. after[n] = Resolved(rows[n], "root_cause_resolved", by)
      BY <1>1, <2>5
    <3>2. /\ reason \notin AutoReasons /\ "root_cause_resolved" \notin AutoReasons
          /\ by \in Principals /\ rows[n].status = "open"
      BY <1>3, <1>4, <2>5 DEF AutoReasons
    <3> QED
      BY <2>1, <2>5, <3>1, <3>2, SystemReasons, ClosedMoves, ResolvedRow DEF Open
  <2> QED
    BY <2>2, <2>3, <2>4, <2>5
<1>6. ASSUME NEW n \in DOMAIN rows
      PROVE  StaysLinked(rows, after, n)
  <2>1. n \in symptoms => rows[n].root \in DOMAIN rows /\ rows[n].root \in closing
    BY <1>2, <1>3
  <2> QED
    BY <1>5, <2>1 DEF StaysLinked
<1>7. ASSUME NEW n \in DOMAIN rows, Open(rows, n), ~Open(after, n)
      PROVE  WentWithRoot(after, n)
  <2>1. CASE n \in closing
    <3>1. after[n].reason # "root_cause_resolved"
      BY <1>5, <2>1 DEF AutoReasons, USER_RESOLUTION_REASONS
    <3> QED
      BY <3>1 DEF WentWithRoot
  <2>2. CASE n \notin closing
    <3>1. /\ n \in symptoms /\ reason \notin AutoReasons
          /\ after[n].root = rows[n].root /\ after[n].by = by
      BY <1>5, <1>7, <2>2
    <3>2. rows[n].root \in closing /\ rows[n].root \in DOMAIN rows
      BY <1>2, <1>3, <3>1
    <3>3. /\ ~Open(after, rows[n].root) /\ after[rows[n].root].by = by
          /\ after[rows[n].root].reason \in USER_RESOLUTION_REASONS
      BY <1>5, <3>1, <3>2
    <3> QED
      BY <1>1, <3>1, <3>2, <3>3 DEF WentWithRoot
  <2> QED
    BY <2>1, <2>2
<1> QED
  BY <1>1, <1>5, <1>6, <1>7 DEF TableMoves, Unmarked, after

\* Rows nobody owns are handed to triage.
LEMMA EscalatedMoves ==
  ASSUME NEW rows, Sound(rows), NEW E \in SUBSET DOMAIN rows,
         \A n \in E : Open(rows, n) /\ rows[n].stage \notin HUMAN_OWNED_STAGES
  PROVE  TableMoves(rows, Escalated(rows, E)) /\ Unmarked(rows, Escalated(rows, E))
<1> DEFINE after == Escalated(rows, E)
<1>1. /\ DOMAIN after = DOMAIN rows
      /\ \A n \in DOMAIN rows :
           after[n] = IF n \in E THEN SetStage(rows[n], "triage") ELSE rows[n]
  BY DEF Escalated
<1> HIDE DEF after
<1>2. ASSUME NEW n \in DOMAIN rows
      PROVE  /\ Moves(rows[n], after[n]) /\ after[n].root = rows[n].root
             /\ after[n].cleared = rows[n].cleared /\ after[n].status = rows[n].status
  <2>1. rows[n] \in Incident /\ "triage" \in IncidentStage
    BY DEF Sound, Table, IncidentStage
  <2>2. CASE n \in E
    BY <1>1, <2>1, <2>2, SetStageRow, SetStageRest, RestagedMoves DEF SameRest, Open
  <2>3. CASE n \notin E
    BY <1>1, <2>1, <2>3, StillMoves
  <2> QED
    BY <2>2, <2>3
<1> QED
  BY <1>1, <1>2 DEF TableMoves, StaysLinked, Unmarked, Open, after

\* A playbook touches the row's stage and counts itself, no other column.
LEMMA HealedRest ==
  ASSUME NEW row \in Incident, NEW n, NEW fixed
  PROVE  LET after == HealedIn(row, n, fixed) IN
         /\ after.router = row.router /\ after.iface = row.iface /\ after.peering = row.peering
         /\ after.owner = row.owner /\ after.cleared = row.cleared /\ after.age = row.age
<1> DEFINE run == [row EXCEPT !.playbooks = @ + 1]
<1>1. /\ run \in Incident /\ run.router = row.router /\ run.iface = row.iface
      /\ run.peering = row.peering /\ run.owner = row.owner
      /\ run.cleared = row.cleared /\ run.age = row.age
  BY DEF Incident
<1>2. "triage" \in IncidentStage /\ "monitoring" \in IncidentStage
  BY DEF IncidentStage
<1> DEFINE answer == n \in fixed
<1>3. answer \in BOOLEAN /\ HealedIn(row, n, fixed) = Healed(row, answer)
  BY DEF HealedIn
<1> HIDE DEF run, answer
<1>4. \/ Healed(row, answer) = SetStage(row, "triage")
      \/ Healed(row, answer) = SetStage(run, "triage")
      \/ Healed(row, answer) = SetStage(run, "monitoring")
      \/ Healed(row, answer) = run
  BY <1>3 DEF Healed, run
<1> QED
  BY <1>1, <1>2, <1>3, <1>4, SetStageRow, SetStageRest DEF SameRest

\* The playbooks of one batch.
LEMMA HealedRowsMove ==
  ASSUME IInv, autoHeal, NEW B \in SUBSET Ready(incidents), NEW fixed
  PROVE  /\ TableMoves(incidents, HealedRows(B, fixed))
         /\ Unmarked(incidents, HealedRows(B, fixed))
<1> DEFINE healed == HealedRows(B, fixed)
<1>1. /\ Sound(incidents)
      /\ \A n \in DOMAIN incidents : incidents[n] \in Incident
  BY SoundIncidents
<1>2. /\ DOMAIN healed = DOMAIN incidents
      /\ \A n \in DOMAIN incidents :
           healed[n] = IF n \in B THEN HealedIn(incidents[n], n, fixed) ELSE incidents[n]
  BY DEF HealedRows
<1> HIDE DEF healed
<1>3. ASSUME NEW n \in DOMAIN incidents
      PROVE  /\ Moves(incidents[n], healed[n]) /\ healed[n].root = incidents[n].root
             /\ healed[n].cleared = incidents[n].cleared
             /\ healed[n].status = incidents[n].status
  <2>1. CASE n \in B
    <3>1. healed[n] = HealedIn(incidents[n], n, fixed) /\ incidents[n] \in Incident
      BY <1>1, <1>2, <2>1
    <3>2. incidents[n].status = "open" /\ incidents[n].stage \notin HUMAN_OWNED_STAGES
      BY <2>1, ReadyRows DEF Open, HUMAN_OWNED_STAGES
    <3>3. /\ healed[n] \in Incident /\ healed[n].status = "open"
          /\ healed[n].root = incidents[n].root /\ healed[n].type = incidents[n].type
      BY <3>1, <3>2, HealedInRow
    <3>4. /\ healed[n].router = incidents[n].router /\ healed[n].iface = incidents[n].iface
          /\ healed[n].peering = incidents[n].peering /\ healed[n].owner = incidents[n].owner
          /\ healed[n].cleared = incidents[n].cleared /\ healed[n].age = incidents[n].age
      BY <3>1, HealedRest
    <3> QED
      BY <3>1, <3>2, <3>3, <3>4, RestagedMoves
  <2>2. CASE n \notin B
    BY <1>1, <1>2, <2>2, StillMoves
  <2> QED
    BY <2>1, <2>2
<1> QED
  BY <1>2, <1>3 DEF TableMoves, StaysLinked, Unmarked, Open, healed

\* One batch of the sweeper's judgements.
LEMMA JudgedMoves ==
  ASSUME IInv, NEW B \in SUBSET Ready(incidents), NEW fixed
  PROVE  /\ TableMoves(incidents, Judged(B, fixed))
         /\ Unmarked(incidents, Judged(B, fixed))
<1>1. CASE autoHeal
  <2> DEFINE healed == HealedRows(B, fixed)
             S == AutoHealed(B, fixed)
             judged == ResolveEach(healed, S, "auto_healed", SYSTEM)
  <2>1. Sound(healed) /\ DOMAIN healed = DOMAIN incidents /\ Sound(incidents)
    BY HealedRowsSound, SoundIncidents
  <2>2. TableMoves(incidents, healed) /\ Unmarked(incidents, healed)
    BY <1>1, HealedRowsMove
  <2>3. S \in SUBSET DOMAIN healed /\ Judged(B, fixed) = judged
    BY <1>1, <2>1, JudgedRows
  <2>4. \A n \in S : Layer(healed[n].type) # "L1"
    <3>1. \A n \in S : n \in DOMAIN incidents /\ incidents[n].type \in REMEDIATION_PLAN
      BY <2>1, <2>3 DEF AutoHealed
    <3>2. \A n \in S : healed[n].type \in REMEDIATION_PLAN
      BY <2>2, <3>1 DEF TableMoves, Moves
    <3> QED
      BY <3>2 DEF Layer, REMEDIATION_PLAN
  <2> HIDE DEF healed, S
  <2>5. "auto_healed" \in AutoReasons
    BY DEF AutoReasons
  <2>6. Sound(judged) /\ DOMAIN judged = DOMAIN healed
    BY <2>1, <2>3, SystemReasons, ResolveEachSound
  <2>7. TableMoves(healed, judged) /\ Unmarked(healed, judged)
    BY <1>1, <2>1, <2>3, <2>4, <2>5, SystemReasons, ResolveEachMoves
  <2> HIDE DEF judged
  <2> QED
    BY <2>1, <2>2, <2>3, <2>6, <2>7, TableMovesOn, UnmarkedOn
<1>2. CASE ~autoHeal
  <2>1. Judged(B, fixed) = Escalated(incidents, B)
    BY <1>2, JudgedRows
  <2>2. /\ B \in SUBSET DOMAIN incidents
        /\ \A n \in B : Open(incidents, n) /\ incidents[n].stage \notin HUMAN_OWNED_STAGES
    BY ReadyRows DEF HUMAN_OWNED_STAGES
  <2> QED
    BY <2>1, <2>2, SoundIncidents, EscalatedMoves
<1> QED
  BY <1>1, <1>2

\* A condition the device reports gone: its incidents are resolved with their symptoms,
\* or only marked while auto-heal is off.
LEMMA AfterClearMoves ==
  ASSUME IInv, NEW types, NEW r, NEW i
  PROVE  /\ TableMoves(incidents, AfterClear(types, r, i))
         /\ autoHeal \/ types \cap LINK_TYPES = {} =>
              Unmarked(incidents, AfterClear(types, r, i))
<1> DEFINE C == {n \in DOMAIN incidents : /\ incidents[n].router = r
                                          /\ incidents[n].iface = i
                                          /\ incidents[n].type \in types
                                          /\ Open(incidents, n)}
           marked == [n \in DOMAIN incidents |->
                        IF n \in C THEN [incidents[n] EXCEPT !.cleared = TRUE]
                                   ELSE incidents[n]]
<1>1. /\ Sound(incidents)
      /\ \A n \in DOMAIN incidents : incidents[n] \in Incident
  BY SoundIncidents
<1>2. /\ C \in SUBSET DOMAIN incidents
      /\ \A n \in C : Open(incidents, n) /\ incidents[n].type \in types
  OBVIOUS
<1> HIDE DEF C
<1>3. CASE autoHeal
  <2>1. AfterClear(types, r, i) = ResolveEach(incidents, C, "auto_cleared", SYSTEM)
    BY <1>3 DEF AfterClear, C
  <2>2. "auto_cleared" \in AutoReasons
    BY DEF AutoReasons
  <2> QED
    BY <1>1, <1>2, <1>3, <2>1, <2>2, SystemReasons, ResolveEachMoves
<1>4. CASE ~autoHeal
  <2>1. AfterClear(types, r, i) = marked
    BY <1>4 DEF AfterClear, C
  <2>2. /\ DOMAIN marked = DOMAIN incidents
        /\ \A n \in DOMAIN incidents :
             marked[n] = IF n \in C THEN [incidents[n] EXCEPT !.cleared = TRUE]
                                    ELSE incidents[n]
    OBVIOUS
  <2> HIDE DEF marked
  <2>3. ASSUME NEW n \in DOMAIN incidents
        PROVE  /\ Moves(incidents[n], marked[n]) /\ marked[n].root = incidents[n].root
               /\ n \notin C => marked[n].cleared = incidents[n].cleared
               /\ marked[n].status = incidents[n].status
    <3>1. incidents[n] \in Incident
      BY <1>1
    <3>2. CASE n \in C
      <4> DEFINE row == [incidents[n] EXCEPT !.cleared = TRUE]
      <4>1. /\ row \in Incident /\ row.status = incidents[n].status
            /\ row.router = incidents[n].router /\ row.type = incidents[n].type
            /\ row.iface = incidents[n].iface /\ row.peering = incidents[n].peering
            /\ row.stage = incidents[n].stage /\ row.owner = incidents[n].owner
            /\ row.playbooks = incidents[n].playbooks /\ row.root = incidents[n].root
            /\ row.age = incidents[n].age
        BY <3>1 DEF Incident
      <4>2. marked[n] = row /\ incidents[n].status = "open"
        BY <1>2, <2>2, <3>2 DEF Open
      <4>3. incidents[n].age \in Nat
        BY <3>1 DEF Incident
      <4> HIDE DEF row
      <4> QED
        BY <3>1, <3>2, <4>1, <4>2, <4>3, AnnotatedMoves
    <3>3. CASE n \notin C
      BY <2>2, <3>1, <3>3, StillMoves
    <3> QED
      BY <3>2, <3>3
  <2>4. TableMoves(incidents, marked)
    BY <2>2, <2>3 DEF TableMoves, StaysLinked, Open
  <2>5. types \cap LINK_TYPES = {} => Unmarked(incidents, marked)
    BY <1>2, <2>3 DEF Unmarked
  <2> QED
    BY <1>4, <2>1, <2>4, <2>5
<1> QED
  BY <1>3, <1>4

-----------------------------------------------------------------------------
(* Part 2: the actions                                                     *)

\* What a transaction that inserts and deletes no incident does.
Quiet ==
  /\ DOMAIN incidents' = DOMAIN incidents /\ nextId' = nextId
  /\ TableMoves(incidents, incidents')

\* A sweep is quiet, moves rows one way, and takes no mark.
LEMMA SweepMoves ==
  ASSUME IInv, Sweep
  PROVE  Quiet /\ Write(incidents') /\ Unmarked(incidents, incidents')
<1>1. PICK B \in OldestBatch(incidents, Ready(incidents)) :
        \E fixed \in SUBSET B :
          \E E \in Batch(Overdue(Judged(B, fixed))) : Write(Escalated(Judged(B, fixed), E))
  BY DEF Sweep
<1>2. PICK fixed \in SUBSET B :
        \E E \in Batch(Overdue(Judged(B, fixed))) : Write(Escalated(Judged(B, fixed), E))
  BY <1>1
<1> DEFINE judged == Judged(B, fixed)
<1>3. PICK E \in Batch(Overdue(judged)) : Write(Escalated(judged, E))
  BY <1>2
<1>4. B \in SUBSET Ready(incidents)
  BY DEF OldestBatch, Batch
<1>5. Sound(judged) /\ DOMAIN judged = DOMAIN incidents /\ Sound(incidents)
  BY <1>4, JudgedSound, SoundIncidents
<1>6. TableMoves(incidents, judged) /\ Unmarked(incidents, judged)
  BY <1>4, JudgedMoves
<1> HIDE DEF judged
<1>7. E \in SUBSET Overdue(judged)
  BY DEF Batch
<1>8. \A n \in E : /\ n \in DOMAIN judged /\ Open(judged, n)
                   /\ judged[n].stage \notin HUMAN_OWNED_STAGES
                   /\ judged[n].stage = "monitoring"
  BY <1>7 DEF Overdue, HUMAN_OWNED_STAGES
<1>9. \A n \in E : judged[n].root = NoId
  <2>1. TreeOf(judged)
    BY <1>5 DEF Sound
  <2> QED
    BY <1>8, <2>1 DEF TreeOf, OpenSymptom
<1> DEFINE after == Escalated(judged, E)
<1>10. Sound(after) /\ DOMAIN after = DOMAIN judged
  BY <1>5, <1>8, <1>9, EscalatedSound
<1>11. TableMoves(judged, after) /\ Unmarked(judged, after)
  BY <1>5, <1>8, EscalatedMoves
<1>12. incidents' = after /\ nextId' = nextId /\ Write(after)
  BY <1>3 DEF Write
<1> HIDE DEF after
<1>13. TableMoves(incidents, after) /\ Unmarked(incidents, after)
  BY <1>5, <1>6, <1>10, <1>11, TableMovesOn, UnmarkedOn
<1> QED
  BY <1>5, <1>10, <1>12, <1>13 DEF Quiet

\* An operator's resolution is the operator's, cascade and all.
LEMMA ResolveByUserMoves ==
  ASSUME IInv, NEW S \in SUBSET DOMAIN incidents, NEW principal \in Principals,
         NEW reason \in OperatorReasons, ResolveByUser(S, principal, reason)
  PROVE  Quiet /\ Write(incidents') /\ Unmarked(incidents, incidents')
<1> DEFINE asked == {n \in S : incidents[n].root = NoId}
           rows == ResolveEach(incidents, asked, reason, principal)
<1>1. reason \in ResolutionReason /\ asked \in SUBSET DOMAIN incidents
  BY InputAssumption DEF ResolutionReason
<1>2. reason \notin AutoReasons /\ reason \in USER_RESOLUTION_REASONS
  BY InputAssumption DEF AutoReasons, USER_RESOLUTION_REASONS
<1>3. Write(rows)
  BY DEF ResolveByUser
<1> HIDE DEF asked
<1>4. Sound(incidents) /\ reason # "auto_healed"
  BY <1>2, SoundIncidents DEF AutoReasons
<1>5. TableMoves(incidents, rows) /\ Unmarked(incidents, rows)
  BY <1>1, <1>2, <1>4, ResolveEachMoves
<1>6. DOMAIN rows = DOMAIN incidents
  BY <1>1, <1>4, ResolveEachSound
<1> HIDE DEF rows
<1> QED
  BY <1>3, <1>5, <1>6 DEF Quiet, Write

\* So is a bulk resolve.
LEMMA ResetAllOpenMoves ==
  ASSUME IInv, NEW withRoot \in SUBSET DOMAIN incidents, NEW principal \in Principals,
         ResetAllOpen(withRoot, principal)
  PROVE  Quiet /\ Write(incidents') /\ Unmarked(incidents, incidents')
<1>1. \A n \in DOMAIN incidents : incidents[n] \in Incident
  BY SoundIncidents
<1> DEFINE open == {n \in DOMAIN incidents : Open(incidents, n)}
<1>2. /\ DOMAIN incidents' = DOMAIN incidents /\ withRoot \subseteq OpenSymptoms(incidents, open)
      /\ \A n \in DOMAIN incidents : incidents'[n] =
           IF n \notin open THEN incidents[n]
           ELSE IF n \in withRoot THEN Resolved(incidents[n], "root_cause_resolved", principal)
           ELSE Resolved(incidents[n], "reset", principal)
      /\ nextId' = nextId /\ Write(incidents')
  BY DEF ResetAllOpen, Write
<1>3. \A n \in withRoot : /\ incidents[n].root \in open /\ incidents[n].root \in DOMAIN incidents
                          /\ incidents[n].root # NoId /\ incidents[incidents[n].root].root = NoId
  <2>1. TreeOf(incidents) /\ NoId \notin DOMAIN incidents
    BY SoundIncidents DEF Sound, Table, Ids, NoId
  <2> QED
    BY <1>2, <2>1 DEF OpenSymptoms, TreeOf, OpenSymptom
<1>4. "root_cause_resolved" \notin AutoReasons /\ "reset" \notin AutoReasons
  BY DEF AutoReasons
<1>5. ASSUME NEW n \in DOMAIN incidents
      PROVE  /\ Moves(incidents[n], incidents'[n]) /\ ~Open(incidents', n)
             /\ Open(incidents, n) =>
                  /\ incidents'[n].by = principal /\ incidents'[n].root = incidents[n].root
                  /\ n \notin withRoot => incidents'[n].reason = "reset"
  <2>1. incidents[n] \in Incident
    BY <1>1
  <2>2. CASE n \notin open
    BY <1>2, <2>1, <2>2, StillMoves DEF Open
  <2>3. CASE n \in open \ withRoot
    BY <1>2, <1>4, <2>1, <2>3, SystemReasons, ClosedMoves, ResolvedRow DEF Open
  <2>4. CASE n \in open /\ n \in withRoot
    BY <1>2, <1>4, <2>1, <2>4, SystemReasons, ClosedMoves, ResolvedRow DEF Open
  <2> QED
    BY <2>2, <2>3, <2>4
<1>6. ASSUME NEW n \in DOMAIN incidents, Open(incidents, n)
      PROVE  WentWithRoot(incidents', n)
  <2>1. CASE n \in withRoot
    <3>1. incidents[n].root \in open \ withRoot /\ incidents[n].root \in DOMAIN incidents
      BY <1>3, <2>1
    <3> QED
      BY <1>2, <1>5, <1>6, <3>1 DEF WentWithRoot
  <2>2. CASE n \notin withRoot
    BY <1>5, <1>6, <2>2 DEF WentWithRoot
  <2> QED
    BY <2>1, <2>2
<1> QED
  BY <1>2, <1>5, <1>6 DEF Quiet, TableMoves, StaysLinked, Unmarked

\* The operator's touch on an incident makes it human-owned.
LEMMA OperatorMoves ==
  ASSUME IInv, NEW n \in DOMAIN incidents, NEW principal \in Principals,
         Acknowledge(n, principal) \/ Dispatch(n, principal)
  PROVE  /\ Quiet /\ Unmarked(incidents, incidents') /\ routers' = routers
         /\ \A m \in DOMAIN incidents : Open(incidents', m) <=> Open(incidents, m)
<1> DEFINE acknowledged == IF incidents[n].stage = "dispatched" THEN incidents[n]
                           ELSE SetStage(incidents[n], "acknowledged")
           dispatched == SetStage(incidents[n], "dispatched")
           owner == IF incidents[n].owner = Nobody THEN UserOf(principal)
                    ELSE incidents[n].owner
<1>1. /\ \A m \in DOMAIN incidents : incidents[m] \in Incident
      /\ incidents[n].status = "open"
  BY SoundIncidents DEF Acknowledge, Dispatch, Actionable, Open
<1>2. "acknowledged" \in IncidentStage /\ "dispatched" \in IncidentStage
  BY DEF IncidentStage
<1>3. PICK staged \in Incident, user \in Users \cup {Nobody} :
        /\ staged.status = "open" /\ staged.stage \in HUMAN_OWNED_STAGES
        /\ staged.router = incidents[n].router /\ staged.type = incidents[n].type
        /\ staged.root = incidents[n].root /\ staged.age = incidents[n].age
        /\ SameRest(incidents[n], staged)
        /\ incidents' = [incidents EXCEPT ![n] = [staged EXCEPT !.owner = user]]
  <2>1. CASE Acknowledge(n, principal)
    <3>1. /\ acknowledged \in Incident /\ acknowledged.status = "open"
          /\ acknowledged.stage \in HUMAN_OWNED_STAGES
          /\ acknowledged.router = incidents[n].router /\ acknowledged.type = incidents[n].type
          /\ acknowledged.root = incidents[n].root /\ acknowledged.age = incidents[n].age
          /\ SameRest(incidents[n], acknowledged)
      BY <1>1, <1>2, SetStageRow, SetStageRest DEF SameRest, HUMAN_OWNED_STAGES
    <3>2. incidents' = [incidents EXCEPT ![n] = [acknowledged EXCEPT !.owner = UserOf(principal)]]
      BY <2>1 DEF Acknowledge, Acknowledged
    <3> HIDE DEF acknowledged
    <3> QED
      BY <3>1, <3>2, UserOfTyped
  <2>2. CASE Dispatch(n, principal)
    <3>1. /\ dispatched \in Incident /\ dispatched.status = "open"
          /\ dispatched.stage \in HUMAN_OWNED_STAGES
          /\ dispatched.router = incidents[n].router /\ dispatched.type = incidents[n].type
          /\ dispatched.root = incidents[n].root /\ dispatched.age = incidents[n].age
          /\ SameRest(incidents[n], dispatched)
      BY <1>1, <1>2, SetStageRow, SetStageRest DEF HUMAN_OWNED_STAGES
    <3>2. incidents' = [incidents EXCEPT ![n] = [dispatched EXCEPT !.owner = owner]]
      BY <2>2 DEF Dispatch, Dispatched
    <3>3. owner \in Users \cup {Nobody}
      BY <1>1, UserOfTyped DEF Incident
    <3> HIDE DEF dispatched, owner
    <3> QED
      BY <3>1, <3>2, <3>3
  <2> QED
    BY <2>1, <2>2
<1> DEFINE row == [staged EXCEPT !.owner = user]
<1>4. /\ row.status = "open" /\ row.stage \in HUMAN_OWNED_STAGES
      /\ row.router = incidents[n].router /\ row.type = incidents[n].type
      /\ row.iface = incidents[n].iface /\ row.peering = incidents[n].peering
      /\ row.root = incidents[n].root /\ row.age = incidents[n].age
      /\ row.playbooks = incidents[n].playbooks /\ row.cleared = incidents[n].cleared
  BY <1>3 DEF SameRest, Incident
<1>5. /\ DOMAIN incidents' = DOMAIN incidents /\ incidents'[n] = row
      /\ \A m \in DOMAIN incidents : m # n => incidents'[m] = incidents[m]
      /\ nextId' = nextId /\ routers' = routers
  BY <1>3 DEF Acknowledge, Dispatch
<1> HIDE DEF row
<1>6. incidents[n].age \in Nat
  BY <1>1 DEF Incident
<1>7. Moves(incidents[n], row)
  BY <1>1, <1>4, <1>6 DEF Moves
<1>8. \A m \in DOMAIN incidents :
        /\ Moves(incidents[m], incidents'[m]) /\ incidents'[m].root = incidents[m].root
        /\ incidents'[m].status = incidents[m].status
        /\ incidents'[m].cleared = incidents[m].cleared
  BY <1>1, <1>4, <1>5, <1>7, StillMoves
<1> QED
  BY <1>5, <1>8 DEF Quiet, TableMoves, StaysLinked, Unmarked, Open

\* Time only ages the open incidents.
LEMMA TickMoves ==
  ASSUME IInv, Tick
  PROVE  /\ Quiet /\ Unmarked(incidents, incidents') /\ routers' = routers
         /\ \A n \in DOMAIN incidents : Open(incidents', n) <=> Open(incidents, n)
<1> DEFINE aged(n) == Older(incidents[n].age, AgeCap)
           staged(n) == Older(incidents[n].stageAge, StageAgeCap(incidents[n].stage))
<1>1. /\ incidents' = [n \in DOMAIN incidents |->
                         IF Open(incidents, n)
                           THEN [incidents[n] EXCEPT !.age = aged(n), !.stageAge = staged(n)]
                           ELSE incidents[n]]
      /\ nextId' = nextId /\ routers' = routers
  BY DEF Tick
<1>2. \A n \in DOMAIN incidents : incidents[n] \in Incident
  BY SoundIncidents
<1>3. \A n \in DOMAIN incidents : incidents[n].age <= aged(n)
  <2> TAKE n \in DOMAIN incidents
  <2>1. incidents[n].age \in 0 .. AgeCap /\ AgeCap \in Nat
    BY <1>2, BoundAssumption DEF Incident, AgeCap
  <2> QED
    BY <2>1 DEF Older
<1> HIDE DEF aged, staged
<1>4. ASSUME NEW n \in DOMAIN incidents
      PROVE  /\ Moves(incidents[n], incidents'[n]) /\ incidents'[n].root = incidents[n].root
             /\ incidents'[n].status = incidents[n].status
             /\ incidents'[n].cleared = incidents[n].cleared
  <2>1. incidents[n] \in Incident
    BY <1>2
  <2>2. CASE ~Open(incidents, n)
    <3>1. incidents'[n] = incidents[n]
      BY <1>1, <2>2
    <3> QED
      BY <2>1, <3>1, StillMoves
  <2>3. CASE Open(incidents, n)
    <3>1. incidents'[n] = [incidents[n] EXCEPT !.age = aged(n), !.stageAge = staged(n)]
      BY <1>1, <2>3
    <3>2. /\ incidents'[n].status = incidents[n].status /\ incidents'[n].root = incidents[n].root
          /\ incidents'[n].router = incidents[n].router /\ incidents'[n].type = incidents[n].type
          /\ incidents'[n].iface = incidents[n].iface
          /\ incidents'[n].peering = incidents[n].peering
          /\ incidents'[n].stage = incidents[n].stage /\ incidents'[n].owner = incidents[n].owner
          /\ incidents'[n].playbooks = incidents[n].playbooks
          /\ incidents'[n].cleared = incidents[n].cleared /\ incidents'[n].age = aged(n)
      BY <2>1, <3>1 DEF Incident
    <3> QED
      BY <1>3, <2>3, <3>2 DEF Moves, Open
  <2> QED
    BY <2>2, <2>3
<1>5. DOMAIN incidents' = DOMAIN incidents
  BY <1>1
<1> QED
  BY <1>1, <1>4, <1>5 DEF Quiet, TableMoves, StaysLinked, Unmarked, Open


\* An alarm as the traps hand it to open_or_bump: only an optical alarm is attributed to
\* a peering, and it is reported by the peering's side A.
Alarm(r, t, i, p) ==
  /\ r \in Routers /\ t \in AUTO_HEAL_ELIGIBLE_TYPES
  /\ i \in Ifaces \cup {NoIface} /\ p \in Peerings \cup {NoPeering}
  /\ p # NoPeering => t = "OPTICAL_ALARM" /\ r = SideA[p] /\ i = NoIface
  /\ OpenOrBump(r, t, i, p)

\* What an alarm leaves of the incidents that were there: none is closed, none is marked.
KeepsOpen ==
  \A n \in DOMAIN incidents :
    /\ n \in DOMAIN incidents'
    /\ incidents'[n].status = incidents[n].status
    /\ incidents'[n].cleared => incidents[n].cleared

\* A new incident: linked to a root cause if there is one, or the root of what it claims.
Opens(r, t, i, p) ==
  /\ nextId \notin DOMAIN incidents
  /\ DOMAIN incidents' = DOMAIN incidents \cup {nextId}
  /\ SameProblem(r, t, i, p) = {}
  /\ LET new == incidents'[nextId] IN
     /\ new.router = r /\ new.type = t /\ new.iface = i /\ new.peering = p
     /\ new.status = "open" /\ new.owner = Nobody /\ ~new.cleared
     /\ \/ new.root = NoId /\ (Layer(t) = "L3" => OpenL1RootCauses(r, i) = {})
        \/ new.root \in OpenL1RootCauses(r, i)
  /\ \A n \in DOMAIN incidents :
       \/ incidents'[n].root = incidents[n].root
       \/ p # NoPeering /\ n \in L3Symptoms(p)
  /\ Layer(t) = "L1" /\ p # NoPeering =>
       \A n \in L3Symptoms(p) : incidents'[n].root = nextId

\* A repeat: the incident it is counted on is no longer marked as cleared.
Bumps(r, t, i, p) ==
  /\ DOMAIN incidents' = DOMAIN incidents
  /\ \A n \in DOMAIN incidents : incidents'[n].root = incidents[n].root
  /\ \E n \in SameProblem(r, t, i, p) : ~incidents'[n].cleared

\* An insertion leaves the rows there were as they are or makes them its symptoms.
LEMMA InsertMoves ==
  ASSUME IInv, NEW row, NEW claimed, Insert(row, claimed),
         \A n \in claimed : /\ n \in DOMAIN incidents /\ Open(incidents, n)
                            /\ incidents[n].root = NoId
                            /\ incidents[n].stage \notin HUMAN_OWNED_STAGES
  PROVE  /\ TableMoves(incidents, incidents') /\ KeepsOpen
         /\ nextId \notin DOMAIN incidents
         /\ DOMAIN incidents' = DOMAIN incidents \cup {nextId}
         /\ incidents'[nextId] = row
         /\ \A n \in claimed : incidents'[n].root = nextId
         /\ \A n \in DOMAIN incidents \ claimed : incidents'[n] = incidents[n]
<1> DEFINE new == nextId
           line(n) == IF n = new THEN row
                      ELSE IF n \in claimed THEN LinkSymptom(incidents[n], new)
                      ELSE incidents[n]
<1>1. /\ new \in Ids
      /\ incidents' = [n \in DOMAIN incidents \cup {new} |-> line(n)]
  BY DEF Insert
<1>2. /\ new \notin DOMAIN incidents
      /\ \A n \in DOMAIN incidents : incidents[n] \in Incident
  BY SoundIncidents
<1>3. /\ DOMAIN incidents' = DOMAIN incidents \cup {new}
      /\ \A n \in DOMAIN incidents \cup {new} : incidents'[n] = line(n)
  <2> HIDE DEF line
  <2> QED
    BY <1>1
<1>4. /\ incidents'[new] = row
      /\ \A n \in claimed : incidents'[n] = LinkSymptom(incidents[n], new)
      /\ \A n \in DOMAIN incidents \ claimed : incidents'[n] = incidents[n]
  BY <1>2, <1>3
<1> HIDE DEF line, new
<1>5. ASSUME NEW n \in DOMAIN incidents
      PROVE  /\ Moves(incidents[n], incidents'[n])
             /\ incidents'[n].status = incidents[n].status
             /\ incidents'[n].cleared = incidents[n].cleared
             /\ n \in claimed => incidents'[n].root = new
  <2>1. incidents[n] \in Incident
    BY <1>2
  <2>2. CASE n \in claimed
    <3>1. incidents'[n] = LinkSymptom(incidents[n], new) /\ incidents[n].status = "open"
      BY <1>4, <2>2 DEF Open
    <3> QED
      BY <1>1, <2>1, <2>2, <3>1, LinkSymptomRow, LinkSymptomRest, RestagedMoves DEF SameRest
  <2>3. CASE n \notin claimed
    BY <1>4, <2>1, <2>3, StillMoves
  <2> QED
    BY <2>2, <2>3
<1>6. \A n \in claimed : n \in DOMAIN incidents /\ incidents'[n].root = new
  BY <1>5
<1>7. TableMoves(incidents, incidents')
  <2>1. \A n \in DOMAIN incidents : StaysLinked(incidents, incidents', n)
    BY <1>2, <1>4, <1>6 DEF StaysLinked
  <2> QED
    BY <1>3, <1>5, <2>1 DEF TableMoves, Open
<1>8. KeepsOpen
  BY <1>3, <1>5 DEF KeepsOpen
<1> QED
  BY <1>2, <1>3, <1>4, <1>6, <1>7, <1>8 DEF new

\* An alarm repeats a problem or opens an incident for it.
LEMMA AlarmMoves ==
  ASSUME IInv, NEW r, NEW t, NEW i, NEW p, Alarm(r, t, i, p)
  PROVE  /\ TableMoves(incidents, incidents') /\ KeepsOpen
         /\ Bumps(r, t, i, p) \/ Opens(r, t, i, p)
<1>1. /\ Sound(incidents)
      /\ \A n \in DOMAIN incidents : incidents[n] \in Incident /\ n \in Ids
  BY SoundIncidents
<1> DEFINE row == NewIncident(r, t, i, p)
<1>2. /\ row \in Incident /\ row.router = r /\ row.type = t /\ row.iface = i /\ row.peering = p
      /\ row.status = "open" /\ row.owner = Nobody /\ row.cleared = FALSE /\ row.root = NoId
  BY NewIncidentRow DEF Alarm, NewIncident
<1> HIDE DEF row
<1>3. CASE \E n \in SameProblem(r, t, i, p) : Bump(n)
  <2>1. PICK n \in SameProblem(r, t, i, p) : Bump(n)
    BY <1>3
  <2>2. /\ n \in DOMAIN incidents /\ Open(incidents, n)
        /\ incidents' = [incidents EXCEPT ![n].cleared = FALSE]
    BY <2>1 DEF SameProblem, Bump
  <2> DEFINE bumped == [incidents[n] EXCEPT !.cleared = FALSE]
  <2>3. /\ DOMAIN incidents' = DOMAIN incidents /\ incidents'[n] = bumped
        /\ \A m \in DOMAIN incidents : m # n => incidents'[m] = incidents[m]
    BY <2>2
  <2>4. /\ bumped \in Incident /\ bumped.status = incidents[n].status
        /\ bumped.router = incidents[n].router /\ bumped.type = incidents[n].type
        /\ bumped.iface = incidents[n].iface /\ bumped.peering = incidents[n].peering
        /\ bumped.stage = incidents[n].stage /\ bumped.owner = incidents[n].owner
        /\ bumped.playbooks = incidents[n].playbooks /\ bumped.root = incidents[n].root
        /\ bumped.age = incidents[n].age /\ bumped.cleared = FALSE
    <3>1. incidents[n] \in Incident
      BY <1>1, <2>2
    <3> QED
      BY <3>1 DEF Incident
  <2>5. incidents[n].age \in Nat /\ incidents[n].status = "open"
    BY <1>1, <2>2 DEF Incident, Open
  <2> HIDE DEF bumped
  <2>6. Moves(incidents[n], bumped)
    BY <1>1, <2>2, <2>4, <2>5, AnnotatedMoves
  <2>7. \A m \in DOMAIN incidents :
          /\ Moves(incidents[m], incidents'[m]) /\ incidents'[m].root = incidents[m].root
          /\ incidents'[m].status = incidents[m].status
          /\ incidents'[m].cleared => incidents[m].cleared
    BY <1>1, <2>3, <2>4, <2>6, StillMoves
  <2>8. TableMoves(incidents, incidents') /\ KeepsOpen
    BY <2>3, <2>7 DEF TableMoves, StaysLinked, KeepsOpen, Open
  <2>9. Bumps(r, t, i, p)
    BY <2>1, <2>3, <2>4, <2>7 DEF Bumps
  <2> QED
    BY <2>8, <2>9
<1>4. CASE SameProblem(r, t, i, p) = {} /\ Layer(t) = "L3" /\ OpenL3(r, t, i, p)
  <2>1. ASSUME NEW inserted, Insert(inserted, {}),
               /\ inserted.router = r /\ inserted.type = t /\ inserted.iface = i
               /\ inserted.peering = p /\ inserted.status = "open"
               /\ inserted.owner = Nobody /\ ~inserted.cleared,
               \/ inserted.root = NoId /\ OpenL1RootCauses(r, i) = {}
               \/ inserted.root \in OpenL1RootCauses(r, i)
        PROVE  TableMoves(incidents, incidents') /\ KeepsOpen /\ Opens(r, t, i, p)
    <3>1. /\ TableMoves(incidents, incidents') /\ KeepsOpen
          /\ nextId \notin DOMAIN incidents
          /\ DOMAIN incidents' = DOMAIN incidents \cup {nextId}
          /\ incidents'[nextId] = inserted
          /\ \A n \in DOMAIN incidents : incidents'[n] = incidents[n]
      BY <2>1, InsertMoves
    <3>2. Layer(t) # "L1"
      BY <1>4
    <3> HIDE DEF Layer
    <3> QED
      BY <1>4, <2>1, <3>1, <3>2 DEF Opens
  <2>2. CASE OpenL1RootCauses(r, i) = {}
    <3>1. Insert(row, {})
      BY <1>4, <2>2 DEF OpenL3, row
    <3> QED
      BY <1>2, <2>1, <2>2, <3>1
  <2>3. CASE OpenL1RootCauses(r, i) # {}
    <3>1. PICK root \in OpenL1RootCauses(r, i) : Insert(LinkSymptom(row, root), {})
      BY <1>4, <2>3 DEF OpenL3, row
    <3>2. root \in Ids
      BY <1>1 DEF OpenL1RootCauses, RootCandidates
    <3> QED
      BY <1>2, <2>1, <3>1, <3>2, LinkSymptomRow, LinkSymptomRest DEF SameRest
  <2> QED
    BY <2>1, <2>2, <2>3
<1>5. CASE SameProblem(r, t, i, p) = {} /\ Layer(t) # "L3" /\ OpenL1(r, t, i, p)
  <2> DEFINE claimed == IF p = NoPeering THEN {} ELSE L3Symptoms(p)
  <2>1. Insert(row, claimed)
    BY <1>5 DEF OpenL1, row
  <2>2. \A n \in claimed : /\ n \in DOMAIN incidents /\ Open(incidents, n)
                           /\ incidents[n].root = NoId
                           /\ incidents[n].stage \notin HUMAN_OWNED_STAGES
    BY DEF L3Symptoms
  <2>3. p # NoPeering => claimed = L3Symptoms(p)
    OBVIOUS
  <2>4. p = NoPeering => claimed = {}
    OBVIOUS
  <2> HIDE DEF claimed
  <2>5. /\ TableMoves(incidents, incidents') /\ KeepsOpen
        /\ nextId \notin DOMAIN incidents
        /\ DOMAIN incidents' = DOMAIN incidents \cup {nextId}
        /\ incidents'[nextId] = row
        /\ \A n \in claimed : incidents'[n].root = nextId
        /\ \A n \in DOMAIN incidents \ claimed : incidents'[n] = incidents[n]
    BY <2>1, <2>2, InsertMoves
  <2>6. \A n \in DOMAIN incidents :
          incidents'[n].root = incidents[n].root \/ (p # NoPeering /\ n \in L3Symptoms(p))
    BY <2>3, <2>4, <2>5
  <2> HIDE DEF Layer
  <2> QED
    BY <1>2, <1>5, <2>3, <2>5, <2>6 DEF Opens
<1> QED
  BY <1>3, <1>4, <1>5 DEF Alarm, OpenOrBump

\* Deleting a router leaves the incidents of the others, less the references to what
\* went with it.
Deletes(r) ==
  /\ routers' = [s \in Fleet \ {r} |-> routers[s]]
  /\ DOMAIN incidents' \subseteq DOMAIN incidents
  /\ \A n \in DOMAIN incidents : incidents[n].router # r => n \in DOMAIN incidents'
  /\ \A n \in DOMAIN incidents' :
       /\ incidents'[n] = [incidents[n] EXCEPT !.root = incidents'[n].root,
                                               !.peering = incidents'[n].peering]
       /\ \/ incidents'[n].peering = incidents[n].peering
          \/ incidents[n].peering \in Peerings /\ incidents'[n].peering = NoPeering
       /\ \/ incidents'[n].root = NoId
          \/ /\ incidents'[n].root = incidents[n].root
             /\ incidents[n].root \in DOMAIN incidents => incidents[n].root \in DOMAIN incidents'

\* The columns no deletion changes.
SameButReferences(a, b) ==
  /\ b.router = a.router /\ b.type = a.type /\ b.iface = a.iface
  /\ b.status = a.status /\ b.stage = a.stage /\ b.owner = a.owner /\ b.cleared = a.cleared
  /\ b.reason = a.reason /\ b.by = a.by /\ b.playbooks = a.playbooks

\* A row that survives a deletion changes nothing but its references.
LEMMA DeletesColumns ==
  ASSUME IInv, NEW r, Deletes(r), NEW n \in DOMAIN incidents'
  PROVE  n \in DOMAIN incidents /\ SameButReferences(incidents[n], incidents'[n])
<1> DEFINE root == incidents'[n].root
           peering == incidents'[n].peering
<1>1. n \in DOMAIN incidents /\ incidents[n] \in Incident
  BY SoundIncidents DEF Deletes
<1>2. incidents'[n] = [incidents[n] EXCEPT !.root = root, !.peering = peering]
  BY DEF Deletes
<1> HIDE DEF root, peering
<1> QED
  BY <1>1, <1>2 DEF SameButReferences, Incident

\* delete_router deletes, in the sense of Deletes.
LEMMA DeleteRouterMoves ==
  ASSUME IInv, NEW r, DeleteRouter(r)
  PROVE  Deletes(r)
<1> DEFINE dead == {n \in DOMAIN incidents : incidents[n].router = r}
           gone == {p \in Peerings : r \in {SideA[p], SideB[p]}}
           root(n) == IF incidents[n].root \in dead THEN NoId ELSE incidents[n].root
           peering(n) == IF incidents[n].peering \in gone THEN NoPeering
                         ELSE incidents[n].peering
<1>1. /\ incidents' = [n \in DOMAIN incidents \ dead |->
                         [incidents[n] EXCEPT !.root = root(n), !.peering = peering(n)]]
      /\ routers' = [s \in Fleet \ {r} |-> routers[s]]
  BY DEF DeleteRouter
<1>2. \A n \in DOMAIN incidents : incidents[n] \in Incident
  BY SoundIncidents
<1>3. \A n \in DOMAIN incidents : \/ peering(n) = incidents[n].peering
                                  \/ /\ incidents[n].peering \in Peerings
                                     /\ peering(n) = NoPeering
  OBVIOUS
<1>4. \A n \in DOMAIN incidents : incidents[n].router # r => n \notin dead
  OBVIOUS
<1> HIDE DEF dead, gone, peering
<1>5. \A n \in DOMAIN incidents :
        root(n) = NoId \/ (root(n) = incidents[n].root /\ incidents[n].root \notin dead)
  OBVIOUS
<1> HIDE DEF root
<1>6. ASSUME NEW n \in DOMAIN incidents \ dead
      PROVE  /\ incidents'[n] = [incidents[n] EXCEPT !.root = root(n), !.peering = peering(n)]
             /\ incidents'[n].root = root(n) /\ incidents'[n].peering = peering(n)
  BY <1>1, <1>2 DEF Incident
<1>7. DOMAIN incidents' = DOMAIN incidents \ dead
  BY <1>1
<1>8. ASSUME NEW n \in DOMAIN incidents'
      PROVE  /\ incidents'[n] = [incidents[n] EXCEPT !.root = incidents'[n].root,
                                                     !.peering = incidents'[n].peering]
             /\ \/ incidents'[n].peering = incidents[n].peering
                \/ incidents[n].peering \in Peerings /\ incidents'[n].peering = NoPeering
             /\ \/ incidents'[n].root = NoId
                \/ /\ incidents'[n].root = incidents[n].root
                   /\ incidents[n].root \in DOMAIN incidents =>
                        incidents[n].root \in DOMAIN incidents'
  <2>1. n \in DOMAIN incidents \ dead
    BY <1>7
  <2>2. /\ incidents'[n] = [incidents[n] EXCEPT !.root = root(n), !.peering = peering(n)]
        /\ incidents'[n].root = root(n) /\ incidents'[n].peering = peering(n)
    BY <1>6, <2>1
  <2>3. \/ peering(n) = incidents[n].peering
        \/ incidents[n].peering \in Peerings /\ peering(n) = NoPeering
    BY <1>3, <2>1
  <2>4. root(n) = NoId \/ (root(n) = incidents[n].root /\ incidents[n].root \notin dead)
    BY <1>5, <2>1
  <2> QED
    BY <1>7, <2>2, <2>3, <2>4
<1> QED
  BY <1>1, <1>4, <1>7, <1>8 DEF Deletes

\* A trap leaves the fleet as it is, and either is quiet or is an alarm.
LEMMA TrapMoves ==
  ASSUME IInv, Trap
  PROVE  /\ DOMAIN routers' = DOMAIN routers
         /\ Quiet \/ \E r, t, i, p : Alarm(r, t, i, p)
<1>1. TypeOK /\ Sound(incidents)
  BY SoundIncidents DEF IInv
<1>2. ASSUME NEW r \in Routers, NEW t \in AUTO_HEAL_ELIGIBLE_TYPES,
             NEW i \in Ifaces \cup {NoIface}, OpenOrBump(r, t, i, NoPeering)
      PROVE  \E s, u, j, p : Alarm(s, u, j, p)
  BY <1>2 DEF Alarm
<1>3. ASSUME NEW types, NEW r, NEW i, incidents' = AfterClear(types, r, i), nextId' = nextId
      PROVE  Quiet
  BY <1>3, AfterClearSound, AfterClearMoves DEF Quiet
<1>4. ASSUME NEW r, NEW t, NEW i, ClearTrap(r, t, i)
      PROVE  Quiet /\ DOMAIN routers' = DOMAIN routers
  BY <1>3, <1>4 DEF ClearTrap, Write, RefreshRouterLinkStatus, Fleet
<1>5. ASSUME NEW port \in LinkPorts,
             LinkFlap(port[1], port[2]) \/ LinkDown(port[1], port[2])
      PROVE  DOMAIN routers' = DOMAIN routers /\ \E r, t, i, p : Alarm(r, t, i, p)
  <2>1. port[1] \in Routers /\ port[2] \in Ifaces \cup {NoIface}
    BY InputAssumption, PortTyped
  <2> QED
    BY <1>2, <1>5, <2>1, LinkTypes DEF LinkFlap, LinkDown
<1>6. ASSUME NEW port \in LinkPorts, LinkUp(port[1], port[2])
      PROVE  Quiet /\ DOMAIN routers' = DOMAIN routers
  BY <1>3, <1>6 DEF LinkUp, RefreshRouterLinkStatus, Fleet
<1>7. ASSUME NEW port \in IsisPorts, IsisAdjacencyDown(port[1], port[2])
      PROVE  DOMAIN routers' = DOMAIN routers /\ \E r, t, i, p : Alarm(r, t, i, p)
  <2>1. port[1] \in Routers /\ port[2] \in Ifaces \cup {NoIface}
    BY InputAssumption, PortTyped
  <2>2. "ISIS_NBR_DOWN" \in AUTO_HEAL_ELIGIBLE_TYPES
    BY DEF AUTO_HEAL_ELIGIBLE_TYPES
  <2> QED
    BY <1>2, <1>7, <2>1, <2>2 DEF IsisAdjacencyDown, RaiseTrap
<1>8. ASSUME NEW alarm \in Raises, RaiseTrap(alarm[2], alarm[1], alarm[3])
      PROVE  DOMAIN routers' = DOMAIN routers /\ \E r, t, i, p : Alarm(r, t, i, p)
  <2>1. /\ alarm[1] \in AUTO_HEAL_ELIGIBLE_TYPES /\ alarm[2] \in Routers
        /\ alarm[3] \in Ifaces \cup {NoIface}
    BY InputAssumption
  <2> QED
    BY <1>2, <1>8, <2>1 DEF RaiseTrap
<1>9. ASSUME NEW p \in Peerings, FiberCut(p)
      PROVE  DOMAIN routers' = DOMAIN routers /\ \E r, t, i, q : Alarm(r, t, i, q)
  <2>1. SideA[p] \in Routers /\ "OPTICAL_ALARM" \in AUTO_HEAL_ELIGIBLE_TYPES
    BY TopologyAssumption DEF AUTO_HEAL_ELIGIBLE_TYPES
  <2>2. Alarm(SideA[p], "OPTICAL_ALARM", NoIface, p)
    BY <1>9, <2>1 DEF FiberCut, Alarm
  <2> QED
    BY <1>9, <2>2 DEF FiberCut
<1>10. ASSUME NEW p \in Peerings, FiberCutClear(p)
       PROVE  Quiet /\ DOMAIN routers' = DOMAIN routers
  <2> DEFINE rows == ResolveEach(incidents, FiberIncidents(p), "auto_cleared", SYSTEM)
  <2>1. Write(rows) /\ autoHeal
    BY <1>10 DEF FiberCutClear
  <2>2. FiberIncidents(p) \in SUBSET DOMAIN incidents
    BY DEF FiberIncidents
  <2>3. "auto_cleared" \in AutoReasons
    BY DEF AutoReasons
  <2>4. TableMoves(incidents, rows) /\ DOMAIN rows = DOMAIN incidents
    BY <1>1, <2>1, <2>2, <2>3, SystemReasons, ResolveEachMoves, ResolveEachSound
  <2> HIDE DEF rows
  <2> QED
    BY <2>1, <2>4 DEF Quiet, Write, RefreshRouterLinkStatus, Fleet
<1>11. ASSUME NEW r \in Routers, Boot(r)
       PROVE  Quiet /\ DOMAIN routers' = DOMAIN routers
  BY <1>1, <1>11, TableStill DEF Boot, Quiet
<1> QED
  BY <1>4, <1>5, <1>6, <1>7, <1>8, <1>9, <1>10, <1>11
  DEF Trap, LinkTrap, IsisAdjacencyUp, BgpEstablished, RuleClear

\* Every step is quiet, an alarm or a deletion.
LEMMA NextMoves ==
  ASSUME IInv, [Next]_vars
  PROVE  \/ Quiet /\ DOMAIN routers' = DOMAIN routers
         \/ DOMAIN routers' = DOMAIN routers /\ \E r, t, i, p : Alarm(r, t, i, p)
         \/ \E r \in Deletable : Deletes(r)
<1>1. Sound(incidents)
  BY SoundIncidents
<1>2. Write(incidents') => DOMAIN routers' = DOMAIN routers
  BY DEF Write, RefreshRouterLinkStatus, Fleet
<1>3. CASE Trap
  BY <1>3, TrapMoves
<1>4. CASE Sweep
  BY <1>2, <1>4, SweepMoves
<1>5. CASE Operator
  BY <1>2, <1>5, OperatorMoves, ResolveByUserMoves DEF Operator
<1>6. CASE Admin
  <2>1. ASSUME NEW withRoot \in SUBSET DOMAIN incidents, NEW principal \in Principals,
               ResetAllOpen(withRoot, principal)
        PROVE  Quiet /\ DOMAIN routers' = DOMAIN routers
    BY <1>2, <2>1, ResetAllOpenMoves
  <2>2. ASSUME NEW enabled \in BOOLEAN, SetAutoHeal(enabled)
        PROVE  Quiet /\ DOMAIN routers' = DOMAIN routers
    BY <1>1, <2>2, TableStill DEF SetAutoHeal, Quiet
  <2>3. ASSUME NEW r \in Routers, DeleteRouter(r)
        PROVE  \E s \in Deletable : Deletes(s)
    BY <2>3, DeleteRouterMoves DEF DeleteRouter
  <2> QED
    BY <1>6, <2>1, <2>2, <2>3 DEF Admin
<1>7. CASE Tick
  BY <1>7, TickMoves
<1>8. CASE UNCHANGED vars
  BY <1>1, <1>8, TableStill DEF vars, Quiet
<1> QED
  BY <1>3, <1>4, <1>5, <1>6, <1>7, <1>8 DEF Next


-----------------------------------------------------------------------------
(* Part 3: the theorems                                                    *)

\* What one step makes of a row that survives it.
LEMMA KeptMoves ==
  ASSUME IInv, [Next]_vars, NEW n \in Kept
  PROVE  /\ incidents[n] \in Incident /\ incidents'[n] \in Incident
         /\ \/ Moves(incidents[n], incidents'[n])
            \/ /\ incidents'[n] = [incidents[n] EXCEPT !.root = incidents'[n].root,
                                                       !.peering = incidents'[n].peering]
               /\ SameButReferences(incidents[n], incidents'[n])
<1>1. IInv'
  BY NextKeeps
<1>2. n \in DOMAIN incidents /\ n \in DOMAIN incidents'
  BY DEF Kept
<1>3. incidents[n] \in Incident /\ incidents'[n] \in Incident
  BY <1>1, <1>2 DEF IInv, TypeOK
<1>4. CASE Quiet
  BY <1>2, <1>3, <1>4 DEF Quiet, TableMoves
<1>5. ASSUME NEW r, NEW t, NEW i, NEW p, Alarm(r, t, i, p)
      PROVE  Moves(incidents[n], incidents'[n])
  BY <1>2, <1>5, AlarmMoves DEF TableMoves
<1>6. ASSUME NEW r, Deletes(r)
      PROVE  /\ incidents'[n] = [incidents[n] EXCEPT !.root = incidents'[n].root,
                                                     !.peering = incidents'[n].peering]
             /\ SameButReferences(incidents[n], incidents'[n])
  BY <1>2, <1>6, DeletesColumns DEF Deletes
<1> QED
  BY <1>3, <1>4, <1>5, <1>6, NextMoves

\* A row that was not there is the one an alarm has just opened.
LEMMA NewRow ==
  ASSUME IInv, [Next]_vars, NEW n \in DOMAIN incidents', n \notin DOMAIN incidents
  PROVE  n = nextId /\ \E r, t, i, p : Alarm(r, t, i, p) /\ Opens(r, t, i, p)
<1>1. ~Quiet
  BY DEF Quiet
<1>2. ~ \E r : Deletes(r)
  BY DEF Deletes
<1>3. PICK r, t, i, p : Alarm(r, t, i, p)
  BY <1>1, <1>2, NextMoves
<1>4. Opens(r, t, i, p)
  <2>1. ~Bumps(r, t, i, p)
    BY DEF Bumps
  <2> QED
    BY <1>3, <2>1, AlarmMoves
<1>5. n = nextId
  BY <1>4 DEF Opens
<1> QED
  BY <1>3, <1>4, <1>5

\* No trap, sweep, operator or cascade touches a resolved incident again: who resolved it,
\* why, and everything else on record stays (a deletion may null its references).
THEOREM ResolvedIsFinalHolds == Spec => ResolvedIsFinal
<1>1. ASSUME IInv, [Next]_vars, NEW n \in Kept, ~Open(incidents, n)
      PROVE  incidents'[n] = [incidents[n] EXCEPT !.root = incidents'[n].root,
                                                  !.peering = incidents'[n].peering]
  <2>1. incidents[n] \in Incident /\ incidents[n].status = "resolved"
    BY <1>1, KeptMoves DEF Incident, IncidentStatus, Open
  <2>2. incidents'[n] = incidents[n] =>
          incidents'[n] = [incidents[n] EXCEPT !.root = incidents'[n].root,
                                               !.peering = incidents'[n].peering]
    BY <2>1 DEF Incident
  <2> QED
    BY <1>1, <2>1, <2>2, KeptMoves DEF Moves
<1>2. IInv /\ [Next]_vars =>
        [\A n \in Kept :
           ~Open(incidents, n) =>
             incidents'[n] = [incidents[n] EXCEPT !.root = incidents'[n].root,
                                                  !.peering = incidents'[n].peering]]_vars
  BY <1>1
<1> QED
  BY <1>2, InductiveInvariant, PTL DEF Spec, ResolvedIsFinal

\* Neither correlation nor the sweeper takes an incident from an operator: it leaves the
\* human-owned stages only by being resolved (correlation.py _HUMAN_OWNED_STAGES).
THEOREM HumanOwnedIsKeptHolds == Spec => HumanOwnedIsKept
<1>1. ASSUME IInv, [Next]_vars, NEW n \in Kept,
             Open(incidents, n), incidents[n].stage \in HUMAN_OWNED_STAGES
      PROVE  incidents'[n].stage \in HUMAN_OWNED_STAGES \cup {"resolved"}
  <2>1. /\ incidents[n].status = "open" /\ incidents'[n].status \in {"open", "resolved"}
    BY <1>1, KeptMoves DEF Incident, IncidentStatus, Open
  <2>2. incidents'[n].status = "resolved" => incidents'[n].stage = "resolved"
    <3>1. StageMatchesStatus' /\ n \in DOMAIN incidents'
      BY <1>1, NextKeeps DEF IInv, Kept
    <3> QED
      BY <3>1 DEF StageMatchesStatus, StagedOf
  <2> QED
    BY <1>1, <2>1, <2>2, KeptMoves DEF Moves, SameButReferences
<1>2. IInv /\ [Next]_vars =>
        [\A n \in Kept :
           Open(incidents, n) /\ incidents[n].stage \in HUMAN_OWNED_STAGES
           => incidents'[n].stage \in HUMAN_OWNED_STAGES \cup {"resolved"}]_vars
  BY <1>1
<1> QED
  BY <1>2, InductiveInvariant, PTL DEF Spec, HumanOwnedIsKept

\* While the switch is off no playbook runs and the system closes nothing, whatever the
\* traps, the sweeps and the cascades of that time (service.py module docstring).
THEOREM AutoHealOffMeansHandsOffHolds == Spec => AutoHealOffMeansHandsOff
<1>1. ASSUME IInv, [Next]_vars, ~autoHeal, NEW n \in Kept
      PROVE  /\ incidents'[n].playbooks = incidents[n].playbooks
             /\ Open(incidents, n) /\ ~Open(incidents', n) =>
                  incidents'[n].reason \notin AutoReasons /\ incidents'[n].by \in Principals
  <2>1. /\ incidents[n].status \in {"open", "resolved"}
        /\ incidents'[n].status \in {"open", "resolved"}
    BY <1>1, KeptMoves DEF Incident, IncidentStatus
  <2>2. CASE Moves(incidents[n], incidents'[n])
    BY <1>1, <2>1, <2>2 DEF Moves, Open, Attributed
  <2>3. CASE SameButReferences(incidents[n], incidents'[n])
    BY <2>3 DEF SameButReferences, Open
  <2> QED
    BY <1>1, <2>2, <2>3, KeptMoves
<1>2. IInv /\ [Next]_vars =>
        [~autoHeal => \A n \in Kept :
           /\ incidents'[n].playbooks = incidents[n].playbooks
           /\ Open(incidents, n) /\ ~Open(incidents', n) =>
                incidents'[n].reason \notin AutoReasons /\ incidents'[n].by \in Principals]_vars
  BY <1>1
<1> QED
  BY <1>2, InductiveInvariant, PTL DEF Spec, AutoHealOffMeansHandsOff

\* An incident somebody owns is acknowledged or dispatched as long as it is open: every
\* transaction that takes it from those stages would have to be a resolution.
THEOREM OwnershipMatchesStageHolds == Spec => []OwnershipMatchesStage
<1>1. Init => OwnershipMatchesStage
  BY DEF Init, OwnershipMatchesStage
<1>2. ASSUME IInv, OwnershipMatchesStage, [Next]_vars
      PROVE  OwnershipMatchesStage'
  <2> SUFFICES ASSUME NEW n \in DOMAIN incidents', Open(incidents', n),
                      incidents'[n].owner # Nobody
               PROVE  incidents'[n].stage \in HUMAN_OWNED_STAGES
    BY DEF OwnershipMatchesStage, Open
  <2>1. n \in DOMAIN incidents
    BY <1>2, NewRow DEF Opens
  <2>2. n \in Kept /\ incidents[n].status \in {"open", "resolved"}
    BY <1>2, <2>1, KeptMoves DEF Kept, Incident, IncidentStatus
  <2>3. Open(incidents, n) /\ incidents[n].owner # Nobody =>
          incidents[n].stage \in HUMAN_OWNED_STAGES
    BY <1>2, <2>1 DEF OwnershipMatchesStage
  <2>4. CASE Moves(incidents[n], incidents'[n])
    BY <2>2, <2>3, <2>4 DEF Moves, Open
  <2>5. CASE SameButReferences(incidents[n], incidents'[n])
    BY <2>2, <2>3, <2>5 DEF SameButReferences, Open
  <2> QED
    BY <1>2, <2>2, <2>4, <2>5, KeptMoves
<1> QED
  BY <1>1, <1>2, InductiveInvariant, PTL DEF Spec

\* Every step keeps the symptoms closed with their roots so.
LEMMA WentWithRootKept ==
  ASSUME IInv, [Next]_vars, NEW n \in DOMAIN incidents', ~Open(incidents', n),
         n \in DOMAIN incidents, ~Open(incidents, n) => WentWithRoot(incidents, n)
  PROVE  WentWithRoot(incidents', n)
<1>1. ASSUME TableMoves(incidents, incidents')
      PROVE  WentWithRoot(incidents', n)
  <2>1. CASE Open(incidents, n)
    BY <1>1, <2>1 DEF TableMoves
  <2>2. CASE ~Open(incidents, n)
    <3>1. \A m \in DOMAIN incidents : /\ m \in DOMAIN incidents'
                                      /\ ~Open(incidents, m) => incidents'[m] = incidents[m]
      BY <1>1, SoundIncidents DEF TableMoves, Moves, Incident, IncidentStatus, Open
    <3> QED
      BY <2>2, <3>1 DEF WentWithRoot, Open
  <2> QED
    BY <2>1, <2>2
<1>2. ASSUME NEW r, Deletes(r)
      PROVE  WentWithRoot(incidents', n)
  <2>1. \A m \in DOMAIN incidents' : SameButReferences(incidents[m], incidents'[m])
    BY <1>2, DeletesColumns
  <2>2. \/ incidents'[n].root = NoId
        \/ /\ incidents'[n].root = incidents[n].root
           /\ incidents[n].root \in DOMAIN incidents => incidents[n].root \in DOMAIN incidents'
    BY <1>2 DEF Deletes
  <2> QED
    BY <2>1, <2>2 DEF WentWithRoot, SameButReferences, Open
<1> QED
  BY <1>1, <1>2, NextMoves, AlarmMoves DEF Quiet

\* Who closed an incident fits why it was closed, whatever the accounts are called: what
\* the system closes was cleared by a device or healed, everything else a caller of the
\* API closed, and what went with its root was closed by whoever closed the root.
THEOREM ResolutionIsAttributedHolds == Spec => []ResolutionIsAttributed
<1>1. Init => ResolutionIsAttributed
  BY DEF Init, ResolutionIsAttributed
<1>2. ASSUME IInv, ResolutionIsAttributed, [Next]_vars
      PROVE  ResolutionIsAttributed'
  <2> SUFFICES ASSUME NEW n \in DOMAIN incidents', ~Open(incidents', n)
               PROVE  Attributed(incidents'[n]) /\ WentWithRoot(incidents', n)
    BY DEF ResolutionIsAttributed, Attributed, WentWithRoot, Open
  <2>1. n \in DOMAIN incidents
    BY <1>2, NewRow DEF Opens, Open
  <2>2. /\ n \in Kept /\ incidents[n].status \in {"open", "resolved"}
        /\ incidents'[n].status = "resolved"
    BY <1>2, <2>1, KeptMoves DEF Kept, Incident, IncidentStatus, Open
  <2>3. ~Open(incidents, n) => Attributed(incidents[n]) /\ WentWithRoot(incidents, n)
    BY <1>2, <2>1 DEF ResolutionIsAttributed
  <2>4. Moves(incidents[n], incidents'[n]) => Attributed(incidents'[n])
    BY <2>2, <2>3 DEF Moves, Open
  <2>5. SameButReferences(incidents[n], incidents'[n]) => Attributed(incidents'[n])
    BY <2>2, <2>3 DEF SameButReferences, Open, Attributed
  <2>6. Attributed(incidents'[n])
    BY <1>2, <2>2, <2>4, <2>5, KeptMoves
  <2> QED
    BY <1>2, <2>1, <2>3, <2>6, WentWithRootKept
<1> QED
  BY <1>1, <1>2, InductiveInvariant, PTL DEF Spec

\* Only an optical alarm carries a peering, and it is the report of its side A.
PeeringRows ==
  \A n \in DOMAIN incidents : incidents[n].peering # NoPeering =>
    /\ incidents[n].peering \in Peerings /\ incidents[n].type = "OPTICAL_ALARM"
    /\ incidents[n].router = SideA[incidents[n].peering] /\ incidents[n].iface = NoIface

\* Every step keeps peerings with the alarms that have one.
LEMMA PeeringRowsKept ==
  ASSUME IInv, PeeringRows, [Next]_vars
  PROVE  PeeringRows'
<1> SUFFICES ASSUME NEW n \in DOMAIN incidents', incidents'[n].peering # NoPeering
             PROVE  /\ incidents'[n].peering \in Peerings
                    /\ incidents'[n].type = "OPTICAL_ALARM"
                    /\ incidents'[n].router = SideA[incidents'[n].peering]
                    /\ incidents'[n].iface = NoIface
  BY DEF PeeringRows
<1>1. CASE n \notin DOMAIN incidents
  <2>1. PICK r, t, i, p : Alarm(r, t, i, p) /\ Opens(r, t, i, p)
    BY <1>1, NewRow
  <2>2. n = nextId
    BY <1>1, NewRow
  <2> QED
    BY <2>1, <2>2 DEF Alarm, Opens
<1>2. CASE n \in DOMAIN incidents
  <2>1. n \in Kept
    BY <1>2 DEF Kept
  <2>2. CASE Moves(incidents[n], incidents'[n])
    BY <1>2, <2>2 DEF Moves, PeeringRows
  <2>3. CASE ~Moves(incidents[n], incidents'[n])
    <3>1. PICK r : Deletes(r)
      <4>1. ~Quiet
        BY <1>2, <2>3 DEF Quiet, TableMoves
      <4>2. ~ \E r, t, i, p : Alarm(r, t, i, p)
        BY <1>2, <2>3, AlarmMoves DEF TableMoves
      <4> QED
        BY <4>1, <4>2, NextMoves
    <3>2. incidents'[n].peering = incidents[n].peering
      BY <3>1 DEF Deletes
    <3>3. SameButReferences(incidents[n], incidents'[n])
      BY <3>1, DeletesColumns
    <3> QED
      BY <1>2, <3>2, <3>3 DEF SameButReferences, PeeringRows
  <2> QED
    BY <2>2, <2>3
<1> QED
  BY <1>1, <1>2

\* What two open incidents of the same problem agree on.
Alike(rows, n, m) ==
  /\ Open(rows, n) /\ Open(rows, m)
  /\ rows[n].router = rows[m].router /\ rows[n].type = rows[m].type
  /\ rows[n].iface = rows[m].iface /\ rows[n].peering = rows[m].peering
  /\ rows[n].type = "OPTICAL_ALARM" => rows[n].peering # NoPeering

\* No step opens a second incident for a problem that has one.
LEMMA OneOpenKept ==
  ASSUME IInv, PeeringRows, OneOpenPerProblem, [Next]_vars
  PROVE  OneOpenPerProblem'
<1>1. \A n, m \in DOMAIN incidents : Alike(incidents, n, m) => n = m
  BY DEF OneOpenPerProblem, Alike
<1>2. ASSUME TableMoves(incidents, incidents'), NEW n \in DOMAIN incidents
      PROVE  /\ Open(incidents', n) => Open(incidents, n)
             /\ incidents'[n].router = incidents[n].router
             /\ incidents'[n].type = incidents[n].type
             /\ incidents'[n].iface = incidents[n].iface
             /\ incidents'[n].peering = incidents[n].peering
  <2>1. n \in Kept /\ Moves(incidents[n], incidents'[n])
    BY <1>2 DEF TableMoves, Kept
  <2>2. incidents[n].status \in {"open", "resolved"}
    BY <2>1, KeptMoves DEF Incident, IncidentStatus
  <2> QED
    BY <2>1, <2>2 DEF Moves, Open
<1>3. ASSUME NEW n \in DOMAIN incidents', NEW m \in DOMAIN incidents', Alike(incidents', n, m)
      PROVE  n = m
  <2>1. CASE Quiet
    <3>1. Alike(incidents, n, m) /\ n \in DOMAIN incidents /\ m \in DOMAIN incidents
      BY <1>2, <1>3, <2>1 DEF Quiet, Alike
    <3> QED
      BY <1>1, <3>1
  <2>2. ASSUME NEW r, NEW t, NEW i, NEW p, Alarm(r, t, i, p)
        PROVE  n = m
    <3>1. TableMoves(incidents, incidents')
      BY <2>2, AlarmMoves
    <3>2. CASE n \in DOMAIN incidents /\ m \in DOMAIN incidents
      <4>1. Alike(incidents, n, m)
        BY <1>2, <1>3, <3>1, <3>2 DEF Alike
      <4> QED
        BY <1>1, <3>2, <4>1
    <3>3. ASSUME Opens(r, t, i, p), NEW k \in DOMAIN incidents,
                 Alike(incidents', nextId, k) \/ Alike(incidents', k, nextId)
          PROVE  FALSE
      <4>1. /\ Open(incidents, k) /\ incidents[k].router = r /\ incidents[k].type = t
            /\ incidents[k].iface = i /\ incidents[k].peering = p
        BY <1>2, <3>1, <3>3 DEF Opens, Alike
      <4> QED
        BY <3>3, <4>1 DEF Opens, SameProblem
    <3>4. CASE n \notin DOMAIN incidents \/ m \notin DOMAIN incidents
      <4>1. Opens(r, t, i, p)
        BY <2>2, <3>4, AlarmMoves DEF Bumps
      <4>2. n \in DOMAIN incidents \/ n = nextId
        BY <4>1 DEF Opens
      <4>3. m \in DOMAIN incidents \/ m = nextId
        BY <4>1 DEF Opens
      <4> QED
        BY <1>3, <3>3, <3>4, <4>1, <4>2, <4>3
    <3> QED
      BY <3>2, <3>4
  <2>3. ASSUME NEW r, Deletes(r)
        PROVE  n = m
    <3>1. /\ n \in DOMAIN incidents /\ SameButReferences(incidents[n], incidents'[n])
          /\ m \in DOMAIN incidents /\ SameButReferences(incidents[m], incidents'[m])
      BY <2>3, DeletesColumns
    <3>2. ASSUME NEW k \in {n, m}
          PROVE  incidents'[k].peering = incidents[k].peering
      <4>1. k \in DOMAIN incidents /\ SameButReferences(incidents[k], incidents'[k])
        BY <3>1
      <4>2. k \in DOMAIN incidents'
        OBVIOUS
      <4>3. \/ incidents'[k].peering = incidents[k].peering
            \/ incidents[k].peering \in Peerings /\ incidents'[k].peering = NoPeering
        BY <2>3, <4>2 DEF Deletes
      <4>4. incidents[k].type = "OPTICAL_ALARM" => incidents'[k].peering # NoPeering
        BY <1>3, <4>1 DEF Alike, SameButReferences
      <4>5. incidents[k].type # "OPTICAL_ALARM" => incidents[k].peering = NoPeering
        BY <4>1 DEF PeeringRows
      <4> QED
        BY <4>3, <4>4, <4>5, TopologyAssumption
    <3>3. Alike(incidents, n, m)
      BY <1>3, <3>1, <3>2 DEF Alike, SameButReferences, Open
    <3> QED
      BY <1>1, <3>1, <3>3
  <2> QED
    BY <2>1, <2>2, <2>3, NextMoves
<1> QED
  BY <1>3 DEF OneOpenPerProblem, Alike, Open

\* Both hold in every reachable state.
LEMMA ProblemsHold == Spec => [](PeeringRows /\ OneOpenPerProblem)
<1>1. Init => PeeringRows /\ OneOpenPerProblem
  BY DEF Init, PeeringRows, OneOpenPerProblem
<1>2. IInv /\ PeeringRows /\ OneOpenPerProblem /\ [Next]_vars =>
        (PeeringRows /\ OneOpenPerProblem)'
  BY PeeringRowsKept, OneOpenKept
<1> QED
  BY <1>1, <1>2, InductiveInvariant, PTL DEF Spec

\* However repeats, clears, resolutions and deletions come, one distinct problem has one
\* open incident (service.py open_or_bump); the argument rests on which rows carry a
\* peering at all, for a deletion may null it.
THEOREM OneOpenPerProblemHolds == Spec => []OneOpenPerProblem
BY ProblemsHold, PTL


-----------------------------------------------------------------------------
(* The routers' link status                                                *)

\* No custom rule clears a link type: such a clear would mark the incident that keeps a
\* router down without looking at the router again.
NoLinkRules == \A rule \in RuleClears : rule[1] \notin LINK_TYPES

\* A link incident that stays open and is not marked holds its router as before.
LEMMA HolderStays ==
  ASSUME TableMoves(incidents, incidents'), NEW r, NEW n \in LinkHolders(incidents, r),
         Open(incidents', n), incidents'[n].cleared => incidents[n].cleared
  PROVE  n \in LinkHolders(incidents', r)
BY DEF TableMoves, Moves, LinkHolders

\* A transaction after which every router's status is the old one, or justified anew, and
\* that takes no holder from a router whose status it leaves.
LEMMA JustifiedAfter ==
  ASSUME LinkStatusIsJustified, TableMoves(incidents, incidents'),
         DOMAIN routers' \subseteq DOMAIN routers,
         \A r \in DOMAIN routers' :
           \/ routers'[r] \notin {"down", "flapping"}
           \/ LinkHolders(incidents', r) # {}
           \/ /\ routers'[r] = routers[r]
              /\ \A n \in LinkHolders(incidents, r) :
                   Open(incidents', n) /\ (incidents'[n].cleared => incidents[n].cleared)
  PROVE  LinkStatusIsJustified'
<1> SUFFICES ASSUME NEW r \in DOMAIN routers', routers'[r] \in {"down", "flapping"}
             PROVE  LinkHolders(incidents', r) # {}
  BY DEF LinkStatusIsJustified, Fleet, LinkHolders, Open
<1>1. routers'[r] = routers[r] => LinkHolders(incidents, r) # {}
  BY DEF LinkStatusIsJustified, Fleet
<1> QED
  BY <1>1, HolderStays

\* A transaction that closes link incidents looks at their routers again.
LEMMA WriteJustified ==
  ASSUME LinkStatusIsJustified, Quiet, Write(incidents'), Unmarked(incidents, incidents')
  PROVE  LinkStatusIsJustified'
<1>1. /\ DOMAIN routers' = DOMAIN routers
      /\ \A r \in DOMAIN routers :
           routers'[r] = IF r \in LinkResolvedOn(incidents') /\ LinkHolders(incidents', r) = {}
                         THEN "up" ELSE routers[r]
  BY DEF Write, RefreshRouterLinkStatus, Fleet
<1>2. ASSUME NEW r \in DOMAIN routers, r \notin LinkResolvedOn(incidents'),
             NEW n \in LinkHolders(incidents, r)
      PROVE  Open(incidents', n) /\ (incidents'[n].cleared => incidents[n].cleared)
  <2>1. Open(incidents', n)
    BY <1>2 DEF LinkResolvedOn, LinkHolders
  <2> QED
    BY <2>1 DEF Unmarked, LinkHolders
<1>3. TableMoves(incidents, incidents')
  BY DEF Quiet
<1> HIDE DEF Write
<1>4. \A r \in DOMAIN routers' :
        \/ routers'[r] \notin {"down", "flapping"}
        \/ LinkHolders(incidents', r) # {}
        \/ /\ routers'[r] = routers[r]
           /\ \A n \in LinkHolders(incidents, r) :
                Open(incidents', n) /\ (incidents'[n].cleared => incidents[n].cleared)
  BY <1>1, <1>2
<1> QED
  BY <1>1, <1>3, <1>4, JustifiedAfter

\* An alarm that changes no router's status, or that of the router it opens or repeats a
\* link incident on.
LEMMA AlarmJustified ==
  ASSUME IInv, LinkStatusIsJustified, NEW r, NEW t, NEW i, NEW p, Alarm(r, t, i, p),
         DOMAIN routers' = DOMAIN routers,
         \A s \in DOMAIN routers : routers'[s] = routers[s] \/ (s = r /\ t \in LINK_TYPES)
  PROVE  LinkStatusIsJustified'
<1>1. /\ TableMoves(incidents, incidents') /\ KeepsOpen
      /\ Bumps(r, t, i, p) \/ Opens(r, t, i, p)
  BY AlarmMoves
<1>2. \A n \in DOMAIN incidents :
        /\ Open(incidents, n) => Open(incidents', n)
        /\ incidents'[n].cleared => incidents[n].cleared
  BY <1>1 DEF KeepsOpen, Open
<1>3. t \in LINK_TYPES => LinkHolders(incidents', r) # {}
  <2>1. CASE Bumps(r, t, i, p)
    <3>1. PICK n \in SameProblem(r, t, i, p) : ~incidents'[n].cleared
      BY <2>1 DEF Bumps
    <3>2. /\ n \in DOMAIN incidents /\ incidents[n].router = r /\ incidents[n].type = t
          /\ Open(incidents, n)
      BY DEF SameProblem
    <3>3. /\ n \in DOMAIN incidents' /\ incidents'[n].router = r /\ incidents'[n].type = t
          /\ Open(incidents', n)
      BY <1>1, <1>2, <3>2 DEF TableMoves, Moves
    <3> QED
      BY <3>1, <3>3 DEF LinkHolders
  <2>2. CASE Opens(r, t, i, p)
    <3>1. /\ nextId \in DOMAIN incidents' /\ incidents'[nextId].router = r
          /\ incidents'[nextId].type = t /\ Open(incidents', nextId)
          /\ ~incidents'[nextId].cleared
      BY <2>2 DEF Opens, Open
    <3> QED
      BY <3>1 DEF LinkHolders
  <2> QED
    BY <1>1, <2>1, <2>2
<1>4. \A s : \A n \in LinkHolders(incidents, s) : n \in DOMAIN incidents /\ Open(incidents, n)
  BY DEF LinkHolders
<1> QED
  BY <1>1, <1>2, <1>3, <1>4, JustifiedAfter

\* linkUp: the incidents it closes or marks are on the router it looks at again, for a
\* link incident is no root, so that nothing of another router is released.
LEMMA LinkUpJustified ==
  ASSUME IInv, LinkStatusIsJustified, NEW r, NEW i, LinkUp(r, i)
  PROVE  LinkStatusIsJustified'
<1> DEFINE C == {n \in DOMAIN incidents : /\ incidents[n].router = r
                                          /\ incidents[n].iface = i
                                          /\ incidents[n].type \in LINK_TYPES
                                          /\ Open(incidents, n)}
<1>1. /\ incidents' = AfterClear(LINK_TYPES, r, i)
      /\ routers' = [s \in Fleet |-> IF s \in {r} /\ LinkHolders(incidents', s) = {}
                                     THEN "up" ELSE routers[s]]
  BY DEF LinkUp, RefreshRouterLinkStatus
<1>2. TableMoves(incidents, incidents')
  BY <1>1, AfterClearMoves
<1>3. TreeOf(incidents) /\ \A n \in DOMAIN incidents : n # NoId
  BY SoundIncidents DEF Sound, Ids, NoId
<1>4. \A n \in C : incidents[n].router = r /\ Layer(incidents[n].type) # "L1"
  BY DEF LINK_TYPES, Layer
<1>5. incidents' = IF autoHeal THEN ResolveEach(incidents, C, "auto_cleared", SYSTEM)
                   ELSE [n \in DOMAIN incidents |->
                           IF n \in C THEN [incidents[n] EXCEPT !.cleared = TRUE]
                                      ELSE incidents[n]]
  BY <1>1 DEF AfterClear
<1>6. OpenSymptoms(incidents, Closing(incidents, C)) = {}
  <2>1. \A n \in Closing(incidents, C) : n \in C /\ n # NoId
    BY <1>3 DEF Closing
  <2> QED
    BY <1>3, <1>4, <2>1 DEF OpenSymptoms, TreeOf, OpenSymptom
<1>7. Closing(incidents, C) \subseteq C
  BY DEF Closing
<1> HIDE DEF C
<1>8. ASSUME NEW n \in DOMAIN incidents, n \notin C
      PROVE  incidents'[n] = incidents[n]
  <2>1. n \notin Closing(incidents, C)
    BY <1>7, <1>8
  <2> QED
    BY <1>5, <1>6, <1>8, <2>1 DEF ResolveEach
<1>9. ASSUME NEW s, s # r, NEW n \in LinkHolders(incidents, s)
      PROVE  Open(incidents', n) /\ (incidents'[n].cleared => incidents[n].cleared)
  <2>1. n \in DOMAIN incidents /\ Open(incidents, n) /\ n \notin C
    BY <1>4, <1>9 DEF LinkHolders
  <2> QED
    BY <1>8, <2>1 DEF Open
<1>10. /\ DOMAIN routers' = DOMAIN routers
       /\ \A s \in DOMAIN routers :
            /\ s = r => routers'[s] \notin {"down", "flapping"} \/ LinkHolders(incidents', s) # {}
            /\ s # r => routers'[s] = routers[s]
  BY <1>1 DEF Fleet
<1> QED
  BY <1>2, <1>9, <1>10, JustifiedAfter

\* Deleting a router takes the incidents of no other.
LEMMA DeleteJustified ==
  ASSUME IInv, LinkStatusIsJustified, NEW r, Deletes(r)
  PROVE  LinkStatusIsJustified'
<1> SUFFICES ASSUME NEW s \in DOMAIN routers', routers'[s] \in {"down", "flapping"}
             PROVE  LinkHolders(incidents', s) # {}
  BY DEF LinkStatusIsJustified, Fleet, LinkHolders, Open
<1>1. s \in Fleet /\ s # r /\ routers'[s] = routers[s]
  BY DEF Deletes
<1>2. PICK n \in LinkHolders(incidents, s) : TRUE
  BY <1>1 DEF LinkStatusIsJustified
<1>3. n \in DOMAIN incidents /\ incidents[n].router = s
  BY DEF LinkHolders
<1>4. n \in DOMAIN incidents' /\ SameButReferences(incidents[n], incidents'[n])
  BY <1>1, <1>3, DeletesColumns DEF Deletes
<1> QED
  BY <1>4 DEF LinkHolders, SameButReferences, Open

\* A trap that leaves a router red leaves the incident that says why.
LEMMA TrapJustified ==
  ASSUME NoLinkRules, IInv, LinkStatusIsJustified, Trap
  PROVE  LinkStatusIsJustified'
<1>1. Sound(incidents) /\ TableMoves(incidents, incidents)
  BY SoundIncidents, TableStill
<1>2. ASSUME NEW r \in Routers, NEW t \in AUTO_HEAL_ELIGIBLE_TYPES,
             NEW i \in Ifaces \cup {NoIface}, OpenOrBump(r, t, i, NoPeering),
             \/ routers' = routers
             \/ t \in LINK_TYPES /\ \E s : routers' = [routers EXCEPT ![r] = s]
      PROVE  LinkStatusIsJustified'
  <2>1. Alarm(r, t, i, NoPeering)
    BY <1>2 DEF Alarm
  <2>2. /\ DOMAIN routers' = DOMAIN routers
        /\ \A s \in DOMAIN routers : routers'[s] = routers[s] \/ (s = r /\ t \in LINK_TYPES)
    BY <1>2
  <2> QED
    BY <2>1, <2>2, AlarmJustified
<1>3. ASSUME NEW r, NEW t, NEW i, ClearTrap(r, t, i), t \notin LINK_TYPES
      PROVE  LinkStatusIsJustified'
  <2>1. incidents' = AfterClear({t}, r, i) /\ Write(incidents') /\ nextId' = nextId
    BY <1>3 DEF ClearTrap, Write
  <2>2. Unmarked(incidents, incidents')
    BY <1>3, <2>1, AfterClearMoves
  <2>3. Quiet
    BY <2>1, AfterClearMoves, AfterClearSound DEF Quiet
  <2> QED
    BY <2>1, <2>2, <2>3, WriteJustified
<1>4. ASSUME NEW port \in LinkPorts,
             \/ LinkFlap(port[1], port[2]) \/ LinkDown(port[1], port[2])
             \/ LinkUp(port[1], port[2])
      PROVE  LinkStatusIsJustified'
  <2>1. port[1] \in Routers /\ port[2] \in Ifaces \cup {NoIface}
    BY InputAssumption, PortTyped
  <2>2. CASE LinkFlap(port[1], port[2]) \/ LinkDown(port[1], port[2])
    BY <1>2, <2>1, <2>2, LinkTypes DEF LinkFlap, LinkDown, LINK_TYPES
  <2> QED
    BY <1>4, <2>2, LinkUpJustified
<1>5. ASSUME NEW port \in IsisPorts,
             IsisAdjacencyDown(port[1], port[2]) \/ IsisAdjacencyUp(port[1], port[2])
      PROVE  LinkStatusIsJustified'
  <2>1. port[1] \in Routers /\ port[2] \in Ifaces \cup {NoIface}
    BY InputAssumption, PortTyped
  <2>2. "ISIS_NBR_DOWN" \in AUTO_HEAL_ELIGIBLE_TYPES /\ "ISIS_NBR_DOWN" \notin LINK_TYPES
    BY DEF AUTO_HEAL_ELIGIBLE_TYPES, LINK_TYPES
  <2> QED
    BY <1>2, <1>3, <1>5, <2>1, <2>2 DEF IsisAdjacencyDown, IsisAdjacencyUp, RaiseTrap
<1>6. ASSUME NEW port \in BgpPorts, BgpEstablished(port[1], port[2])
      PROVE  LinkStatusIsJustified'
  BY <1>3, <1>6 DEF BgpEstablished, LINK_TYPES
<1>7. ASSUME NEW alarm \in Raises, RaiseTrap(alarm[2], alarm[1], alarm[3])
      PROVE  LinkStatusIsJustified'
  <2>1. /\ alarm[1] \in AUTO_HEAL_ELIGIBLE_TYPES /\ alarm[2] \in Routers
        /\ alarm[3] \in Ifaces \cup {NoIface}
    BY InputAssumption
  <2> QED
    BY <1>2, <1>7, <2>1 DEF RaiseTrap
<1>8. ASSUME NEW rule \in RuleClears, RuleClear(rule[2], rule[1], rule[3])
      PROVE  LinkStatusIsJustified'
  BY <1>3, <1>8 DEF RuleClear, NoLinkRules
<1>9. ASSUME NEW p \in Peerings, FiberCut(p)
      PROVE  LinkStatusIsJustified'
  <2>1. SideA[p] \in Routers /\ "OPTICAL_ALARM" \in AUTO_HEAL_ELIGIBLE_TYPES
    BY TopologyAssumption DEF AUTO_HEAL_ELIGIBLE_TYPES
  <2>2. Alarm(SideA[p], "OPTICAL_ALARM", NoIface, p) /\ routers' = routers
    BY <1>9, <2>1 DEF FiberCut, Alarm
  <2> QED
    BY <2>2, AlarmJustified
<1>10. ASSUME NEW p \in Peerings, FiberCutClear(p)
       PROVE  LinkStatusIsJustified'
  <2> DEFINE rows == ResolveEach(incidents, FiberIncidents(p), "auto_cleared", SYSTEM)
  <2>1. Write(rows) /\ autoHeal
    BY <1>10 DEF FiberCutClear
  <2>2. FiberIncidents(p) \in SUBSET DOMAIN incidents
    BY DEF FiberIncidents
  <2>3. "auto_cleared" \in AutoReasons
    BY DEF AutoReasons
  <2>4. /\ TableMoves(incidents, rows) /\ Unmarked(incidents, rows)
        /\ DOMAIN rows = DOMAIN incidents
    BY <1>1, <2>1, <2>2, <2>3, SystemReasons, ResolveEachMoves, ResolveEachSound
  <2> HIDE DEF rows
  <2>5. incidents' = rows /\ nextId' = nextId
    BY <2>1 DEF Write
  <2> QED
    BY <2>1, <2>4, <2>5, WriteJustified DEF Quiet
<1>11. ASSUME NEW r \in Routers, Boot(r)
       PROVE  LinkStatusIsJustified'
  <2>1. /\ incidents' = incidents /\ DOMAIN routers' = DOMAIN routers
        /\ \A s \in DOMAIN routers : routers'[s] = IF s = r THEN "up" ELSE routers[s]
    BY <1>11 DEF Boot
  <2>2. \A s : \A n \in LinkHolders(incidents, s) : Open(incidents, n)
    BY DEF LinkHolders
  <2> QED
    BY <1>1, <2>1, <2>2, JustifiedAfter
<1> QED
  BY <1>4, <1>5, <1>6, <1>7, <1>8, <1>9, <1>10, <1>11 DEF Trap, LinkTrap

\* So does every other step.
LEMMA StepJustified ==
  ASSUME NoLinkRules, IInv, LinkStatusIsJustified, [Next]_vars
  PROVE  LinkStatusIsJustified'
<1>1. Sound(incidents) /\ TableMoves(incidents, incidents)
  BY SoundIncidents, TableStill
<1>2. \A r : \A n \in LinkHolders(incidents, r) : n \in DOMAIN incidents /\ Open(incidents, n)
  BY DEF LinkHolders
<1>3. ASSUME Quiet, Unmarked(incidents, incidents'), routers' = routers,
             \A n \in DOMAIN incidents : Open(incidents', n) <=> Open(incidents, n)
      PROVE  LinkStatusIsJustified'
  <2>1. \A r : \A n \in LinkHolders(incidents, r) :
          Open(incidents', n) /\ (incidents'[n].cleared => incidents[n].cleared)
    BY <1>2, <1>3 DEF Unmarked, LinkHolders
  <2> QED
    BY <1>3, <2>1, JustifiedAfter DEF Quiet
<1>4. ASSUME incidents' = incidents, routers' = routers
      PROVE  LinkStatusIsJustified'
  BY <1>4 DEF LinkStatusIsJustified, Fleet, LinkHolders, Open
<1>5. CASE Trap
  BY <1>5, TrapJustified
<1>6. CASE Sweep
  BY <1>6, SweepMoves, WriteJustified
<1>7. CASE Operator
  <2>1. ASSUME NEW n \in DOMAIN incidents, NEW principal \in Principals,
               Acknowledge(n, principal) \/ Dispatch(n, principal)
        PROVE  LinkStatusIsJustified'
    BY <1>3, <2>1, OperatorMoves
  <2>2. ASSUME NEW S \in SUBSET DOMAIN incidents, NEW principal \in Principals,
               NEW reason \in OperatorReasons, ResolveByUser(S, principal, reason)
        PROVE  LinkStatusIsJustified'
    BY <2>2, ResolveByUserMoves, WriteJustified
  <2> QED
    BY <1>7, <2>1, <2>2 DEF Operator
<1>8. CASE Admin
  <2>1. ASSUME NEW withRoot \in SUBSET DOMAIN incidents, NEW principal \in Principals,
               ResetAllOpen(withRoot, principal)
        PROVE  LinkStatusIsJustified'
    BY <2>1, ResetAllOpenMoves, WriteJustified
  <2> QED
    BY <1>4, <1>8, <2>1, DeleteRouterMoves, DeleteJustified DEF Admin, SetAutoHeal
<1>9. CASE Tick
  BY <1>3, <1>9, TickMoves
<1>10. CASE UNCHANGED vars
  BY <1>4, <1>10 DEF vars
<1> QED
  BY <1>5, <1>6, <1>7, <1>8, <1>9, <1>10 DEF Next

\* Unless a custom rule clears a link type, no router stays down or flapping without an
\* open link incident whose clear would turn it back (refresh_router_link_status): every
\* transaction that closes or marks such an incident looks at its router.
THEOREM LinkStatusIsJustifiedHolds ==
  ASSUME NoLinkRules
  PROVE  Spec => []LinkStatusIsJustified
<1>1. Init => LinkStatusIsJustified
  BY DEF Init, LinkStatusIsJustified, Fleet
<1>2. IInv /\ LinkStatusIsJustified /\ [Next]_vars => LinkStatusIsJustified'
  BY StepJustified
<1> QED
  BY <1>1, <1>2, InductiveInvariant, PTL DEF Spec


-----------------------------------------------------------------------------
(* Correlation                                                             *)

\* While no router is deleted the topology stays as it is.
NoDeletions == Deletable = {}

\* A symptom's root is an incident of a peering whose fiber carries the symptom's interface.
RootOnSpan ==
  \A n \in DOMAIN incidents : OpenSymptom(incidents, n) =>
    incidents[incidents[n].root].peering \in PeeringsFor(incidents[n].router, incidents[n].iface)

Correlated == PeeringRows /\ OneOpenPerProblem /\ RootOnSpan /\ CorrelationIsComplete

\* While nothing is deleted, the peerings of a port are always the same.
LEMMA TopologyStays ==
  ASSUME NoDeletions, IInv, [Next]_vars
  PROVE  /\ Quiet \/ \E r, t, i, p : Alarm(r, t, i, p)
         /\ TableMoves(incidents, incidents')
         /\ \A r, i : PeeringsFor(r, i)' = PeeringsFor(r, i)
<1>1. /\ Quiet \/ \E r, t, i, p : Alarm(r, t, i, p)
      /\ DOMAIN routers' = DOMAIN routers
  BY NextMoves DEF NoDeletions
<1>2. TableMoves(incidents, incidents')
  BY <1>1, AlarmMoves DEF Quiet
<1>3. \A r, i : PeeringsFor(r, i)' = PeeringsFor(r, i)
  BY <1>1 DEF PeeringsFor, Live, Fleet
<1> QED
  BY <1>1, <1>2, <1>3

\* A row that was there before an alarm or a quiet step.
LEMMA OldRow ==
  ASSUME IInv, [Next]_vars, TableMoves(incidents, incidents'), NEW n \in DOMAIN incidents
  PROVE  /\ n \in DOMAIN incidents'
         /\ incidents'[n].router = incidents[n].router /\ incidents'[n].type = incidents[n].type
         /\ incidents'[n].iface = incidents[n].iface
         /\ incidents'[n].peering = incidents[n].peering
         /\ Open(incidents', n) =>
              /\ Open(incidents, n) /\ incidents[n].age <= incidents'[n].age
              /\ incidents[n].age \in Nat /\ incidents'[n].age \in Nat
              /\ incidents[n].stage \in HUMAN_OWNED_STAGES =>
                   incidents'[n].stage \in HUMAN_OWNED_STAGES
<1>1. n \in Kept /\ Moves(incidents[n], incidents'[n])
  BY DEF TableMoves, Kept
<1>2. /\ incidents[n].status \in {"open", "resolved"}
      /\ incidents[n].age \in Nat /\ incidents'[n].age \in Nat
  <2>1. incidents[n] \in Incident /\ incidents'[n] \in Incident
    BY <1>1, KeptMoves
  <2> QED
    BY <2>1 DEF Incident, IncidentStatus
<1> QED
  BY <1>1, <1>2 DEF Moves, Open, Kept

\* A symptom hangs from a root on a span of its own.
LEMMA RootOnSpanKept ==
  ASSUME NoDeletions, IInv, RootOnSpan, [Next]_vars
  PROVE  RootOnSpan'
<1>1. /\ Quiet \/ \E r, t, i, p : Alarm(r, t, i, p)
      /\ TableMoves(incidents, incidents')
      /\ \A r, i : PeeringsFor(r, i)' = PeeringsFor(r, i)
  BY TopologyStays
<1>2. TreeOf(incidents') /\ TreeOf(incidents)
  BY NextKeeps DEF IInv, SymptomTree
<1> SUFFICES ASSUME NEW n \in DOMAIN incidents', OpenSymptom(incidents', n)
             PROVE  incidents'[incidents'[n].root].peering \in
                      PeeringsFor(incidents'[n].router, incidents'[n].iface)
  BY <1>1 DEF RootOnSpan, OpenSymptom, Open
<1> DEFINE root == incidents'[n].root
<1>3. root \in DOMAIN incidents' /\ root # NoId /\ Open(incidents', n)
  BY <1>2 DEF TreeOf, OpenSymptom
<1>4. ASSUME n \in DOMAIN incidents, root = incidents[n].root
      PROVE  incidents'[root].peering \in PeeringsFor(incidents'[n].router, incidents'[n].iface)
  <2>1. Open(incidents, n)
    BY <1>1, <1>3, <1>4, OldRow
  <2>2. root \in DOMAIN incidents
    BY <1>2, <1>3, <1>4, <2>1 DEF TreeOf, OpenSymptom
  <2>3. incidents[root].peering \in PeeringsFor(incidents[n].router, incidents[n].iface)
    BY <1>3, <1>4, <2>1 DEF RootOnSpan, OpenSymptom
  <2>4. /\ incidents'[root].peering = incidents[root].peering
        /\ incidents'[n].router = incidents[n].router /\ incidents'[n].iface = incidents[n].iface
    BY <1>1, <1>4, <2>2, OldRow
  <2> HIDE DEF root
  <2> QED
    BY <2>3, <2>4
<1>5. CASE Quiet
  <2>1. n \in DOMAIN incidents /\ root \in DOMAIN incidents
    BY <1>3, <1>5 DEF Quiet
  <2>2. root = incidents[n].root
    BY <1>1, <1>3, <2>1 DEF TableMoves, StaysLinked
  <2> QED
    BY <1>4, <2>1, <2>2
<1>6. ASSUME NEW r, NEW t, NEW i, NEW p, Alarm(r, t, i, p)
      PROVE  incidents'[root].peering \in PeeringsFor(incidents'[n].router, incidents'[n].iface)
  <2>1. Bumps(r, t, i, p) \/ Opens(r, t, i, p)
    BY <1>6, AlarmMoves
  <2>2. CASE n \in DOMAIN incidents /\ root = incidents[n].root
    BY <1>4, <2>2
  <2>3. CASE n \in DOMAIN incidents /\ root # incidents[n].root
    <3>1. Opens(r, t, i, p) /\ p # NoPeering /\ n \in L3Symptoms(p)
      BY <2>1, <2>3 DEF Bumps, Opens
    <3>2. p \in PeeringsFor(incidents[n].router, incidents[n].iface)
      BY <3>1 DEF L3Symptoms
    <3>3. t = "OPTICAL_ALARM" /\ Layer(t) = "L1"
      BY <1>6, <3>1 DEF Alarm, Layer
    <3>4. root = nextId /\ incidents'[nextId].peering = p
      BY <3>1, <3>3 DEF Opens
    <3>5. incidents'[n].router = incidents[n].router /\ incidents'[n].iface = incidents[n].iface
      BY <1>1, <2>3, OldRow
    <3> QED
      BY <3>2, <3>4, <3>5
  <2>4. CASE n \notin DOMAIN incidents
    <3>1. Opens(r, t, i, p) /\ n = nextId
      BY <2>1, <2>4 DEF Bumps, Opens
    <3>2. root \in OpenL1RootCauses(r, i) /\ incidents'[n].router = r /\ incidents'[n].iface = i
      BY <1>3, <3>1 DEF Opens
    <3>3. root \in DOMAIN incidents /\ incidents[root].peering \in PeeringsFor(r, i)
      BY <3>2 DEF OpenL1RootCauses, RootCandidates
    <3>4. incidents'[root].peering = incidents[root].peering
      BY <1>1, <3>3, OldRow
    <3> QED
      BY <3>2, <3>3, <3>4
  <2> QED
    BY <2>2, <2>3, <2>4
<1> QED
  BY <1>1, <1>5, <1>6

\* The open L1 incident of a peering, alone of its kind.
LEMMA OneRootPerPeering ==
  ASSUME IInv, PeeringRows, OneOpenPerProblem,
         NEW n \in DOMAIN incidents, NEW m \in DOMAIN incidents,
         Open(incidents, n), Open(incidents, m),
         incidents[n].peering = incidents[m].peering, incidents[m].peering \in Peerings
  PROVE  n = m
<1>1. incidents[m].peering # NoPeering
  BY TopologyAssumption
<1> QED
  BY <1>1 DEF PeeringRows, OneOpenPerProblem

\* What makes an open L3 incident n and an open L1 incident m a symptom and its root.
Related(rows, n, m) ==
  /\ Open(rows, n) /\ Open(rows, m)
  /\ Layer(rows[m].type) = "L1" /\ Layer(rows[n].type) = "L3"
  /\ PeeringsFor(rows[n].router, rows[n].iface) = {rows[m].peering}
  /\ rows[n].age <= CorrWindow /\ rows[m].age <= CorrWindow

\* No step leaves a pair within the window that is not correlated.
LEMMA CorrelationKept ==
  ASSUME NoDeletions, IInv, Correlated, [Next]_vars
  PROVE  CorrelationIsComplete'
<1>1. /\ Quiet \/ \E r, t, i, p : Alarm(r, t, i, p)
      /\ TableMoves(incidents, incidents')
      /\ \A r, i : PeeringsFor(r, i)' = PeeringsFor(r, i)
  BY TopologyStays
<1>2. /\ PeeringRows /\ OneOpenPerProblem /\ RootOnSpan /\ CorrelationIsComplete
      /\ TreeOf(incidents)
  BY DEF Correlated, IInv, SymptomTree
<1>3. \A n, m \in DOMAIN incidents : Related(incidents, n, m) =>
        incidents[n].root = m \/ incidents[n].stage \in HUMAN_OWNED_STAGES
  BY <1>2 DEF CorrelationIsComplete, OpenedTogether, Related
<1> HIDE DEF Layer
<1> SUFFICES ASSUME NEW n \in DOMAIN incidents', NEW m \in DOMAIN incidents',
                    Related(incidents', n, m)
             PROVE  incidents'[n].root = m \/ incidents'[n].stage \in HUMAN_OWNED_STAGES
  BY <1>1 DEF CorrelationIsComplete, OpenedTogether, Related, Open
<1>4. /\ CorrWindow \in Nat
      /\ \A k \in DOMAIN incidents : k # NoId
      /\ Open(incidents', n) /\ Open(incidents', m)
  BY BoundAssumption, SoundIncidents DEF Ids, NoId, Related
<1> DEFINE p == incidents'[m].peering
<1>5. p \in Peerings
  BY DEF Related, PeeringsFor
<1>6. CASE n \in DOMAIN incidents /\ m \in DOMAIN incidents
  <2>1. Related(incidents, n, m)
    BY <1>1, <1>4, <1>6, OldRow DEF Related
  <2>2. CASE incidents[n].stage \in HUMAN_OWNED_STAGES
    BY <1>1, <1>4, <1>6, <2>2, OldRow
  <2>3. CASE incidents[n].root = m
    BY <1>1, <1>4, <1>6, <2>3 DEF TableMoves, StaysLinked
  <2> QED
    BY <1>3, <1>6, <2>1, <2>2, <2>3
<1>7. ASSUME n \notin DOMAIN incidents \/ m \notin DOMAIN incidents
      PROVE  \E r, t, i, q : Alarm(r, t, i, q) /\ Opens(r, t, i, q)
  BY <1>7, NewRow
<1>8. CASE n \notin DOMAIN incidents
  <2>1. PICK r, t, i, q : Alarm(r, t, i, q) /\ Opens(r, t, i, q)
    BY <1>7, <1>8
  <2>2. n = nextId /\ incidents'[n].router = r /\ incidents'[n].iface = i /\ incidents'[n].type = t
    BY <1>8, <2>1 DEF Opens
  <2>3. m \in DOMAIN incidents
    <3>1. m # n
      BY DEF Related, Layer
    <3> QED
      BY <2>1, <2>2, <3>1 DEF Opens
  <2>4. /\ Open(incidents, m) /\ incidents[m].peering = p /\ Layer(incidents[m].type) = "L1"
        /\ incidents[m].age <= CorrWindow
    BY <1>1, <1>4, <2>3, OldRow DEF Related
  <2>5. PeeringsFor(r, i) = {p} /\ Layer(t) = "L3"
    BY <2>2 DEF Related
  <2>6. m \in RootCandidates(r, i)
    BY <2>3, <2>4, <2>5 DEF RootCandidates
  <2>7. \A k \in RootCandidates(r, i) : k = m
    BY <1>2, <1>5, <2>3, <2>4, <2>5, OneRootPerPeering DEF RootCandidates
  <2>8. OpenL1RootCauses(r, i) = {m}
    <3>1. incidents[m].age >= incidents[m].age
      BY <1>1, <1>4, <2>3, OldRow
    <3> QED
      BY <2>6, <2>7, <3>1 DEF OpenL1RootCauses
  <2> QED
    BY <2>1, <2>2, <2>5, <2>8 DEF Opens
<1>9. CASE n \in DOMAIN incidents /\ m \notin DOMAIN incidents
  <2>1. PICK r, t, i, q : Alarm(r, t, i, q) /\ Opens(r, t, i, q)
    BY <1>7, <1>9
  <2>2. /\ m = nextId /\ incidents'[m].type = t /\ q = p /\ Layer(t) = "L1"
    BY <1>9, <2>1 DEF Opens, Related
  <2>3. /\ Open(incidents, n) /\ Layer(incidents[n].type) = "L3"
        /\ incidents[n].age <= CorrWindow
        /\ PeeringsFor(incidents[n].router, incidents[n].iface) = {p}
    BY <1>1, <1>4, <1>9, OldRow DEF Related
  <2>4. incidents[n].root = NoId
    <3> SUFFICES ASSUME incidents[n].root # NoId
                 PROVE  FALSE
      OBVIOUS
    <3> DEFINE root == incidents[n].root
    <3>1. root \in DOMAIN incidents /\ Open(incidents, root)
      BY <1>2, <1>9, <2>3 DEF TreeOf, OpenSymptom, Open
    <3>2. incidents[root].peering = p
      BY <1>2, <1>9, <2>3 DEF RootOnSpan, OpenSymptom
    <3>3. p # NoPeering
      BY <1>5, TopologyAssumption
    <3>4. /\ incidents[root].router = SideA[p] /\ incidents[root].type = "OPTICAL_ALARM"
          /\ incidents[root].iface = NoIface
      BY <1>2, <3>1, <3>2, <3>3 DEF PeeringRows
    <3>5. t = "OPTICAL_ALARM" /\ r = SideA[p] /\ i = NoIface
      BY <2>1, <2>2, <3>3 DEF Alarm
    <3>6. root \in SameProblem(r, t, i, q)
      BY <2>2, <3>1, <3>2, <3>4, <3>5 DEF SameProblem
    <3> QED
      BY <2>1, <3>6 DEF Opens
  <2>5. CASE incidents[n].stage \in HUMAN_OWNED_STAGES
    BY <1>1, <1>4, <1>9, <2>5, OldRow
  <2>6. CASE incidents[n].stage \notin HUMAN_OWNED_STAGES
    <3>1. n \in L3Symptoms(p)
      BY <1>9, <2>3, <2>4, <2>6 DEF L3Symptoms
    <3>2. p # NoPeering
      BY <1>5, TopologyAssumption
    <3> QED
      BY <2>1, <2>2, <3>1, <3>2 DEF Opens
  <2> QED
    BY <2>5, <2>6
<1> QED
  BY <1>6, <1>8, <1>9

\* Correlation misses nothing while the topology stays: whichever of a fiber cut and the
\* alarm it causes is reported first, and whatever was opened, bumped, released or closed
\* before, the second becomes the symptom of the first (correlation.py, both directions).
THEOREM CorrelationIsCompleteHolds ==
  ASSUME NoDeletions
  PROVE  Spec => []CorrelationIsComplete
<1>1. Init => Correlated
  BY DEF Init, Correlated, PeeringRows, OneOpenPerProblem, RootOnSpan, CorrelationIsComplete
<1>2. IInv /\ Correlated /\ [Next]_vars => Correlated'
  BY PeeringRowsKept, OneOpenKept, RootOnSpanKept, CorrelationKept DEF Correlated
<1>3. Correlated => CorrelationIsComplete
  BY DEF Correlated
<1> QED
  BY <1>1, <1>2, <1>3, InductiveInvariant, PTL DEF Spec

=============================================================================

---------------------- MODULE IncidentWorkflow_proofs ----------------------
(***************************************************************************)
(* Proofs about IncidentWorkflow for every fleet, topology, set of inputs  *)
(* and bound.  Part 1 says what each operator on rows preserves; part 2    *)
(* that every action preserves the inductive invariant.                    *)
(***************************************************************************)
EXTENDS IncidentWorkflow, TLAPS

-----------------------------------------------------------------------------
(* Part 1: rows and tables of rows                                         *)

\* A table: a function from a set of ids to incident rows.
Table(rows) == rows \in [DOMAIN rows -> Incident] /\ DOMAIN rows \subseteq Ids

\* Changing the stage of a row changes nothing else a theorem looks at.
LEMMA SetStageRow ==
  ASSUME NEW row \in Incident, NEW stage \in IncidentStage
  PROVE  /\ SetStage(row, stage) \in Incident
         /\ SetStage(row, stage).stage = stage
         /\ SetStage(row, stage).status = row.status
         /\ SetStage(row, stage).root = row.root
         /\ SetStage(row, stage).type = row.type
         /\ SetStage(row, stage).reason = row.reason
         /\ SetStage(row, stage).router = row.router
         /\ SetStage(row, stage).by = row.by
BY DEF SetStage, Incident

LEMMA ResolvedRow ==
  ASSUME NEW row \in Incident, NEW reason \in ResolutionReason,
         NEW by \in Principals \cup {SYSTEM}
  PROVE  /\ Resolved(row, reason, by) \in Incident
         /\ Resolved(row, reason, by).stage = "resolved"
         /\ Resolved(row, reason, by).status = "resolved"
         /\ Resolved(row, reason, by).root = row.root
         /\ Resolved(row, reason, by).type = row.type
         /\ Resolved(row, reason, by).router = row.router
         /\ Resolved(row, reason, by).reason = reason
         /\ Resolved(row, reason, by).by = by
<1>1. /\ 0 \in 0 .. AgeCap
      /\ "resolved" \in IncidentStage /\ "resolved" \in IncidentStatus
  BY BoundAssumption DEF AgeCap, IncidentStage, IncidentStatus
<1> DEFINE staged == SetStage(row, "resolved")
<1>2. staged \in Incident
  BY <1>1, SetStageRow
<1>3. Resolved(row, reason, by) = [staged EXCEPT !.status = "resolved", !.reason = reason,
                                                 !.by = by, !.age = 0]
  BY DEF Resolved
<1>4. /\ staged.stage = "resolved" /\ staged.root = row.root
      /\ staged.type = row.type /\ staged.router = row.router
  BY <1>1, SetStageRow
<1> HIDE DEF staged
<1>5. /\ reason \in ResolutionReason \cup {NoReason}
      /\ by \in Principals \cup {SYSTEM, Nobody}
  OBVIOUS
<1>6. Resolved(row, reason, by) \in Incident
  <2> DEFINE closed == [staged EXCEPT !.status = "resolved"]
             reasoned == [closed EXCEPT !.reason = reason]
  <2>1. closed \in Incident
    BY <1>1, <1>2 DEF Incident
  <2>2. Resolved(row, reason, by) = [reasoned EXCEPT !.by = by, !.age = 0]
    BY <1>3
  <2> HIDE DEF closed
  <2>3. reasoned \in Incident
    BY <1>5, <2>1 DEF Incident
  <2> HIDE DEF reasoned
  <2> QED
    BY <1>1, <1>5, <2>2, <2>3 DEF Incident
<1>7. /\ Resolved(row, reason, by).stage = staged.stage
      /\ Resolved(row, reason, by).root = staged.root
      /\ Resolved(row, reason, by).type = staged.type
      /\ Resolved(row, reason, by).router = staged.router
      /\ Resolved(row, reason, by).status = "resolved"
      /\ Resolved(row, reason, by).reason = reason
      /\ Resolved(row, reason, by).by = by
  BY <1>2, <1>3 DEF Incident
<1> QED
  BY <1>4, <1>6, <1>7

LEMMA ReleasedRow ==
  ASSUME NEW row \in Incident
  PROVE  /\ Released(row) \in Incident
         /\ Released(row).stage = "new"
         /\ Released(row).status = row.status
         /\ Released(row).root = NoId
         /\ Released(row).type = row.type
         /\ Released(row).router = row.router
         /\ Released(row).reason = row.reason
         /\ Released(row).by = row.by
BY DEF Released, SetStage, Incident, IncidentStage

LEMMA LinkSymptomRow ==
  ASSUME NEW row \in Incident, NEW root \in Ids
  PROVE  /\ LinkSymptom(row, root) \in Incident
         /\ LinkSymptom(row, root).stage = "suppressed"
         /\ LinkSymptom(row, root).status = row.status
         /\ LinkSymptom(row, root).root = root
         /\ LinkSymptom(row, root).type = row.type
         /\ LinkSymptom(row, root).router = row.router
         /\ LinkSymptom(row, root).reason = row.reason
         /\ LinkSymptom(row, root).by = row.by
BY DEF LinkSymptom, SetStage, Incident, IncidentStage


\* _resolve leaves a table of the same rows, each as it was, resolved, or
\* released.
LEMMA ResolveEachRows ==
  ASSUME NEW rows, Table(rows), NEW S, NEW reason \in ResolutionReason,
         NEW by \in Principals \cup {SYSTEM}
  PROVE  LET after == ResolveEach(rows, S, reason, by) IN
         /\ Table(after)
         /\ DOMAIN after = DOMAIN rows
         /\ \A n \in DOMAIN rows :
              \/ /\ n \in Closing(rows, S)
                 /\ after[n] = Resolved(rows[n], reason, by)
              \/ /\ n \notin Closing(rows, S)
                 /\ n \notin OpenSymptoms(rows, Closing(rows, S))
                 /\ after[n] = rows[n]
              \/ /\ n \notin Closing(rows, S)
                 /\ n \in OpenSymptoms(rows, Closing(rows, S))
                 /\ \/ after[n] = Released(rows[n])
                    \/ after[n] = Resolved(rows[n], "root_cause_resolved", by)
<1> DEFINE after == ResolveEach(rows, S, reason, by)
           closing == Closing(rows, S)
           symptoms == OpenSymptoms(rows, closing) \ closing
           row(n) == IF n \in closing THEN Resolved(rows[n], reason, by)
                     ELSE IF n \notin symptoms THEN rows[n]
                     ELSE IF reason = "auto_cleared" THEN Released(rows[n])
                     ELSE Resolved(rows[n], "root_cause_resolved", by)
<1>1. after = [n \in DOMAIN rows |-> row(n)]
  BY DEF ResolveEach
<1>2. "root_cause_resolved" \in ResolutionReason
  BY DEF ResolutionReason
<1>3. ASSUME NEW n \in DOMAIN rows PROVE row(n) \in Incident
  <2>1. rows[n] \in Incident
    BY DEF Table
  <2> QED
    BY <1>2, <2>1, ResolvedRow, ReleasedRow
<1> HIDE DEF closing
<1>4. DOMAIN after = DOMAIN rows /\ \A n \in DOMAIN rows : after[n] = row(n)
  BY <1>1
<1>5. Table(after)
  <2> HIDE DEF row, after
  <2>1. after \in [DOMAIN rows -> Incident]
    BY <1>1, <1>3
  <2> QED
    BY <1>4, <2>1 DEF Table
<1> HIDE DEF after
<1>6. \A n \in DOMAIN rows :
        \/ n \in closing /\ after[n] = Resolved(rows[n], reason, by)
        \/ n \notin closing /\ n \notin OpenSymptoms(rows, closing) /\ after[n] = rows[n]
        \/ /\ n \notin closing /\ n \in OpenSymptoms(rows, closing)
           /\ \/ after[n] = Released(rows[n])
              \/ after[n] = Resolved(rows[n], "root_cause_resolved", by)
  BY <1>4
<1> QED
  BY <1>4, <1>5, <1>6 DEF after, closing

\* Whatever is resolved, and for whatever reason, the tree stays a tree: the
\* symptoms of a resolved root are no longer open symptoms.
LEMMA ResolveEachTree ==
  ASSUME NEW rows, Table(rows), TreeOf(rows), NEW S \in SUBSET DOMAIN rows, NEW reason \in ResolutionReason,
         NEW by \in Principals \cup {SYSTEM}
  PROVE  TreeOf(ResolveEach(rows, S, reason, by))
<1> DEFINE after == ResolveEach(rows, S, reason, by)
           closing == Closing(rows, S)
<1>1. /\ DOMAIN after = DOMAIN rows
      /\ \A n \in DOMAIN rows :
           \/ n \in closing /\ after[n] = Resolved(rows[n], reason, by)
           \/ n \notin closing /\ n \notin OpenSymptoms(rows, closing) /\ after[n] = rows[n]
           \/ /\ n \notin closing /\ n \in OpenSymptoms(rows, closing)
              /\ \/ after[n] = Released(rows[n])
                 \/ after[n] = Resolved(rows[n], "root_cause_resolved", by)
  BY ResolveEachRows
<1> HIDE DEF after, closing
<1>2. "root_cause_resolved" \in ResolutionReason
  BY DEF ResolutionReason
<1>3. ASSUME NEW n \in DOMAIN rows, Open(after, n), after[n].root # NoId
      PROVE  /\ n \notin OpenSymptoms(rows, closing)
             /\ after[n] = rows[n]
  <2>1. rows[n] \in Incident
    BY DEF Table
  <2>2. Resolved(rows[n], reason, by).status = "resolved"
    BY <2>1, ResolvedRow
  <2>3. Resolved(rows[n], "root_cause_resolved", by).status = "resolved"
    BY <1>2, <2>1, ResolvedRow
  <2>4. Released(rows[n]).root = NoId
    BY <2>1, ReleasedRow
  <2> QED
    BY <1>1, <1>3, <2>2, <2>3, <2>4 DEF Open
<1>4. ASSUME NEW n \in DOMAIN rows, Open(after, n), after[n].root # NoId
      PROVE  /\ rows[n].root \in DOMAIN rows
             /\ after[rows[n].root] = rows[rows[n].root]
             /\ after[n] = rows[n]
  <2>1. OpenSymptom(rows, n) /\ n \notin OpenSymptoms(rows, closing)
    BY <1>3, <1>4 DEF OpenSymptom, Open
  <2> DEFINE root == rows[n].root
  <2>2. /\ root \in DOMAIN rows
        /\ rows[root].status = "open" /\ rows[root].root = NoId
    BY <2>1 DEF TreeOf
  <2>3. root \notin closing
    BY <2>1 DEF OpenSymptom, OpenSymptoms
  <2>4. root \notin OpenSymptoms(rows, closing)
    <3>1. NoId \notin closing
      BY DEF closing, Closing, Table, Ids, NoId
    <3> QED
      BY <2>2, <3>1 DEF OpenSymptoms
  <2> QED
    BY <1>1, <1>3, <1>4, <2>2, <2>3, <2>4
<1> QED
  BY <1>1, <1>4 DEF TreeOf, OpenSymptom, Open, after


LEMMA ResolveEachStaged ==
  ASSUME NEW rows, Table(rows), StagedOf(rows), NEW S, NEW reason \in ResolutionReason,
         NEW by \in Principals \cup {SYSTEM}
  PROVE  StagedOf(ResolveEach(rows, S, reason, by))
<1> DEFINE after == ResolveEach(rows, S, reason, by)
           closing == Closing(rows, S)
<1>1. /\ DOMAIN after = DOMAIN rows
      /\ \A n \in DOMAIN rows :
           \/ n \in closing /\ after[n] = Resolved(rows[n], reason, by)
           \/ n \notin closing /\ n \notin OpenSymptoms(rows, closing) /\ after[n] = rows[n]
           \/ /\ n \notin closing /\ n \in OpenSymptoms(rows, closing)
              /\ \/ after[n] = Released(rows[n])
                 \/ after[n] = Resolved(rows[n], "root_cause_resolved", by)
  BY ResolveEachRows
<1> HIDE DEF after, closing
<1>2. "root_cause_resolved" \in ResolutionReason /\ NoReason \notin ResolutionReason
  BY DEF ResolutionReason, USER_RESOLUTION_REASONS, NoReason
<1>3. ASSUME NEW n \in DOMAIN rows
      PROVE  /\ after[n].status = "resolved" <=> after[n].stage = "resolved"
             /\ after[n].status = "resolved" <=> after[n].reason # NoReason
  <2>1. rows[n] \in Incident
    BY DEF Table
  <2>2. CASE after[n] = Resolved(rows[n], reason, by)
    BY <1>2, <2>1, <2>2, ResolvedRow
  <2>3. CASE after[n] = rows[n]
    BY <2>3 DEF StagedOf
  <2>4. CASE n \in OpenSymptoms(rows, closing) /\ after[n] = Released(rows[n])
    BY <2>1, <2>4, ReleasedRow DEF OpenSymptoms, Open, StagedOf
  <2>5. CASE after[n] = Resolved(rows[n], "root_cause_resolved", by)
    BY <1>2, <2>1, <2>5, ResolvedRow
  <2> QED
    BY <1>1, <2>2, <2>3, <2>4, <2>5
<1> QED
  BY <1>1, <1>3 DEF StagedOf, after

\* A write that moves no open symptom's stage and leaves the status, the
\* type and the root of every row alone keeps the tree.
LEMMA SameTree ==
  ASSUME NEW rows, TreeOf(rows), NEW after, DOMAIN after = DOMAIN rows,
         \A n \in DOMAIN rows :
           /\ after[n].status = rows[n].status
           /\ after[n].type = rows[n].type
           /\ after[n].root = rows[n].root
           /\ \/ after[n].stage = rows[n].stage
              \/ rows[n].root = NoId
  PROVE  TreeOf(after)
<1> SUFFICES ASSUME NEW n \in DOMAIN rows, OpenSymptom(after, n)
             PROVE  /\ after[n].stage = "suppressed"
                    /\ Layer(after[n].type) = "L3"
                    /\ after[n].root \in DOMAIN rows
                    /\ after[after[n].root].status = "open"
                    /\ after[after[n].root].root = NoId
                    /\ Layer(after[after[n].root].type) = "L1"
  BY DEF TreeOf
<1>1. OpenSymptom(rows, n)
  BY DEF OpenSymptom, Open
<1>2. /\ rows[n].stage = "suppressed" /\ Layer(rows[n].type) = "L3"
      /\ rows[n].root \in DOMAIN rows
      /\ rows[rows[n].root].status = "open"
      /\ rows[rows[n].root].root = NoId
      /\ Layer(rows[rows[n].root].type) = "L1"
  BY <1>1 DEF TreeOf
<1>3. after[n].stage = "suppressed"
  BY <1>1, <1>2 DEF OpenSymptom
<1>4. after[n].root = rows[n].root /\ after[n].type = rows[n].type
  OBVIOUS
<1> HIDE DEF Layer
<1> QED
  BY <1>2, <1>3, <1>4

\* A write that only restages open rows, and never to resolved, keeps status
\* and stage together.
LEMMA SameStaged ==
  ASSUME NEW rows, StagedOf(rows), NEW after, DOMAIN after = DOMAIN rows,
         \A n \in DOMAIN rows :
           /\ after[n].status = rows[n].status
           /\ after[n].reason = rows[n].reason
           /\ \/ after[n].stage = rows[n].stage
              \/ rows[n].status # "resolved" /\ after[n].stage # "resolved"
  PROVE  StagedOf(after)
BY DEF StagedOf

-----------------------------------------------------------------------------
(* Part 2: the inductive invariant                                         *)

\* What is invariant of the incidents table, ...
Sound(rows) == Table(rows) /\ TreeOf(rows) /\ StagedOf(rows)

\* ... and of the whole state.
IInv == TypeOK /\ SymptomTree /\ StageMatchesStatus

LEMMA SoundIncidents ==
  ASSUME IInv
  PROVE  /\ Sound(incidents)
         /\ \A n \in DOMAIN incidents : incidents[n] \in Incident /\ n \in Ids
         /\ nextId \notin DOMAIN incidents
<1>1. nextId \in Nat /\ nextId <= MaxIncidents + 1 /\ DOMAIN incidents \subseteq 1 .. nextId - 1
  BY BoundAssumption DEF IInv, TypeOK
<1>2. DOMAIN incidents \subseteq Ids
  BY <1>1, BoundAssumption DEF Ids
<1>3. Table(incidents)
  BY <1>2 DEF Table, IInv, TypeOK
<1>4. nextId \notin DOMAIN incidents
  BY <1>1
<1> QED
  BY <1>3, <1>4 DEF Sound, Table, IInv, SymptomTree, StageMatchesStatus

LEMMA ResolveEachSound ==
  ASSUME NEW rows, Sound(rows), NEW S \in SUBSET DOMAIN rows,
         NEW reason \in ResolutionReason, NEW by \in Principals \cup {SYSTEM}
  PROVE  /\ Sound(ResolveEach(rows, S, reason, by))
         /\ DOMAIN ResolveEach(rows, S, reason, by) = DOMAIN rows
<1>1. Table(rows) /\ TreeOf(rows) /\ StagedOf(rows)
  BY DEF Sound
<1>2. Table(ResolveEach(rows, S, reason, by))
  BY <1>1, ResolveEachRows
<1>3. DOMAIN ResolveEach(rows, S, reason, by) = DOMAIN rows
  BY DEF ResolveEach
<1>4. TreeOf(ResolveEach(rows, S, reason, by))
  BY <1>1, ResolveEachTree
<1>5. StagedOf(ResolveEach(rows, S, reason, by))
  BY <1>1, ResolveEachStaged
<1> QED
  BY <1>2, <1>3, <1>4, <1>5 DEF Sound

\* Restaging open incidents that are no symptoms keeps a table sound.
LEMMA RestagedSound ==
  ASSUME NEW rows, Sound(rows), NEW after, DOMAIN after = DOMAIN rows,
         after \in [DOMAIN rows -> Incident],
         \A n \in DOMAIN rows :
           \/ after[n] = rows[n]
           \/ /\ Open(rows, n) /\ rows[n].root = NoId
              /\ after[n].status = "open" /\ after[n].root = NoId
              /\ after[n].type = rows[n].type
              /\ after[n].reason = rows[n].reason
              /\ after[n].stage # "resolved"
  PROVE  Sound(after)
<1>1. Table(after)
  BY DEF Sound, Table
<1>2. TreeOf(rows) /\ StagedOf(rows)
  BY DEF Sound
<1>3. \A n \in DOMAIN rows :
        /\ after[n].status = rows[n].status
        /\ after[n].type = rows[n].type
        /\ after[n].root = rows[n].root
        /\ after[n].reason = rows[n].reason
        /\ after[n].stage = rows[n].stage \/ rows[n].root = NoId
        /\ \/ after[n].stage = rows[n].stage
           \/ rows[n].status # "resolved" /\ after[n].stage # "resolved"
  BY DEF Open
<1>4. TreeOf(after)
  BY <1>2, <1>3, SameTree
<1>5. StagedOf(after)
  BY <1>2, <1>3, SameStaged
<1> QED
  BY <1>1, <1>4, <1>5 DEF Sound

\* Changing only columns neither the tree nor the stages are made of.
LEMMA AnnotatedSound ==
  ASSUME NEW rows, Sound(rows), NEW after, DOMAIN after = DOMAIN rows,
         after \in [DOMAIN rows -> Incident],
         \A n \in DOMAIN rows :
           /\ after[n].status = rows[n].status
           /\ after[n].type = rows[n].type
           /\ after[n].root = rows[n].root
           /\ after[n].reason = rows[n].reason
           /\ after[n].stage = rows[n].stage
  PROVE  Sound(after)
<1>1. Table(after)
  BY DEF Sound, Table
<1>2. TreeOf(rows) /\ StagedOf(rows)
  BY DEF Sound
<1>3. TreeOf(after)
  BY <1>2, SameTree
<1>4. StagedOf(after)
  BY <1>2, SameStaged
<1> QED
  BY <1>1, <1>3, <1>4 DEF Sound

LEMMA RefreshTyped ==
  ASSUME TypeOK, NEW rows, NEW R
  PROVE  RefreshRouterLinkStatus(rows, R) \in [Fleet -> RouterStatus]
BY DEF TypeOK, RefreshRouterLinkStatus, RouterStatus

\* The invariant after a step, from what the step does to each variable.
LEMMA StepKeeps ==
  ASSUME IInv, Sound(incidents'),
         nextId' \in 1 .. MaxIncidents + 1,
         DOMAIN incidents' \subseteq 1 .. nextId' - 1,
         DOMAIN routers' \subseteq Fleet,
         routers' \in [DOMAIN routers' -> RouterStatus],
         autoHeal' \in BOOLEAN,
         linkEvents' \in [LinkPorts -> 0 .. FlapThreshold]
  PROVE  IInv'
<1>1. incidents' \in [DOMAIN incidents' -> Incident]
  BY DEF Sound, Table
<1>2. TypeOK'
  BY <1>1 DEF IInv, TypeOK, Fleet
<1>3. SymptomTree' /\ StageMatchesStatus'
  BY DEF Sound, SymptomTree, StageMatchesStatus
<1> QED
  BY <1>2, <1>3 DEF IInv

LEMMA WriteKeeps ==
  ASSUME IInv, NEW rows, Sound(rows), DOMAIN rows = DOMAIN incidents, Write(rows),
         UNCHANGED <<autoHeal, linkEvents>>
  PROVE  IInv'
<1>1. /\ incidents' = rows /\ nextId' = nextId
      /\ routers' = RefreshRouterLinkStatus(rows, LinkResolvedOn(rows))
  BY DEF Write
<1>2. TypeOK
  BY DEF IInv
<1>3. routers' \in [Fleet -> RouterStatus]
  BY <1>1, <1>2, RefreshTyped
<1>4. DOMAIN routers' = Fleet
  BY <1>3
<1>5. /\ Sound(incidents') /\ nextId' \in 1 .. MaxIncidents + 1
      /\ DOMAIN incidents' \subseteq 1 .. nextId' - 1
      /\ autoHeal' \in BOOLEAN
      /\ linkEvents' \in [LinkPorts -> 0 .. FlapThreshold]
  BY <1>1, <1>2 DEF TypeOK
<1> QED
  BY <1>3, <1>4, <1>5, StepKeeps

-----------------------------------------------------------------------------
(* Opening and bumping                                                     *)

LEMMA NewIncidentRow ==
  ASSUME NEW r \in Routers, NEW t \in AUTO_HEAL_ELIGIBLE_TYPES,
         NEW i \in Ifaces \cup {NoIface}, NEW p \in Peerings \cup {NoPeering}
  PROVE  /\ NewIncident(r, t, i, p) \in Incident
         /\ NewIncident(r, t, i, p).status = "open"
         /\ NewIncident(r, t, i, p).stage = "new"
         /\ NewIncident(r, t, i, p).root = NoId
         /\ NewIncident(r, t, i, p).reason = NoReason
         /\ NewIncident(r, t, i, p).by = Nobody
         /\ NewIncident(r, t, i, p).type = t
<1>1. /\ 0 \in 0 .. AgeCap /\ 0 \in Nat
      /\ "new" \in IncidentStage /\ "open" \in IncidentStatus
  BY BoundAssumption DEF AgeCap, IncidentStage, IncidentStatus
<1> QED
  BY <1>1 DEF NewIncident, Incident, NoId

\* An inserted row that is no symptom may claim open L3 rows that are none,
\* if it is L1 itself; one inserted as a symptom hangs from an open L1 root.
LEMMA InsertKeeps ==
  ASSUME IInv,
         NEW row \in Incident, row.status = "open", row.reason = NoReason,
         NEW claimed, Insert(row, claimed),
         \/ row.root = NoId /\ row.stage = "new"
         \/ /\ claimed = {} /\ Layer(row.type) = "L3" /\ row.stage = "suppressed"
            /\ row.root \in DOMAIN incidents
            /\ Open(incidents, row.root) /\ incidents[row.root].root = NoId
            /\ Layer(incidents[row.root].type) = "L1",
         claimed = {} \/ Layer(row.type) = "L1",
         \A n \in claimed : /\ n \in DOMAIN incidents
                            /\ Open(incidents, n) /\ incidents[n].root = NoId
                            /\ Layer(incidents[n].type) = "L3"
  PROVE  /\ Sound(incidents')
         /\ nextId' \in 1 .. MaxIncidents + 1
         /\ DOMAIN incidents' \subseteq 1 .. nextId' - 1
<1> DEFINE new == nextId
           line(n) == IF n = new THEN row
                      ELSE IF n \in claimed THEN LinkSymptom(incidents[n], new)
                      ELSE incidents[n]
<1>1. /\ new \in Ids /\ nextId' = new + 1
      /\ incidents' = [n \in DOMAIN incidents \cup {new} |-> line(n)]
  BY DEF Insert
<1>2. /\ Sound(incidents) /\ new \notin DOMAIN incidents
      /\ \A n \in DOMAIN incidents : incidents[n] \in Incident /\ n \in Ids
  BY SoundIncidents
<1>3. /\ new \in Nat /\ new <= MaxIncidents /\ new >= 1
      /\ DOMAIN incidents \subseteq 1 .. new - 1
  BY <1>1, BoundAssumption DEF Ids, IInv, TypeOK
<1>4. nextId' \in 1 .. MaxIncidents + 1 /\ DOMAIN incidents \cup {new} \subseteq 1 .. nextId' - 1
  BY <1>1, <1>3, BoundAssumption
<1>5. \A n \in DOMAIN incidents \cup {new} : line(n) \in Incident
  BY <1>1, <1>2, LinkSymptomRow
<1> HIDE DEF new
<1>6. /\ DOMAIN incidents' = DOMAIN incidents \cup {new}
      /\ \A n \in DOMAIN incidents \cup {new} : incidents'[n] = line(n)
  <2> HIDE DEF line
  <2> QED
    BY <1>1
<1>7. Table(incidents')
  <2>1. incidents' \in [DOMAIN incidents \cup {new} -> Incident]
    <3> HIDE DEF line
    <3> QED
      BY <1>1, <1>5
  <2> QED
    BY <1>1, <1>2, <1>6, <2>1 DEF Table
<1>8. /\ incidents'[new] = row
      /\ \A n \in claimed : n # new /\ incidents'[n] = LinkSymptom(incidents[n], new)
      /\ \A n \in DOMAIN incidents \ claimed : n # new /\ incidents'[n] = incidents[n]
  BY <1>2, <1>6
<1> HIDE DEF line
<1>9. StagedOf(incidents')
  <2>1. StagedOf(incidents)
    BY <1>2 DEF Sound
  <2> SUFFICES ASSUME NEW n \in DOMAIN incidents \cup {new}
               PROVE  /\ incidents'[n].status = "resolved" <=> incidents'[n].stage = "resolved"
                      /\ incidents'[n].status = "resolved" <=> incidents'[n].reason # NoReason
    BY <1>6 DEF StagedOf
  <2>2. CASE n = new
    BY <1>8, <2>2
  <2>3. CASE n \in claimed
    <3>1. incidents[n] \in Incident /\ incidents'[n] = LinkSymptom(incidents[n], new)
      BY <1>2, <1>8, <2>3
    <3>2. incidents[n].status = "open" /\ incidents[n].reason = NoReason
      BY <2>1, <2>3 DEF StagedOf, Open
    <3> QED
      BY <1>1, <3>1, <3>2, LinkSymptomRow
  <2>4. CASE n \in DOMAIN incidents \ claimed
    BY <1>8, <2>1, <2>4 DEF StagedOf
  <2> QED
    BY <2>2, <2>3, <2>4
<1>10. TreeOf(incidents')
  <2>1. TreeOf(incidents)
    BY <1>2 DEF Sound
  <2> HIDE DEF Layer
  <2> SUFFICES ASSUME NEW n \in DOMAIN incidents \cup {new}, OpenSymptom(incidents', n)
               PROVE  /\ incidents'[n].stage = "suppressed"
                      /\ Layer(incidents'[n].type) = "L3"
                      /\ incidents'[n].root \in DOMAIN incidents \cup {new}
                      /\ incidents'[incidents'[n].root].status = "open"
                      /\ incidents'[incidents'[n].root].root = NoId
                      /\ Layer(incidents'[incidents'[n].root].type) = "L1"
    BY <1>6 DEF TreeOf
  <2>2. CASE n = new
    <3>1. /\ claimed = {} /\ Layer(row.type) = "L3" /\ row.stage = "suppressed"
          /\ row.root \in DOMAIN incidents
          /\ Open(incidents, row.root) /\ incidents[row.root].root = NoId
          /\ Layer(incidents[row.root].type) = "L1"
      BY <1>8, <2>2 DEF OpenSymptom
    <3> QED
      BY <1>8, <2>2, <3>1 DEF Open
  <2>3. CASE n \in claimed
    <3>1. incidents[n] \in Incident /\ incidents'[n] = LinkSymptom(incidents[n], new)
      BY <1>2, <1>8, <2>3
    <3>2. Layer(row.type) = "L1" /\ row.root = NoId
      BY <2>3
    <3> QED
      BY <1>1, <1>8, <2>3, <3>1, <3>2, LinkSymptomRow
  <2>4. CASE n \in DOMAIN incidents \ claimed
    <3>1. incidents'[n] = incidents[n] /\ OpenSymptom(incidents, n)
      BY <1>8, <2>4 DEF OpenSymptom, Open
    <3>2. /\ incidents[n].stage = "suppressed" /\ Layer(incidents[n].type) = "L3"
          /\ incidents[n].root \in DOMAIN incidents
          /\ incidents[incidents[n].root].status = "open"
          /\ incidents[incidents[n].root].root = NoId
          /\ Layer(incidents[incidents[n].root].type) = "L1"
      BY <2>1, <2>4, <3>1 DEF TreeOf
    <3>3. incidents[n].root \notin claimed
      BY <3>2
    <3> QED
      BY <1>8, <3>1, <3>2, <3>3
  <2> QED
    BY <2>2, <2>3, <2>4
<1> QED
  BY <1>4, <1>6, <1>7, <1>9, <1>10 DEF Sound

LEMMA OpenOrBumpKeeps ==
  ASSUME IInv,
         NEW r \in Routers, NEW t \in AUTO_HEAL_ELIGIBLE_TYPES,
         NEW i \in Ifaces \cup {NoIface}, NEW p \in Peerings \cup {NoPeering},
         OpenOrBump(r, t, i, p)
  PROVE  /\ Sound(incidents')
         /\ nextId' \in 1 .. MaxIncidents + 1
         /\ DOMAIN incidents' \subseteq 1 .. nextId' - 1
<1>1. /\ Sound(incidents)
      /\ \A n \in DOMAIN incidents : incidents[n] \in Incident /\ n \in Ids
  BY SoundIncidents
<1>2. TreeOf(incidents)
  BY <1>1 DEF Sound
<1>3. /\ NewIncident(r, t, i, p) \in Incident
      /\ NewIncident(r, t, i, p).status = "open"
      /\ NewIncident(r, t, i, p).stage = "new"
      /\ NewIncident(r, t, i, p).root = NoId
      /\ NewIncident(r, t, i, p).reason = NoReason
      /\ NewIncident(r, t, i, p).type = t
  BY NewIncidentRow
<1>4. CASE \E n \in SameProblem(r, t, i, p) : Bump(n)
  <2>1. PICK n \in SameProblem(r, t, i, p) : Bump(n)
    BY <1>4
  <2>2. /\ n \in DOMAIN incidents /\ nextId' = nextId
        /\ incidents' = [incidents EXCEPT ![n].cleared = FALSE]
    BY <2>1 DEF SameProblem, Bump
  <2>3. [incidents[n] EXCEPT !.cleared = FALSE] \in Incident
    <3>1. incidents[n] \in Incident
      BY <1>1, <2>2
    <3> QED
      BY <3>1 DEF Incident
  <2>4. /\ DOMAIN incidents' = DOMAIN incidents
        /\ incidents'[n] = [incidents[n] EXCEPT !.cleared = FALSE]
        /\ \A m \in DOMAIN incidents : m # n => incidents'[m] = incidents[m]
    BY <1>1, <2>2 DEF Sound, Table
  <2>5. incidents' \in [DOMAIN incidents -> Incident]
    BY <1>1, <2>2, <2>3, <2>4 DEF Sound, Table
  <2>6. \A m \in DOMAIN incidents :
          /\ incidents'[m].status = incidents[m].status
          /\ incidents'[m].type = incidents[m].type
          /\ incidents'[m].root = incidents[m].root
          /\ incidents'[m].reason = incidents[m].reason
          /\ incidents'[m].stage = incidents[m].stage
    BY <1>1, <2>2, <2>4 DEF Incident
  <2>7. Sound(incidents')
    BY <1>1, <2>4, <2>5, <2>6, AnnotatedSound
  <2> QED
    BY <2>2, <2>4, <2>7 DEF IInv, TypeOK
<1>5. CASE Layer(t) = "L3" /\ OpenL3(r, t, i, p)
  <2>1. CASE Insert(NewIncident(r, t, i, p), {})
    BY <1>3, <2>1, InsertKeeps
  <2>2. ASSUME NEW root \in OpenL1RootCauses(r, i),
               Insert(LinkSymptom(NewIncident(r, t, i, p), root), {})
        PROVE  /\ Sound(incidents')
               /\ nextId' \in 1 .. MaxIncidents + 1
               /\ DOMAIN incidents' \subseteq 1 .. nextId' - 1
    <3>1. /\ root \in DOMAIN incidents /\ Open(incidents, root)
          /\ Layer(incidents[root].type) = "L1"
      BY DEF OpenL1RootCauses, RootCandidates
    <3>2. root \in Ids
      BY <1>1, <3>1
    <3>3. incidents[root].root = NoId
      <4> HIDE DEF Layer
      <4> QED
        BY <1>2, <3>1 DEF TreeOf, OpenSymptom
    <3> DEFINE row == LinkSymptom(NewIncident(r, t, i, p), root)
    <3>4. /\ row \in Incident /\ row.status = "open" /\ row.reason = NoReason
          /\ row.stage = "suppressed" /\ row.root = root /\ row.type = t
      BY <1>3, <3>2, LinkSymptomRow
    <3>5. Insert(row, {})
      BY <2>2
    <3> HIDE DEF row
    <3> QED
      BY <1>5, <3>1, <3>3, <3>4, <3>5, InsertKeeps
  <2> QED
    BY <1>5, <2>1, <2>2 DEF OpenL3
<1>6. CASE Layer(t) # "L3" /\ OpenL1(r, t, i, p)
  <2> DEFINE claimed == IF p = NoPeering THEN {} ELSE L3Symptoms(p)
  <2>1. Insert(NewIncident(r, t, i, p), claimed)
    BY <1>6 DEF OpenL1
  <2>2. Layer(t) = "L1"
    BY <1>6 DEF Layer
  <2>3. \A n \in claimed : /\ n \in DOMAIN incidents
                           /\ Open(incidents, n) /\ incidents[n].root = NoId
                           /\ Layer(incidents[n].type) = "L3"
    BY DEF L3Symptoms
  <2> HIDE DEF claimed
  <2> QED
    BY <1>3, <2>1, <2>2, <2>3, InsertKeeps
<1> QED
  BY <1>4, <1>5, <1>6 DEF OpenOrBump

-----------------------------------------------------------------------------
(* Clearing, healing and escalating                                        *)

LEMMA SystemReasons ==
  /\ "auto_cleared" \in ResolutionReason
  /\ "auto_healed" \in ResolutionReason
  /\ "root_cause_resolved" \in ResolutionReason
  /\ "reset" \in ResolutionReason
  /\ NoReason \notin ResolutionReason
BY DEF ResolutionReason, USER_RESOLUTION_REASONS, NoReason

LEMMA AfterClearSound ==
  ASSUME IInv, NEW types, NEW r, NEW i
  PROVE  /\ Sound(AfterClear(types, r, i))
         /\ DOMAIN AfterClear(types, r, i) = DOMAIN incidents
<1> DEFINE C == {n \in DOMAIN incidents : /\ incidents[n].router = r
                                          /\ incidents[n].iface = i
                                          /\ incidents[n].type \in types
                                          /\ Open(incidents, n)}
           marked == [n \in DOMAIN incidents |->
                        IF n \in C THEN [incidents[n] EXCEPT !.cleared = TRUE]
                                   ELSE incidents[n]]
<1>1. /\ Sound(incidents)
      /\ \A n \in DOMAIN incidents : incidents[n] \in Incident
  BY SoundIncidents
<1>2. C \in SUBSET DOMAIN incidents
  OBVIOUS
<1> HIDE DEF C
<1>3. CASE autoHeal
  <2>1. AfterClear(types, r, i) = ResolveEach(incidents, C, "auto_cleared", SYSTEM)
    BY <1>3 DEF AfterClear, C
  <2> QED
    BY <1>1, <1>2, <2>1, SystemReasons, ResolveEachSound
<1>4. CASE ~autoHeal
  <2>1. AfterClear(types, r, i) = marked
    BY <1>4 DEF AfterClear, C
  <2>2. \A n \in DOMAIN incidents :
          /\ marked[n] \in Incident
          /\ marked[n].status = incidents[n].status
          /\ marked[n].type = incidents[n].type
          /\ marked[n].root = incidents[n].root
          /\ marked[n].reason = incidents[n].reason
          /\ marked[n].stage = incidents[n].stage
    <3> TAKE n \in DOMAIN incidents
    <3>1. incidents[n] \in Incident
      BY <1>1
    <3>2. \/ marked[n] = incidents[n]
          \/ marked[n] = [incidents[n] EXCEPT !.cleared = TRUE]
      OBVIOUS
    <3> HIDE DEF marked
    <3> QED
      BY <3>1, <3>2 DEF Incident
  <2>3. DOMAIN marked = DOMAIN incidents /\ marked \in [DOMAIN incidents -> Incident]
    BY <2>2
  <2> HIDE DEF marked
  <2>4. Sound(marked)
    BY <1>1, <2>2, <2>3, AnnotatedSound
  <2> QED
    BY <2>1, <2>3, <2>4
<1> QED
  BY <1>3, <1>4

\* Sending open incidents that are no symptoms to triage.
LEMMA EscalatedSound ==
  ASSUME NEW rows, Sound(rows), NEW E \in SUBSET DOMAIN rows,
         \A n \in E : Open(rows, n) /\ rows[n].root = NoId
  PROVE  Sound(Escalated(rows, E)) /\ DOMAIN Escalated(rows, E) = DOMAIN rows
<1> DEFINE after == Escalated(rows, E)
<1>1. \A n \in DOMAIN rows : rows[n] \in Incident
  BY DEF Sound, Table
<1>2. "triage" \in IncidentStage
  BY DEF IncidentStage
<1>3. /\ DOMAIN after = DOMAIN rows
      /\ \A n \in DOMAIN rows :
           after[n] = IF n \in E THEN SetStage(rows[n], "triage") ELSE rows[n]
  BY DEF Escalated
<1>4. after \in [DOMAIN rows -> Incident]
  BY <1>1, <1>2, SetStageRow DEF Escalated
<1> HIDE DEF after
<1>5. ASSUME NEW n \in DOMAIN rows
      PROVE  \/ after[n] = rows[n]
             \/ /\ Open(rows, n) /\ rows[n].root = NoId
                /\ after[n].status = "open" /\ after[n].root = NoId
                /\ after[n].type = rows[n].type
                /\ after[n].reason = rows[n].reason
                /\ after[n].stage # "resolved"
  BY <1>1, <1>2, <1>3, SetStageRow DEF Open
<1>6. Sound(after)
  BY <1>3, <1>4, <1>5, RestagedSound
<1> QED
  BY <1>3, <1>6 DEF after

\* Auto-heal restages a row, to anything but resolved.
LEMMA HealedRow ==
  ASSUME NEW row \in Incident, NEW fixed \in BOOLEAN
  PROVE  /\ Healed(row, fixed) \in Incident
         /\ Healed(row, fixed).status = row.status
         /\ Healed(row, fixed).root = row.root
         /\ Healed(row, fixed).type = row.type
         /\ Healed(row, fixed).reason = row.reason
         /\ Healed(row, fixed).by = row.by
         /\ Healed(row, fixed).stage \in {row.stage, "triage", "monitoring"}
<1> DEFINE run == [row EXCEPT !.playbooks = @ + 1]
<1>1. /\ run \in Incident /\ run.status = row.status /\ run.root = row.root
      /\ run.type = row.type /\ run.reason = row.reason /\ run.stage = row.stage
      /\ run.by = row.by
  BY DEF Incident
<1>2. "triage" \in IncidentStage /\ "monitoring" \in IncidentStage
  BY DEF IncidentStage
<1> HIDE DEF run
<1>3. \/ Healed(row, fixed) = SetStage(row, "triage")
      \/ Healed(row, fixed) = SetStage(run, "triage")
      \/ Healed(row, fixed) = SetStage(run, "monitoring")
      \/ Healed(row, fixed) = run
  BY DEF Healed, run
<1> QED
  BY <1>1, <1>2, <1>3, SetStageRow

\* The same, when fixed is the set of incidents a playbook fixed.
HealedIn(row, n, fixed) == Healed(row, n \in fixed)

LEMMA HealedInRow ==
  ASSUME NEW row \in Incident, NEW n, NEW fixed
  PROVE  /\ HealedIn(row, n, fixed) \in Incident
         /\ HealedIn(row, n, fixed).status = row.status
         /\ HealedIn(row, n, fixed).root = row.root
         /\ HealedIn(row, n, fixed).type = row.type
         /\ HealedIn(row, n, fixed).reason = row.reason
         /\ HealedIn(row, n, fixed).by = row.by
         /\ HealedIn(row, n, fixed).stage \in {row.stage, "triage", "monitoring"}
<1> DEFINE answer == n \in fixed
<1>1. answer \in BOOLEAN
  OBVIOUS
<1>2. HealedIn(row, n, fixed) = Healed(row, answer)
  BY DEF HealedIn
<1> HIDE DEF answer
<1> QED
  BY <1>1, <1>2, HealedRow

HealedRows(B, fixed) ==
  [n \in DOMAIN incidents |->
     IF n \in B THEN HealedIn(incidents[n], n, fixed) ELSE incidents[n]]

LEMMA ReadyRows ==
  \A n \in Ready(incidents) : /\ n \in DOMAIN incidents /\ Open(incidents, n)
                              /\ incidents[n].root = NoId /\ incidents[n].stage = "new"
BY DEF Ready

\* The playbooks of one batch, before what they fixed for good is resolved.
LEMMA HealedRowsSound ==
  ASSUME IInv, NEW B \in SUBSET Ready(incidents), NEW fixed
  PROVE  /\ Sound(HealedRows(B, fixed)) /\ DOMAIN HealedRows(B, fixed) = DOMAIN incidents
         /\ \A n \in DOMAIN incidents :
              /\ HealedRows(B, fixed)[n].status = incidents[n].status
              /\ HealedRows(B, fixed)[n].by = incidents[n].by
              /\ HealedRows(B, fixed)[n].reason = incidents[n].reason
              /\ HealedRows(B, fixed)[n].type = incidents[n].type
              /\ n \in B => HealedRows(B, fixed)[n].stage \in {"new", "triage", "monitoring"}
              /\ n \notin B => HealedRows(B, fixed)[n] = incidents[n]
<1> DEFINE healed == HealedRows(B, fixed)
<1>1. /\ Sound(incidents)
      /\ \A n \in DOMAIN incidents : incidents[n] \in Incident
  BY SoundIncidents
<1>2. \A n \in B : /\ n \in DOMAIN incidents /\ Open(incidents, n)
                   /\ incidents[n].root = NoId /\ incidents[n].stage = "new"
  BY ReadyRows
<1>3. /\ DOMAIN healed = DOMAIN incidents
      /\ \A n \in B : healed[n] = HealedIn(incidents[n], n, fixed)
      /\ \A n \in DOMAIN incidents \ B : healed[n] = incidents[n]
  BY <1>2 DEF HealedRows
<1> HIDE DEF healed
<1>4. ASSUME NEW n \in B
      PROVE  /\ healed[n] \in Incident
             /\ healed[n].status = incidents[n].status
             /\ healed[n].root = incidents[n].root
             /\ healed[n].type = incidents[n].type
             /\ healed[n].reason = incidents[n].reason
             /\ healed[n].by = incidents[n].by
             /\ healed[n].stage \in {incidents[n].stage, "triage", "monitoring"}
  <2>1. incidents[n] \in Incident
    BY <1>1, <1>2
  <2>2. healed[n] = HealedIn(incidents[n], n, fixed)
    BY <1>3
  <2> QED
    BY <2>1, <2>2, HealedInRow
<1>5. healed \in [DOMAIN incidents -> Incident]
  BY <1>1, <1>3, <1>4 DEF healed, HealedRows
<1>6. ASSUME NEW n \in DOMAIN incidents
      PROVE  \/ healed[n] = incidents[n]
             \/ /\ Open(incidents, n) /\ incidents[n].root = NoId
                /\ healed[n].status = "open" /\ healed[n].root = NoId
                /\ healed[n].type = incidents[n].type
                /\ healed[n].reason = incidents[n].reason
                /\ healed[n].stage # "resolved"
  BY <1>2, <1>3, <1>4 DEF Open
<1>7. Sound(healed)
  BY <1>1, <1>3, <1>5, <1>6, RestagedSound
<1>8. \A n \in DOMAIN incidents :
        /\ healed[n].status = incidents[n].status
        /\ healed[n].by = incidents[n].by /\ healed[n].reason = incidents[n].reason
        /\ healed[n].type = incidents[n].type
        /\ n \in B => healed[n].stage \in {"new", "triage", "monitoring"}
        /\ n \notin B => healed[n] = incidents[n]
  BY <1>2, <1>3, <1>4
<1> QED
  BY <1>3, <1>7, <1>8 DEF healed

LEMMA JudgedRows ==
  ASSUME NEW B \in SUBSET Ready(incidents), NEW fixed
  PROVE  /\ AutoHealed(B, fixed) \in SUBSET DOMAIN incidents
         /\ autoHeal => Judged(B, fixed) = ResolveEach(HealedRows(B, fixed),
                          AutoHealed(B, fixed), "auto_healed", SYSTEM)
         /\ ~autoHeal => Judged(B, fixed) = Escalated(incidents, B)
<1>1. AutoHealed(B, fixed) \in SUBSET DOMAIN incidents
  BY ReadyRows DEF AutoHealed
<1> QED
  BY <1>1 DEF Judged, HealedRows, HealedIn, Escalated

LEMMA JudgedSound ==
  ASSUME IInv, NEW B \in SUBSET Ready(incidents), NEW fixed
  PROVE  Sound(Judged(B, fixed)) /\ DOMAIN Judged(B, fixed) = DOMAIN incidents
<1>1. CASE autoHeal
  <2>1. Sound(HealedRows(B, fixed)) /\ DOMAIN HealedRows(B, fixed) = DOMAIN incidents
    BY HealedRowsSound
  <2>2. /\ AutoHealed(B, fixed) \in SUBSET DOMAIN HealedRows(B, fixed)
        /\ Judged(B, fixed) = ResolveEach(HealedRows(B, fixed), AutoHealed(B, fixed),
                                          "auto_healed", SYSTEM)
    BY <1>1, <2>1, JudgedRows
  <2> QED
    BY <2>1, <2>2, SystemReasons, ResolveEachSound
<1>2. CASE ~autoHeal
  <2>1. Judged(B, fixed) = Escalated(incidents, B)
    BY <1>2, JudgedRows
  <2>2. /\ B \in SUBSET DOMAIN incidents
        /\ \A n \in B : Open(incidents, n) /\ incidents[n].root = NoId
    BY ReadyRows
  <2> QED
    BY <2>1, <2>2, SoundIncidents, EscalatedSound
<1> QED
  BY <1>1, <1>2

LEMMA SweepKeeps ==
  ASSUME IInv, Sweep
  PROVE  IInv'
<1>1. PICK B \in OldestBatch(incidents, Ready(incidents)) :
        \E fixed \in SUBSET B :
          \E E \in Batch(Overdue(Judged(B, fixed))) : Write(Escalated(Judged(B, fixed), E))
  BY DEF Sweep
<1>2. PICK fixed \in SUBSET B :
        \E E \in Batch(Overdue(Judged(B, fixed))) : Write(Escalated(Judged(B, fixed), E))
  BY <1>1
<1> DEFINE judged == Judged(B, fixed)
<1>3. PICK E \in Batch(Overdue(judged)) : Write(Escalated(judged, E))
  BY <1>2
<1>4. B \in SUBSET Ready(incidents)
  BY DEF OldestBatch, Batch
<1>5. Sound(judged) /\ DOMAIN judged = DOMAIN incidents
  BY <1>4, JudgedSound
<1> HIDE DEF judged
<1>6. E \in SUBSET Overdue(judged)
  BY DEF Batch
<1>7. \A n \in E : n \in DOMAIN judged /\ Open(judged, n) /\ judged[n].stage = "monitoring"
  BY <1>6 DEF Overdue
<1>8. \A n \in E : judged[n].root = NoId
  <2>1. TreeOf(judged)
    BY <1>5 DEF Sound
  <2> QED
    BY <1>7, <2>1 DEF TreeOf, OpenSymptom
<1>9. Sound(Escalated(judged, E)) /\ DOMAIN Escalated(judged, E) = DOMAIN judged
  BY <1>5, <1>7, <1>8, EscalatedSound
<1> QED
  BY <1>3, <1>5, <1>9, WriteKeeps DEF Sweep

-----------------------------------------------------------------------------
(* Traps                                                                   *)

LEMMA PortTyped ==
  ASSUME NEW port \in Port
  PROVE  port[1] \in Routers /\ port[2] \in Ifaces \cup {NoIface}
BY DEF Port

LEMMA LinkTypes ==
  "LINK_FLAP" \in AUTO_HEAL_ELIGIBLE_TYPES /\ "LINK_DOWN" \in AUTO_HEAL_ELIGIBLE_TYPES
BY DEF AUTO_HEAL_ELIGIBLE_TYPES

LEMMA LinkEventTyped ==
  ASSUME IInv, NEW r, NEW i, <<r, i>> \in LinkPorts, LinkEvent(r, i)
  PROVE  /\ autoHeal' \in BOOLEAN
         /\ linkEvents' \in [LinkPorts -> 0 .. FlapThreshold]
<1>1. /\ autoHeal \in BOOLEAN /\ linkEvents \in [LinkPorts -> 0 .. FlapThreshold]
      /\ FlapThreshold \in Nat
  BY BoundAssumption DEF IInv, TypeOK
<1>2. CountLinkEvent(r, i) \in 0 .. FlapThreshold
  BY <1>1 DEF CountLinkEvent
<1> QED
  BY <1>1, <1>2 DEF LinkEvent

LEMMA LinkTrapKeeps ==
  ASSUME IInv, LinkTrap
  PROVE  IInv'
<1>1. PICK port \in LinkPorts :
        LinkFlap(port[1], port[2]) \/ LinkDown(port[1], port[2]) \/ LinkUp(port[1], port[2])
  BY DEF LinkTrap
<1> DEFINE r == port[1]
           i == port[2]
<1>2. r \in Routers /\ i \in Ifaces \cup {NoIface}
  BY InputAssumption, PortTyped
<1>3. <<r, i>> \in LinkPorts
  BY InputAssumption DEF Port
<1> HIDE DEF r, i
<1>4. NoPeering \in Peerings \cup {NoPeering} /\ TypeOK
  BY DEF IInv
<1>5. ASSUME NEW s \in RouterStatus, NEW t \in AUTO_HEAL_ELIGIBLE_TYPES,
             LinkEvent(r, i), routers' = [routers EXCEPT ![r] = s],
             OpenOrBump(r, t, i, NoPeering)
      PROVE  IInv'
  <2>1. routers' \in [Fleet -> RouterStatus] /\ DOMAIN routers' = Fleet
    BY <1>4, <1>5 DEF TypeOK, Fleet
  <2> QED
    BY <1>2, <1>3, <1>4, <1>5, <2>1, LinkEventTyped, OpenOrBumpKeeps, StepKeeps
<1>6. CASE LinkFlap(r, i)
  BY <1>5, <1>6, LinkTypes DEF LinkFlap, RouterStatus
<1>7. CASE LinkDown(r, i)
  BY <1>5, <1>7, LinkTypes DEF LinkDown, RouterStatus
<1>8. CASE LinkUp(r, i)
  <2>1. /\ incidents' = AfterClear(LINK_TYPES, r, i) /\ nextId' = nextId
        /\ routers' = RefreshRouterLinkStatus(incidents', {r})
        /\ LinkEvent(r, i)
    BY <1>8 DEF LinkUp
  <2>2. Sound(incidents') /\ DOMAIN incidents' = DOMAIN incidents
    BY <2>1, AfterClearSound
  <2>3. routers' \in [Fleet -> RouterStatus] /\ DOMAIN routers' = Fleet
    BY <1>4, <2>1, RefreshTyped
  <2>4. nextId' \in 1 .. MaxIncidents + 1 /\ DOMAIN incidents' \subseteq 1 .. nextId' - 1
    BY <1>4, <2>1, <2>2 DEF TypeOK
  <2> QED
    BY <1>3, <2>1, <2>2, <2>3, <2>4, LinkEventTyped, StepKeeps
<1> QED
  BY <1>1, <1>6, <1>7, <1>8 DEF r, i

LEMMA RaiseTrapKeeps ==
  ASSUME IInv, NEW r \in Routers, NEW t \in AUTO_HEAL_ELIGIBLE_TYPES,
         NEW i \in Ifaces \cup {NoIface}, NEW p \in Peerings \cup {NoPeering},
         OpenOrBump(r, t, i, p), UNCHANGED <<routers, autoHeal, linkEvents>>
  PROVE  IInv'
<1>1. /\ routers' \in [Fleet -> RouterStatus] /\ DOMAIN routers' = Fleet
      /\ autoHeal' \in BOOLEAN /\ linkEvents' \in [LinkPorts -> 0 .. FlapThreshold]
  BY DEF IInv, TypeOK, Fleet
<1> QED
  BY <1>1, OpenOrBumpKeeps, StepKeeps

LEMMA ClearTrapKeeps ==
  ASSUME IInv, NEW r, NEW t, NEW i, ClearTrap(r, t, i)
  PROVE  IInv'
BY AfterClearSound, WriteKeeps DEF ClearTrap

LEMMA FiberCutClearKeeps ==
  ASSUME IInv, NEW p, FiberCutClear(p)
  PROVE  IInv'
<1>1. FiberIncidents(p) \in SUBSET DOMAIN incidents
  BY DEF FiberIncidents
<1>2. LET rows == ResolveEach(incidents, FiberIncidents(p), "auto_cleared", SYSTEM)
      IN Sound(rows) /\ DOMAIN rows = DOMAIN incidents
  BY <1>1, SoundIncidents, SystemReasons, ResolveEachSound
<1> QED
  BY <1>2, WriteKeeps DEF FiberCutClear

-----------------------------------------------------------------------------
(* Operators and administrators                                            *)

LEMMA UserOfTyped ==
  ASSUME NEW principal \in Principals
  PROVE  UserOf(principal) \in Users \cup {Nobody}
BY InputAssumption DEF UserOf

\* An operator's touch on one open incident that is no symptom.
LEMMA TouchKeeps ==
  ASSUME IInv, NEW n \in DOMAIN incidents, Actionable(n), NEW row \in Incident,
         row.status = "open", row.root = NoId, row.type = incidents[n].type,
         row.reason = incidents[n].reason, row.stage # "resolved",
         incidents' = [incidents EXCEPT ![n] = row],
         UNCHANGED <<nextId, routers, autoHeal, linkEvents>>
  PROVE  IInv'
<1>1. /\ Sound(incidents)
      /\ \A m \in DOMAIN incidents : incidents[m] \in Incident
  BY SoundIncidents
<1>2. incidents \in [DOMAIN incidents -> Incident]
  BY DEF IInv, TypeOK
<1>3. /\ DOMAIN incidents' = DOMAIN incidents /\ incidents'[n] = row
      /\ \A m \in DOMAIN incidents : m # n => incidents'[m] = incidents[m]
      /\ incidents' \in [DOMAIN incidents -> Incident]
  BY <1>2
<1>4. Open(incidents, n) /\ incidents[n].root = NoId
  BY DEF Actionable
<1>5. Sound(incidents')
  BY <1>1, <1>3, <1>4, RestagedSound
<1>6. /\ nextId' \in 1 .. MaxIncidents + 1 /\ DOMAIN incidents' \subseteq 1 .. nextId' - 1
      /\ routers' \in [Fleet -> RouterStatus] /\ DOMAIN routers' = Fleet
      /\ autoHeal' \in BOOLEAN /\ linkEvents' \in [LinkPorts -> 0 .. FlapThreshold]
  BY <1>3 DEF IInv, TypeOK, Fleet
<1> QED
  BY <1>5, <1>6, StepKeeps

LEMMA AcknowledgeKeeps ==
  ASSUME IInv, NEW n \in DOMAIN incidents, NEW principal \in Principals,
         Acknowledge(n, principal)
  PROVE  IInv'
<1> DEFINE staged == IF incidents[n].stage = "dispatched" THEN incidents[n]
                     ELSE SetStage(incidents[n], "acknowledged")
           row == Acknowledged(incidents[n], UserOf(principal))
<1>1. incidents[n] \in Incident /\ incidents[n].status = "open" /\ incidents[n].root = NoId
  BY SoundIncidents DEF Acknowledge, Actionable, Open
<1>2. "acknowledged" \in IncidentStage
  BY DEF IncidentStage
<1>3. /\ staged \in Incident /\ staged.status = "open" /\ staged.root = NoId
      /\ staged.type = incidents[n].type /\ staged.reason = incidents[n].reason
      /\ staged.stage # "resolved"
  BY <1>1, <1>2, SetStageRow
<1>4. row = [staged EXCEPT !.owner = UserOf(principal)]
  BY DEF Acknowledged
<1>5. incidents[n].owner \in Users \cup {Nobody}
  BY <1>1 DEF Incident
<1> HIDE DEF staged, row
<1>6. /\ row \in Incident /\ row.status = "open" /\ row.root = NoId
      /\ row.type = incidents[n].type /\ row.reason = incidents[n].reason
      /\ row.stage # "resolved"
  BY <1>3, <1>4, <1>5, UserOfTyped DEF Incident
<1>7. incidents' = [incidents EXCEPT ![n] = row]
  BY DEF Acknowledge, row
<1> QED
  BY <1>6, <1>7, TouchKeeps DEF Acknowledge

LEMMA DispatchKeeps ==
  ASSUME IInv, NEW n \in DOMAIN incidents, NEW principal \in Principals,
         Dispatch(n, principal)
  PROVE  IInv'
<1> DEFINE staged == SetStage(incidents[n], "dispatched")
           row == Dispatched(incidents[n], UserOf(principal))
<1>1. incidents[n] \in Incident /\ incidents[n].status = "open" /\ incidents[n].root = NoId
  BY SoundIncidents DEF Dispatch, Actionable, Open
<1>2. "dispatched" \in IncidentStage
  BY DEF IncidentStage
<1>3. /\ staged \in Incident /\ staged.status = "open" /\ staged.root = NoId
      /\ staged.type = incidents[n].type /\ staged.reason = incidents[n].reason
      /\ staged.stage # "resolved"
  BY <1>1, <1>2, SetStageRow
<1>4. row = [staged EXCEPT !.owner = IF incidents[n].owner = Nobody
                                          THEN UserOf(principal) ELSE incidents[n].owner]
  BY DEF Dispatched
<1>5. incidents[n].owner \in Users \cup {Nobody}
  BY <1>1 DEF Incident
<1> HIDE DEF staged, row
<1>6. /\ row \in Incident /\ row.status = "open" /\ row.root = NoId
      /\ row.type = incidents[n].type /\ row.reason = incidents[n].reason
      /\ row.stage # "resolved"
  BY <1>3, <1>4, <1>5, UserOfTyped DEF Incident
<1>7. incidents' = [incidents EXCEPT ![n] = row]
  BY DEF Dispatch, row
<1> QED
  BY <1>6, <1>7, TouchKeeps DEF Dispatch

LEMMA ResolveByUserKeeps ==
  ASSUME IInv, NEW S \in SUBSET DOMAIN incidents, NEW principal \in Principals,
         NEW reason \in OperatorReasons, ResolveByUser(S, principal, reason)
  PROVE  IInv'
<1> DEFINE asked == {n \in S : incidents[n].root = NoId}
           rows == ResolveEach(incidents, asked, reason, principal)
<1>1. reason \in ResolutionReason /\ asked \in SUBSET DOMAIN incidents
  BY InputAssumption DEF ResolutionReason
<1>2. Write(rows) /\ UNCHANGED <<autoHeal, linkEvents>>
  BY DEF ResolveByUser
<1> HIDE DEF asked
<1>3. Sound(rows) /\ DOMAIN rows = DOMAIN incidents
  BY <1>1, SoundIncidents, ResolveEachSound
<1> HIDE DEF rows
<1> QED
  BY <1>2, <1>3, WriteKeeps

\* Nothing stays open, so the tree has no symptom left.
LEMMA ResetAllOpenKeeps ==
  ASSUME IInv, NEW withRoot \in SUBSET DOMAIN incidents, NEW principal \in Principals,
         ResetAllOpen(withRoot, principal)
  PROVE  IInv'
<1> DEFINE open == {n \in DOMAIN incidents : Open(incidents, n)}
           rows == [n \in DOMAIN incidents |->
                      IF n \notin open THEN incidents[n]
                      ELSE IF n \in withRoot
                             THEN Resolved(incidents[n], "root_cause_resolved", principal)
                             ELSE Resolved(incidents[n], "reset", principal)]
<1>1. /\ Sound(incidents)
      /\ \A n \in DOMAIN incidents : incidents[n] \in Incident
  BY SoundIncidents
<1>2. Write(rows) /\ UNCHANGED <<autoHeal, linkEvents>>
  BY DEF ResetAllOpen
<1>3. \A n \in DOMAIN incidents :
        \/ rows[n] = incidents[n] /\ ~Open(incidents, n)
        \/ rows[n] = Resolved(incidents[n], "root_cause_resolved", principal)
        \/ rows[n] = Resolved(incidents[n], "reset", principal)
  OBVIOUS
<1>4. DOMAIN rows = DOMAIN incidents /\ rows \in [DOMAIN incidents -> Incident]
  BY <1>1, SystemReasons, ResolvedRow
<1> HIDE DEF rows
<1>5. \A n \in DOMAIN incidents :
        /\ ~Open(rows, n)
        /\ rows[n].status = "resolved" <=> rows[n].stage = "resolved"
        /\ rows[n].status = "resolved" <=> rows[n].reason # NoReason
  <2>1. StagedOf(incidents)
    BY <1>1 DEF Sound
  <2> TAKE n \in DOMAIN incidents
  <2>2. incidents[n] \in Incident
    BY <1>1
  <2>3. CASE rows[n] = incidents[n] /\ ~Open(incidents, n)
    BY <2>1, <2>3 DEF StagedOf, Open
  <2>4. CASE rows[n] = Resolved(incidents[n], "root_cause_resolved", principal)
    BY <2>2, <2>4, SystemReasons, ResolvedRow DEF Open
  <2>5. CASE rows[n] = Resolved(incidents[n], "reset", principal)
    BY <2>2, <2>5, SystemReasons, ResolvedRow DEF Open
  <2> QED
    BY <1>3, <2>3, <2>4, <2>5
<1>6. Sound(rows)
  <2>1. TreeOf(rows) /\ StagedOf(rows)
    BY <1>4, <1>5 DEF TreeOf, StagedOf, OpenSymptom
  <2>2. Table(rows)
    BY <1>1, <1>4 DEF Sound, Table
  <2> QED
    BY <2>1, <2>2 DEF Sound
<1> QED
  BY <1>2, <1>4, <1>6, WriteKeeps

\* A surviving symptom either keeps its root, which survives too, or loses
\* the reference and is a symptom no more.
LEMMA DeleteRouterKeeps ==
  ASSUME IInv, NEW r \in Routers, DeleteRouter(r)
  PROVE  IInv'
<1> DEFINE dead == {n \in DOMAIN incidents : incidents[n].router = r}
           gone == {p \in Peerings : r \in {SideA[p], SideB[p]}}
           row(n) == [incidents[n] EXCEPT !.root = IF @ \in dead THEN NoId ELSE @,
                                          !.peering = IF @ \in gone THEN NoPeering ELSE @]
<1>1. /\ incidents' = [n \in DOMAIN incidents \ dead |-> row(n)]
      /\ routers' = [s \in Fleet \ {r} |-> routers[s]]
      /\ UNCHANGED <<nextId, autoHeal, linkEvents>>
  BY DEF DeleteRouter
<1>2. /\ Sound(incidents)
      /\ \A n \in DOMAIN incidents : incidents[n] \in Incident
  BY SoundIncidents
<1> HIDE DEF dead, gone
<1>3. ASSUME NEW n \in DOMAIN incidents
      PROVE  /\ row(n) \in Incident
             /\ row(n).status = incidents[n].status
             /\ row(n).stage = incidents[n].stage
             /\ row(n).type = incidents[n].type
             /\ row(n).reason = incidents[n].reason
             /\ row(n).root = IF incidents[n].root \in dead THEN NoId ELSE incidents[n].root
  <2>1. incidents[n] \in Incident
    BY <1>2
  <2> DEFINE root == IF incidents[n].root \in dead THEN NoId ELSE incidents[n].root
             peering == IF incidents[n].peering \in gone THEN NoPeering
                        ELSE incidents[n].peering
  <2>2. root \in Ids \cup {NoId} /\ peering \in Peerings \cup {NoPeering}
    BY <2>1 DEF Incident
  <2>3. row(n) = [incidents[n] EXCEPT !.root = root, !.peering = peering]
    OBVIOUS
  <2> HIDE DEF root, peering, row
  <2>4. row(n) \in Incident
    BY <2>1, <2>2, <2>3 DEF Incident
  <2>5. /\ row(n).root = root
        /\ row(n).status = incidents[n].status
        /\ row(n).stage = incidents[n].stage
        /\ row(n).type = incidents[n].type
        /\ row(n).reason = incidents[n].reason
    BY <2>1, <2>3 DEF Incident
  <2> QED
    BY <2>4, <2>5 DEF root
<1>4. /\ DOMAIN incidents' = DOMAIN incidents \ dead
      /\ \A n \in DOMAIN incidents \ dead : incidents'[n] = row(n)
  BY <1>1
<1> HIDE DEF row
<1>5. Table(incidents')
  <2>1. incidents' \in [DOMAIN incidents \ dead -> Incident]
    BY <1>1, <1>3
  <2> QED
    BY <1>2, <1>4, <2>1 DEF Sound, Table
<1>6. StagedOf(incidents')
  <2>1. StagedOf(incidents)
    BY <1>2 DEF Sound
  <2> QED
    BY <1>3, <1>4, <2>1 DEF StagedOf
<1>7. TreeOf(incidents')
  <2>1. TreeOf(incidents)
    BY <1>2 DEF Sound
  <2> HIDE DEF Layer
  <2> SUFFICES ASSUME NEW n \in DOMAIN incidents \ dead, OpenSymptom(incidents', n)
               PROVE  /\ incidents'[n].stage = "suppressed"
                      /\ Layer(incidents'[n].type) = "L3"
                      /\ incidents'[n].root \in DOMAIN incidents \ dead
                      /\ incidents'[incidents'[n].root].status = "open"
                      /\ incidents'[incidents'[n].root].root = NoId
                      /\ Layer(incidents'[incidents'[n].root].type) = "L1"
    BY <1>4 DEF TreeOf
  <2> DEFINE root == incidents[n].root
  <2>2. root \notin dead /\ root # NoId /\ incidents'[n].root = root /\ Open(incidents, n)
    BY <1>3, <1>4 DEF OpenSymptom, Open
  <2>3. /\ incidents[n].stage = "suppressed" /\ Layer(incidents[n].type) = "L3"
        /\ root \in DOMAIN incidents /\ incidents[root].status = "open"
        /\ incidents[root].root = NoId /\ Layer(incidents[root].type) = "L1"
    BY <2>1, <2>2 DEF TreeOf, OpenSymptom
  <2>4. root \in DOMAIN incidents \ dead
    BY <2>2, <2>3
  <2>5. /\ incidents'[n].stage = "suppressed" /\ Layer(incidents'[n].type) = "L3"
    BY <1>3, <1>4, <2>3
  <2>6. /\ incidents'[root].status = "open" /\ incidents'[root].root = NoId
        /\ Layer(incidents'[root].type) = "L1"
    BY <1>3, <1>4, <2>3, <2>4
  <2> QED
    BY <2>2, <2>4, <2>5, <2>6
<1>8. /\ nextId' \in 1 .. MaxIncidents + 1 /\ DOMAIN incidents' \subseteq 1 .. nextId' - 1
      /\ DOMAIN routers' \subseteq Fleet /\ routers' \in [DOMAIN routers' -> RouterStatus]
      /\ autoHeal' \in BOOLEAN /\ linkEvents' \in [LinkPorts -> 0 .. FlapThreshold]
  BY <1>1, <1>4 DEF IInv, TypeOK, Fleet
<1> QED
  BY <1>5, <1>6, <1>7, <1>8, StepKeeps DEF Sound

-----------------------------------------------------------------------------
(* Time                                                                    *)

LEMMA TickKeeps ==
  ASSUME IInv, Tick
  PROVE  IInv'
<1> DEFINE row(n) == IF Open(incidents, n)
                     THEN [incidents[n] EXCEPT
                             !.age = Older(@, AgeCap),
                             !.stageAge = Older(@, StageAgeCap(incidents[n].stage))]
                     ELSE incidents[n]
<1>1. /\ incidents' = [n \in DOMAIN incidents |-> row(n)]
      /\ linkEvents' \in [LinkPorts -> 0 .. FlapThreshold]
      /\ UNCHANGED <<nextId, routers, autoHeal>>
  BY DEF Tick
<1>2. /\ Sound(incidents)
      /\ \A n \in DOMAIN incidents : incidents[n] \in Incident
  BY SoundIncidents
<1>3. ASSUME NEW n \in DOMAIN incidents
      PROVE  /\ row(n) \in Incident
             /\ row(n).status = incidents[n].status
             /\ row(n).stage = incidents[n].stage
             /\ row(n).type = incidents[n].type
             /\ row(n).reason = incidents[n].reason
             /\ row(n).root = incidents[n].root
  <2>1. incidents[n] \in Incident
    BY <1>2
  <2>2. incidents[n].age \in 0 .. AgeCap /\ incidents[n].stageAge \in Nat
    BY <2>1 DEF Incident
  <2>3. Older(incidents[n].age, AgeCap) \in 0 .. AgeCap
    BY <2>2, BoundAssumption DEF Older, AgeCap
  <2>4. StageAgeCap(incidents[n].stage) \in Nat
    BY BoundAssumption DEF StageAgeCap
  <2>5. Older(incidents[n].stageAge, StageAgeCap(incidents[n].stage)) \in Nat
    BY <2>2, <2>4 DEF Older
  <2> QED
    BY <2>1, <2>3, <2>5 DEF Incident
<1>4. /\ DOMAIN incidents' = DOMAIN incidents
      /\ \A n \in DOMAIN incidents : incidents'[n] = row(n)
  BY <1>1
<1> HIDE DEF row
<1>5. incidents' \in [DOMAIN incidents -> Incident]
  BY <1>1, <1>3
<1>6. Sound(incidents')
  BY <1>2, <1>3, <1>4, <1>5, AnnotatedSound
<1>7. /\ nextId' \in 1 .. MaxIncidents + 1 /\ DOMAIN incidents' \subseteq 1 .. nextId' - 1
      /\ routers' \in [Fleet -> RouterStatus] /\ DOMAIN routers' = Fleet
      /\ autoHeal' \in BOOLEAN
  BY <1>1, <1>4 DEF IInv, TypeOK, Fleet
<1> QED
  BY <1>1, <1>6, <1>7, StepKeeps

-----------------------------------------------------------------------------
(* The theorems                                                            *)

LEMMA InitKeeps ==
  ASSUME Init
  PROVE  IInv
<1>1. DOMAIN incidents = {} /\ incidents \in [DOMAIN incidents -> Incident]
  BY DEF Init
<1>2. nextId = 1 /\ nextId \in 1 .. MaxIncidents + 1
  BY BoundAssumption DEF Init
<1>3. /\ Fleet = Routers /\ routers \in [Fleet -> RouterStatus]
  BY DEF Init, Fleet, RouterStatus
<1>4. linkEvents \in [LinkPorts -> 0 .. FlapThreshold]
  BY BoundAssumption DEF Init
<1>5. TypeOK
  BY <1>1, <1>2, <1>3, <1>4 DEF Init, TypeOK
<1>6. SymptomTree /\ StageMatchesStatus
  BY <1>1 DEF SymptomTree, TreeOf, StageMatchesStatus, StagedOf
<1> QED
  BY <1>5, <1>6 DEF IInv

LEMMA TrapKeeps ==
  ASSUME IInv, Trap
  PROVE  IInv'
<1>1. NoPeering \in Peerings \cup {NoPeering} /\ Fleet \subseteq Routers
  BY DEF IInv, TypeOK
<1>2. CASE LinkTrap
  BY <1>2, LinkTrapKeeps
<1>3. ASSUME NEW r \in Routers, NEW t \in AUTO_HEAL_ELIGIBLE_TYPES,
             NEW i \in Ifaces \cup {NoIface}, RaiseTrap(r, t, i)
      PROVE  IInv'
  BY <1>1, <1>3, RaiseTrapKeeps DEF RaiseTrap
<1>4. ASSUME NEW port \in IsisPorts, IsisAdjacencyDown(port[1], port[2])
      PROVE  IInv'
  <2>1. port[1] \in Routers /\ port[2] \in Ifaces \cup {NoIface}
    BY InputAssumption, PortTyped
  <2>2. "ISIS_NBR_DOWN" \in AUTO_HEAL_ELIGIBLE_TYPES
    BY DEF AUTO_HEAL_ELIGIBLE_TYPES
  <2> QED
    BY <1>3, <1>4, <2>1, <2>2 DEF IsisAdjacencyDown
<1>5. ASSUME NEW port \in IsisPorts, IsisAdjacencyUp(port[1], port[2])
      PROVE  IInv'
  BY <1>5, ClearTrapKeeps DEF IsisAdjacencyUp
<1>6. ASSUME NEW port \in BgpPorts, BgpEstablished(port[1], port[2])
      PROVE  IInv'
  BY <1>6, ClearTrapKeeps DEF BgpEstablished
<1>7. ASSUME NEW alarm \in Raises, RaiseTrap(alarm[2], alarm[1], alarm[3])
      PROVE  IInv'
  <2>1. /\ alarm[1] \in AUTO_HEAL_ELIGIBLE_TYPES /\ alarm[2] \in Routers
        /\ alarm[3] \in Ifaces \cup {NoIface}
    BY InputAssumption
  <2> QED
    BY <1>3, <1>7, <2>1
<1>8. ASSUME NEW rule \in RuleClears, RuleClear(rule[2], rule[1], rule[3])
      PROVE  IInv'
  BY <1>8, ClearTrapKeeps DEF RuleClear
<1>9. ASSUME NEW p \in Peerings, FiberCut(p)
      PROVE  IInv'
  <2>1. /\ SideA[p] \in Routers /\ NoIface \in Ifaces \cup {NoIface}
        /\ "OPTICAL_ALARM" \in AUTO_HEAL_ELIGIBLE_TYPES
    BY TopologyAssumption DEF AUTO_HEAL_ELIGIBLE_TYPES
  <2> QED
    BY <1>9, <2>1, RaiseTrapKeeps DEF FiberCut
<1>10. ASSUME NEW p \in Peerings, FiberCutClear(p)
       PROVE  IInv'
  BY <1>10, FiberCutClearKeeps
<1>11. ASSUME NEW r \in Routers, Boot(r)
       PROVE  IInv'
  <2>1. /\ routers' \in [Fleet -> RouterStatus] /\ DOMAIN routers' = Fleet
        /\ UNCHANGED <<incidents, nextId, autoHeal, linkEvents>>
    BY <1>11 DEF Boot, IInv, TypeOK, Fleet, RouterStatus
  <2> QED
    BY <2>1, SoundIncidents, StepKeeps DEF IInv, TypeOK
<1> QED
  BY <1>2, <1>4, <1>5, <1>6, <1>7, <1>8, <1>9, <1>10, <1>11 DEF Trap

LEMMA SetAutoHealKeeps ==
  ASSUME IInv, NEW enabled \in BOOLEAN, SetAutoHeal(enabled)
  PROVE  IInv'
<1>1. /\ autoHeal' \in BOOLEAN /\ UNCHANGED <<incidents, nextId, routers, linkEvents>>
  BY DEF SetAutoHeal
<1>2. routers' \in [Fleet -> RouterStatus] /\ DOMAIN routers' = Fleet
  BY <1>1 DEF IInv, TypeOK, Fleet
<1> QED
  BY <1>1, <1>2, SoundIncidents, StepKeeps DEF IInv, TypeOK

\* Every step, and every stutter, keeps the invariant.
LEMMA NextKeeps ==
  ASSUME IInv, [Next]_vars
  PROVE  IInv'
<1>1. CASE Trap
  BY <1>1, TrapKeeps
<1>2. CASE Sweep
  BY <1>2, SweepKeeps
<1>3. CASE Operator
  BY <1>3, AcknowledgeKeeps, DispatchKeeps, ResolveByUserKeeps DEF Operator
<1>4. CASE Admin
  BY <1>4, ResetAllOpenKeeps, SetAutoHealKeeps, DeleteRouterKeeps DEF Admin
<1>5. CASE Tick
  BY <1>5, TickKeeps
<1>6. CASE UNCHANGED vars
  BY <1>6 DEF vars, IInv, TypeOK, Fleet, SymptomTree, StageMatchesStatus
<1> QED
  BY <1>1, <1>2, <1>3, <1>4, <1>5, <1>6 DEF Next

\* The inductive invariant holds in every reachable state: the columns keep
\* their types, the symptoms form a tree of depth one, and the coarse status
\* agrees with the stage, together, after any sequence of traps, sweeps,
\* operator actions and deletions.
THEOREM InductiveInvariant == Spec => []IInv
<1>1. Init => IInv
  BY InitKeeps
<1>2. IInv /\ [Next]_vars => IInv'
  BY NextKeeps
<1> QED
  BY <1>1, <1>2, PTL DEF Spec

\* Every committed row of the incidents and routers tables has its columns'
\* types, and no incident has an id that was not handed out yet.
THEOREM TypeCorrect == Spec => []TypeOK
<1>1. IInv => TypeOK
  BY DEF IInv
<1> QED
  BY <1>1, InductiveInvariant, PTL

\* No symptom outlives its root cause or hangs from another symptom
\* (service.py _link_symptom, _resolve and open_or_bump; routers.py
\* delete_router), whatever the topology and the number of incidents.
THEOREM SymptomTreeHolds == Spec => []SymptomTree
<1>1. IInv => SymptomTree
  BY DEF IInv
<1> QED
  BY <1>1, InductiveInvariant, PTL

\* The coarse status column and the workflow stage never disagree, and a
\* reason is on record exactly for what is resolved.
THEOREM StageMatchesStatusHolds == Spec => []StageMatchesStatus
<1>1. IInv => StageMatchesStatus
  BY DEF IInv
<1> QED
  BY <1>1, InductiveInvariant, PTL

=============================================================================

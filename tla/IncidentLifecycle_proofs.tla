---------------------- MODULE IncidentLifecycle_proofs ----------------------
(***************************************************************************)
(* The proof that IncidentWorkflow implements IncidentLifecycle.  Part 1   *)
(* says what a write of the incidents table does to the lives of its       *)
(* incidents; part 2 maps every action to a step of the abstract           *)
(* specification or to none.                                               *)
(***************************************************************************)
EXTENDS IncidentWorkflow_proofs

-----------------------------------------------------------------------------
(* Part 1: lives                                                           *)

Owned(rows, n) == rows[n].stage \in HUMAN_OWNED_STAGES

\* From rows to after, agent closes the incidents of S, and nothing else
\* happens to the life of any incident.
Closes(rows, after, S, agent) ==
  /\ DOMAIN after = DOMAIN rows
  /\ \A n \in S : n \in DOMAIN rows /\ Open(rows, n)
  /\ \A n \in S : ~Open(after, n) /\ Signature(after[n]) = agent
  /\ \A n \in DOMAIN rows \ S :
       /\ Open(after, n) <=> Open(rows, n)
       /\ Signature(after[n]) = Signature(rows[n])
       /\ Open(rows, n) => (Owned(after, n) <=> Owned(rows, n))

LEMMA QuietThenCloses ==
  ASSUME NEW rows, NEW mid, NEW after, NEW S, NEW agent,
         Closes(rows, mid, {}, agent), Closes(mid, after, S, agent)
  PROVE  Closes(rows, after, S, agent)
BY DEF Closes

LEMMA ClosesThenQuiet ==
  ASSUME NEW rows, NEW mid, NEW after, NEW S, NEW agent,
         Closes(rows, mid, S, agent), Closes(mid, after, {}, agent)
  PROVE  Closes(rows, after, S, agent)
<1>1. /\ DOMAIN after = DOMAIN rows
      /\ \A n \in S : n \in DOMAIN rows /\ Open(rows, n)
  BY DEF Closes
<1>2. ASSUME NEW n \in S
      PROVE  ~Open(after, n) /\ Signature(after[n]) = agent
  BY DEF Closes
<1>3. ASSUME NEW n \in DOMAIN rows \ S
      PROVE  /\ Open(after, n) <=> Open(rows, n)
             /\ Signature(after[n]) = Signature(rows[n])
             /\ Open(rows, n) => (Owned(after, n) <=> Owned(rows, n))
  BY DEF Closes
<1> QED
  BY <1>1, <1>2, <1>3 DEF Closes

\* What the system signs by itself, and what a caller of the API signs.
OwnSignature == <<SYSTEM, TRUE>>
SignatureOf(principal) == <<principal, FALSE>>

\* One cascade of _resolve has one author, and a symptom it releases was in
\* nobody's hands.  What heals for good is no root, so nothing goes with it.
LEMMA ResolveEachCloses ==
  ASSUME NEW rows, Sound(rows), NEW S \in SUBSET DOMAIN rows,
         NEW reason \in ResolutionReason, NEW by \in Principals \cup {SYSTEM},
         reason = "auto_healed" => \A n \in S : Layer(rows[n].type) # "L1"
  PROVE  \E T : Closes(rows, ResolveEach(rows, S, reason, by), T, <<by, reason \in AutoReasons>>)
<1> DEFINE after == ResolveEach(rows, S, reason, by)
           closing == Closing(rows, S)
           symptoms == OpenSymptoms(rows, closing) \ closing
           agent == <<by, reason \in AutoReasons>>
<1>1. Table(rows) /\ TreeOf(rows)
  BY DEF Sound
<1>2. /\ DOMAIN after = DOMAIN rows
      /\ \A n \in DOMAIN rows : after[n] =
           IF n \in closing THEN Resolved(rows[n], reason, by)
           ELSE IF n \notin symptoms THEN rows[n]
           ELSE IF reason = "auto_cleared" THEN Released(rows[n])
           ELSE Resolved(rows[n], "root_cause_resolved", by)
  BY DEF ResolveEach
<1>3. /\ \A n \in closing : n \in DOMAIN rows /\ n \in S /\ Open(rows, n)
      /\ NoId \notin closing
  BY <1>1 DEF Closing, Table, Ids, NoId
<1>4. \A n \in symptoms : /\ n \in DOMAIN rows /\ Open(rows, n)
                          /\ rows[n].stage = "suppressed" /\ rows[n].root \in closing
                          /\ Layer(rows[rows[n].root].type) = "L1"
  BY <1>1, <1>3 DEF OpenSymptoms, TreeOf, OpenSymptom
<1>5. symptoms # {} => reason # "auto_healed"
  BY <1>3, <1>4
<1> HIDE DEF after, closing, symptoms
<1>6. ASSUME NEW n \in DOMAIN rows
      PROVE  \/ Open(rows, n) /\ ~Open(after, n) /\ Signature(after[n]) = agent
             \/ /\ Open(after, n) <=> Open(rows, n)
                /\ Signature(after[n]) = Signature(rows[n])
                /\ Open(rows, n) => (Owned(after, n) <=> Owned(rows, n))
  <2>1. rows[n] \in Incident
    BY <1>1 DEF Table
  <2>2. CASE n \in closing
    <3>1. after[n] = Resolved(rows[n], reason, by)
      BY <1>2, <2>2
    <3>2. after[n].status = "resolved" /\ after[n].by = by /\ after[n].reason = reason
      BY <2>1, <3>1, ResolvedRow
    <3> QED
      BY <1>3, <2>2, <3>2 DEF Open, Signature
  <2>3. CASE n \notin closing /\ n \notin symptoms
    BY <1>2, <2>3 DEF Open, Owned
  <2>4. CASE n \notin closing /\ n \in symptoms /\ reason = "auto_cleared"
    <3>1. after[n] = Released(rows[n])
      BY <1>2, <2>4
    <3>2. /\ after[n].stage = "new" /\ after[n].status = rows[n].status
          /\ after[n].by = rows[n].by /\ after[n].reason = rows[n].reason
      BY <2>1, <3>1, ReleasedRow
    <3> QED
      BY <1>4, <2>4, <3>2 DEF Open, Owned, HUMAN_OWNED_STAGES, Signature
  <2>5. CASE n \notin closing /\ n \in symptoms /\ reason # "auto_cleared"
    <3>1. after[n] = Resolved(rows[n], "root_cause_resolved", by)
      BY <1>2, <2>5
    <3>2. /\ after[n].status = "resolved" /\ after[n].by = by
          /\ after[n].reason = "root_cause_resolved"
      BY <2>1, <3>1, SystemReasons, ResolvedRow
    <3>3. reason \notin AutoReasons /\ "root_cause_resolved" \notin AutoReasons
      BY <1>5, <2>5 DEF AutoReasons
    <3> QED
      BY <1>4, <2>5, <3>2, <3>3 DEF Open, Signature
  <2> QED
    BY <2>2, <2>3, <2>4, <2>5
<1> DEFINE T == {n \in DOMAIN rows : Open(rows, n) /\ ~Open(after, n)}
<1> HIDE DEF agent
<1>7. Closes(rows, after, T, agent)
  BY <1>2, <1>6 DEF Closes
<1> QED
  BY <1>7 DEF after, agent

\* Restaging what nobody owns, to a stage nobody owns, is no event of a life.
LEMMA QuietCloses ==
  ASSUME NEW rows, NEW after, NEW agent, DOMAIN after = DOMAIN rows,
         \A n \in DOMAIN rows :
           /\ after[n].status = rows[n].status
           /\ after[n].by = rows[n].by /\ after[n].reason = rows[n].reason
           /\ \/ after[n].stage = rows[n].stage
              \/ ~Owned(rows, n) /\ ~Owned(after, n)
  PROVE  Closes(rows, after, {}, agent)
<1>1. ASSUME NEW n \in DOMAIN rows
      PROVE  /\ Open(after, n) <=> Open(rows, n)
             /\ Signature(after[n]) = Signature(rows[n])
             /\ Open(rows, n) => (Owned(after, n) <=> Owned(rows, n))
  BY DEF Open, Owned, Signature
<1> QED
  BY <1>1 DEF Closes

LEMMA AfterClearCloses ==
  ASSUME IInv, NEW types, NEW r, NEW i
  PROVE  \E T : /\ Closes(incidents, AfterClear(types, r, i), T, OwnSignature)
                /\ T # {} => autoHeal
<1> DEFINE C == {n \in DOMAIN incidents : /\ incidents[n].router = r
                                          /\ incidents[n].iface = i
                                          /\ incidents[n].type \in types
                                          /\ Open(incidents, n)}
           marked == [n \in DOMAIN incidents |->
                        IF n \in C THEN [incidents[n] EXCEPT !.cleared = TRUE]
                                   ELSE incidents[n]]
<1>1. /\ Sound(incidents)
      /\ \A n \in DOMAIN incidents : incidents[n] \in Incident
  BY SoundIncidents
<1>2. C \in SUBSET DOMAIN incidents
  OBVIOUS
<1> HIDE DEF C
<1>3. CASE autoHeal
  <2>1. AfterClear(types, r, i) = ResolveEach(incidents, C, "auto_cleared", SYSTEM)
    BY <1>3 DEF AfterClear, C
  <2>2. \E T : Closes(incidents, ResolveEach(incidents, C, "auto_cleared", SYSTEM), T,
                     <<SYSTEM, "auto_cleared" \in AutoReasons>>)
    BY <1>1, <1>2, SystemReasons, ResolveEachCloses
  <2>3. OwnSignature = <<SYSTEM, "auto_cleared" \in AutoReasons>>
    BY DEF OwnSignature, AutoReasons
  <2> QED
    BY <1>3, <2>1, <2>2, <2>3
<1>4. CASE ~autoHeal
  <2>1. AfterClear(types, r, i) = marked
    BY <1>4 DEF AfterClear, C
  <2>2. \A n \in DOMAIN incidents :
          /\ marked[n].status = incidents[n].status
          /\ marked[n].by = incidents[n].by /\ marked[n].reason = incidents[n].reason
          /\ marked[n].stage = incidents[n].stage
    <3> TAKE n \in DOMAIN incidents
    <3>1. incidents[n] \in Incident
      BY <1>1
    <3>2. \/ marked[n] = incidents[n]
          \/ marked[n] = [incidents[n] EXCEPT !.cleared = TRUE]
      OBVIOUS
    <3> HIDE DEF marked
    <3> QED
      BY <3>1, <3>2 DEF Incident
  <2>3. DOMAIN marked = DOMAIN incidents
    OBVIOUS
  <2> HIDE DEF marked
  <2>4. Closes(incidents, marked, {}, OwnSignature)
    BY <2>2, <2>3, QuietCloses
  <2> QED
    BY <2>1, <2>4
<1> QED
  BY <1>3, <1>4

LEMMA EscalatedCloses ==
  ASSUME NEW rows, Sound(rows), NEW E, NEW agent,
         \A n \in E : n \in DOMAIN rows /\ ~Owned(rows, n)
  PROVE  Closes(rows, Escalated(rows, E), {}, agent)
<1> DEFINE after == Escalated(rows, E)
<1>1. /\ DOMAIN after = DOMAIN rows
      /\ \A n \in DOMAIN rows :
           after[n] = IF n \in E THEN SetStage(rows[n], "triage") ELSE rows[n]
  BY DEF Escalated
<1> HIDE DEF after
<1>2. ASSUME NEW n \in DOMAIN rows
      PROVE  /\ after[n].status = rows[n].status
             /\ after[n].by = rows[n].by /\ after[n].reason = rows[n].reason
             /\ \/ after[n].stage = rows[n].stage
                \/ ~Owned(rows, n) /\ ~Owned(after, n)
  <2>1. rows[n] \in Incident /\ "triage" \in IncidentStage
    BY DEF Sound, Table, IncidentStage
  <2> QED
    BY <1>1, <2>1, SetStageRow DEF Owned, HUMAN_OWNED_STAGES
<1> QED
  BY <1>1, <1>2, QuietCloses DEF after

LEMMA JudgedCloses ==
  ASSUME IInv, NEW B \in SUBSET Ready(incidents), NEW fixed
  PROVE  \E T : Closes(incidents, Judged(B, fixed), T, OwnSignature) /\ (T # {} => autoHeal)
<1>1. CASE autoHeal
  <2> DEFINE healed == HealedRows(B, fixed)
             S == AutoHealed(B, fixed)
  <2>1. /\ Sound(healed) /\ DOMAIN healed = DOMAIN incidents
        /\ \A n \in DOMAIN incidents :
             /\ healed[n].status = incidents[n].status
             /\ healed[n].by = incidents[n].by /\ healed[n].reason = incidents[n].reason
             /\ healed[n].type = incidents[n].type
             /\ n \in B => healed[n].stage \in {"new", "triage", "monitoring"}
             /\ n \notin B => healed[n] = incidents[n]
    BY HealedRowsSound
  <2>2. /\ S \in SUBSET DOMAIN healed
        /\ Judged(B, fixed) = ResolveEach(healed, S, "auto_healed", SYSTEM)
    BY <1>1, <2>1, JudgedRows
  <2>3. \A n \in S : Layer(healed[n].type) # "L1"
    <3>1. \A n \in S : n \in DOMAIN incidents /\ healed[n].type \in REMEDIATION_PLAN
      BY <2>1, ReadyRows DEF AutoHealed
    <3> QED
      BY <3>1 DEF Layer, REMEDIATION_PLAN
  <2> HIDE DEF healed, S
  <2>4. \A n \in DOMAIN incidents :
          /\ healed[n].status = incidents[n].status
          /\ healed[n].by = incidents[n].by /\ healed[n].reason = incidents[n].reason
          /\ \/ healed[n].stage = incidents[n].stage
             \/ ~Owned(incidents, n) /\ ~Owned(healed, n)
    BY <2>1, ReadyRows DEF Owned, HUMAN_OWNED_STAGES
  <2>5. Closes(incidents, healed, {}, OwnSignature)
    BY <2>1, <2>4, QuietCloses
  <2>6. \E T : Closes(healed, Judged(B, fixed), T, <<SYSTEM, "auto_healed" \in AutoReasons>>)
    BY <2>1, <2>2, <2>3, SystemReasons, ResolveEachCloses
  <2>7. OwnSignature = <<SYSTEM, "auto_healed" \in AutoReasons>>
    BY DEF OwnSignature, AutoReasons
  <2> QED
    BY <1>1, <2>5, <2>6, <2>7, QuietThenCloses
<1>2. CASE ~autoHeal
  <2>1. Judged(B, fixed) = Escalated(incidents, B)
    BY <1>2, JudgedRows
  <2>2. \A n \in B : n \in DOMAIN incidents /\ ~Owned(incidents, n)
    BY ReadyRows DEF Owned, HUMAN_OWNED_STAGES
  <2> QED
    BY <2>1, <2>2, SoundIncidents, EscalatedCloses
<1> QED
  BY <1>1, <1>2

\* A sweep closes what a fix with no clear signal repaired, as the system,
\* and only while auto-heal is on; what it restages nobody owned.
LEMMA SweepCloses ==
  ASSUME IInv, Sweep
  PROVE  /\ \E T : Closes(incidents, incidents', T, OwnSignature) /\ (T # {} => autoHeal)
         /\ nextId' = nextId /\ autoHeal' = autoHeal
<1>1. PICK B \in OldestBatch(incidents, Ready(incidents)) :
        \E fixed \in SUBSET B :
          \E E \in Batch(Overdue(Judged(B, fixed))) : Write(Escalated(Judged(B, fixed), E))
  BY DEF Sweep
<1>2. PICK fixed \in SUBSET B :
        \E E \in Batch(Overdue(Judged(B, fixed))) : Write(Escalated(Judged(B, fixed), E))
  BY <1>1
<1> DEFINE judged == Judged(B, fixed)
<1>3. PICK E \in Batch(Overdue(judged)) : Write(Escalated(judged, E))
  BY <1>2
<1>4. B \in SUBSET Ready(incidents)
  BY DEF OldestBatch, Batch
<1>5. Sound(judged) /\ DOMAIN judged = DOMAIN incidents
  BY <1>4, JudgedSound
<1>6. \E T : Closes(incidents, judged, T, OwnSignature) /\ (T # {} => autoHeal)
  BY <1>4, JudgedCloses
<1> HIDE DEF judged
<1>7. \A n \in E : n \in DOMAIN judged /\ judged[n].stage = "monitoring"
  BY DEF Batch, Overdue
<1>8. Closes(judged, Escalated(judged, E), {}, OwnSignature)
  BY <1>5, <1>7, EscalatedCloses DEF Owned, HUMAN_OWNED_STAGES
<1>9. incidents' = Escalated(judged, E) /\ nextId' = nextId /\ autoHeal' = autoHeal
  BY <1>3 DEF Write, Sweep
<1> QED
  BY <1>6, <1>8, <1>9, ClosesThenQuiet

-----------------------------------------------------------------------------
(* Part 2: every step is a step of some lives, or of none                  *)

LifeStep == [Lifecycle!LifecycleNext]_(Lifecycle!lifecycleVars)

\* A step that changes no phase, no closer and not the switch.
LEMMA NoLifeStep ==
  ASSUME \A n \in Ids : PhaseOf(n)' = PhaseOf(n),
         \A n \in Ids : CloserOf(n)' = CloserOf(n),
         autoHeal' = autoHeal
  PROVE  LifeStep
BY DEF LifeStep, Lifecycle!lifecycleVars

LEMMA CloseStep ==
  ASSUME IInv, NEW S,
         NEW agent \in {SignatureOf(p) : p \in Principals} \cup {OwnSignature},
         Closes(incidents, incidents', S, agent),
         S # {} /\ agent = OwnSignature => autoHeal,
         nextId' = nextId, autoHeal' = autoHeal
  PROVE  LifeStep
<1>1. DOMAIN incidents \subseteq Ids
  BY SoundIncidents
<1>2. S \subseteq DOMAIN incidents
  BY DEF Closes
<1>3. \A n \in Ids : PhaseOf(n)' = IF n \in S THEN "closed" ELSE PhaseOf(n)
  BY <1>2 DEF PhaseOf, Closes, Owned, Open
<1>4. \A n \in Ids : CloserOf(n)' = IF n \in S THEN agent ELSE CloserOf(n)
  BY <1>2 DEF CloserOf, Closes
<1>5. \A n \in S : PhaseOf(n) \in {"queued", "owned"}
  BY <1>2 DEF PhaseOf, Closes
<1>6. CASE S = {}
  BY <1>3, <1>4, <1>6, NoLifeStep
<1>7. CASE S # {}
  <2>1. S \in SUBSET Ids
    BY <1>1, <1>2
  <2>2. Lifecycle!Close(S, agent)
    BY <1>3, <1>4, <1>5, <1>7, <2>1
    DEF Lifecycle!Close, Lifecycle!Enter, Lifecycle!OpenIncidents, OwnSignature
  <2> QED
    BY <2>1, <2>2 DEF LifeStep, Lifecycle!LifecycleNext, OwnSignature, SignatureOf
<1> QED
  BY <1>6, <1>7

\* The row an operator has touched is owned, and its life moves alone.
LEMMA OwnStep ==
  ASSUME IInv, NEW n \in DOMAIN incidents, Actionable(n), NEW row,
         row.status = "open", row.stage \in HUMAN_OWNED_STAGES,
         row.by = incidents[n].by, row.reason = incidents[n].reason,
         incidents' = [incidents EXCEPT ![n] = row],
         nextId' = nextId, autoHeal' = autoHeal
  PROVE  LifeStep
<1>1. n \in Ids /\ Open(incidents, n)
  BY SoundIncidents DEF Actionable
<1>2. /\ DOMAIN incidents' = DOMAIN incidents /\ incidents'[n] = row
      /\ \A m \in DOMAIN incidents : m # n => incidents'[m] = incidents[m]
  OBVIOUS
<1>3. \A m \in Ids : PhaseOf(m)' = IF m \in {n} THEN "owned" ELSE PhaseOf(m)
  BY <1>2 DEF PhaseOf, Open
<1>4. \A m \in Ids : CloserOf(m)' = CloserOf(m)
  BY <1>2 DEF CloserOf, Signature
<1>5. PhaseOf(n) \in {"queued", "owned"}
  BY <1>1 DEF PhaseOf
<1>6. Lifecycle!Own(n)
  BY <1>1, <1>3, <1>4, <1>5 DEF Lifecycle!Own, Lifecycle!Enter, Lifecycle!OpenIncidents
<1> QED
  BY <1>1, <1>6 DEF LifeStep, Lifecycle!LifecycleNext

\* An insertion is one birth; what it claims nobody owned.
LEMMA AppearStep ==
  ASSUME IInv, NEW row, row.status = "open", row.stage \notin HUMAN_OWNED_STAGES,
         row.by = Nobody, row.reason = NoReason, NEW claimed, Insert(row, claimed),
         \A n \in claimed : /\ n \in DOMAIN incidents
                            /\ Open(incidents, n) /\ ~Owned(incidents, n),
         autoHeal' = autoHeal
  PROVE  LifeStep
<1> DEFINE new == nextId
           line(n) == IF n = new THEN row
                      ELSE IF n \in claimed THEN LinkSymptom(incidents[n], new)
                      ELSE incidents[n]
<1>1. /\ new \in Ids /\ nextId' = new + 1
      /\ incidents' = [n \in DOMAIN incidents \cup {new} |-> line(n)]
  BY DEF Insert
<1>2. /\ new \notin DOMAIN incidents
      /\ \A n \in DOMAIN incidents : incidents[n] \in Incident
  BY SoundIncidents
<1>3. /\ DOMAIN incidents' = DOMAIN incidents \cup {new}
      /\ \A n \in DOMAIN incidents \cup {new} : incidents'[n] = line(n)
  <2> HIDE DEF line
  <2> QED
    BY <1>1
<1>4. /\ incidents'[new] = row
      /\ \A n \in claimed : incidents'[n] = LinkSymptom(incidents[n], new)
      /\ \A n \in DOMAIN incidents \ claimed : incidents'[n] = incidents[n]
  BY <1>2, <1>3
<1> HIDE DEF line
<1>5. ASSUME NEW n \in claimed
      PROVE  /\ incidents'[n].status = incidents[n].status
             /\ incidents'[n].by = incidents[n].by
             /\ incidents'[n].reason = incidents[n].reason
             /\ incidents'[n].stage = "suppressed"
  <2>1. incidents[n] \in Incident
    BY <1>2
  <2>2. incidents'[n] = LinkSymptom(incidents[n], new) /\ new \in Ids
    BY <1>1, <1>4
  <2> HIDE DEF new
  <2> QED
    BY <2>1, <2>2, LinkSymptomRow
<1>6. ASSUME NEW n \in Ids
      PROVE  PhaseOf(n)' = IF n \in {new} THEN "queued" ELSE PhaseOf(n)
  <2>1. CASE n = new
    BY <1>3, <1>4, <2>1 DEF PhaseOf, Open
  <2>2. CASE n \in claimed
    BY <1>2, <1>3, <1>5, <2>2 DEF PhaseOf, Open, Owned, HUMAN_OWNED_STAGES
  <2>3. CASE n \in DOMAIN incidents \ claimed
    BY <1>2, <1>3, <1>4, <2>3 DEF PhaseOf, Open
  <2>4. CASE n \notin DOMAIN incidents \cup {new}
    BY <1>1, <1>3, <2>4 DEF PhaseOf, Ids
  <2> QED
    BY <2>1, <2>2, <2>3, <2>4
<1>7. ASSUME NEW n \in Ids
      PROVE  CloserOf(n)' = CloserOf(n)
  <2>1. (NoReason \in AutoReasons) = FALSE
    BY DEF AutoReasons, NoReason
  <2>2. CASE n = new
    <3>1. Signature(row) = NoSignature
      BY <2>1 DEF Signature, NoSignature
    <3>2. CloserOf(n) = NoSignature /\ CloserOf(n)' = Signature(row)
      BY <1>2, <1>3, <1>4, <2>2 DEF CloserOf
    <3> QED
      BY <3>1, <3>2
  <2>3. CASE n \in claimed
    BY <1>2, <1>3, <1>5, <2>3 DEF CloserOf, Signature
  <2>4. CASE n \in DOMAIN incidents \ claimed
    BY <1>2, <1>3, <1>4, <2>4 DEF CloserOf
  <2>5. CASE n \notin DOMAIN incidents \cup {new}
    BY <1>3, <2>5 DEF CloserOf
  <2> QED
    BY <2>2, <2>3, <2>4, <2>5
<1>8. PhaseOf(new) = "unborn"
  BY <1>1, <1>2 DEF PhaseOf, Ids
<1>9. \A m \in Ids : m < new => PhaseOf(m) # "unborn"
  BY DEF PhaseOf
<1>10. Lifecycle!Appear(new)
  BY <1>1, <1>6, <1>7, <1>8, <1>9 DEF Lifecycle!Appear, Lifecycle!Enter
<1> QED
  BY <1>1, <1>10 DEF LifeStep, Lifecycle!LifecycleNext

LEMMA OpenOrBumpStep ==
  ASSUME IInv,
         NEW r \in Routers, NEW t \in AUTO_HEAL_ELIGIBLE_TYPES,
         NEW i \in Ifaces \cup {NoIface}, NEW p \in Peerings \cup {NoPeering},
         OpenOrBump(r, t, i, p), autoHeal' = autoHeal
  PROVE  LifeStep
<1>1. /\ Sound(incidents)
      /\ \A n \in DOMAIN incidents : incidents[n] \in Incident /\ n \in Ids
  BY SoundIncidents
<1> DEFINE row == NewIncident(r, t, i, p)
<1>2. row \in Incident /\ row.status = "open" /\ row.stage = "new" /\ row.by = Nobody
      /\ row.reason = NoReason
  BY NewIncidentRow
<1> HIDE DEF row
<1>3. "new" \notin HUMAN_OWNED_STAGES /\ "suppressed" \notin HUMAN_OWNED_STAGES
  BY DEF HUMAN_OWNED_STAGES
<1>4. CASE \E n \in SameProblem(r, t, i, p) : Bump(n)
  <2>1. PICK n \in SameProblem(r, t, i, p) : Bump(n)
    BY <1>4
  <2>2. /\ n \in DOMAIN incidents /\ nextId' = nextId
        /\ incidents' = [incidents EXCEPT ![n].cleared = FALSE]
    BY <2>1 DEF SameProblem, Bump
  <2>3. DOMAIN incidents' = DOMAIN incidents
    BY <2>2
  <2>4. \A m \in DOMAIN incidents :
          /\ incidents'[m].status = incidents[m].status
          /\ incidents'[m].by = incidents[m].by /\ incidents'[m].reason = incidents[m].reason
          /\ incidents'[m].stage = incidents[m].stage
    BY <1>1, <2>2 DEF Incident
  <2>5. Closes(incidents, incidents', {}, OwnSignature)
    BY <2>3, <2>4, QuietCloses
  <2> QED
    BY <2>2, <2>5, CloseStep
<1>5. CASE OpenL3(r, t, i, p)
  <2>1. CASE Insert(row, {})
    BY <1>2, <1>3, <2>1, AppearStep
  <2>2. ASSUME NEW root \in OpenL1RootCauses(r, i), Insert(LinkSymptom(row, root), {})
        PROVE  LifeStep
    <3>1. root \in Ids
      BY <1>1 DEF OpenL1RootCauses, RootCandidates
    <3>2. /\ LinkSymptom(row, root).status = "open" /\ LinkSymptom(row, root).by = Nobody
          /\ LinkSymptom(row, root).stage = "suppressed"
          /\ LinkSymptom(row, root).reason = NoReason
      BY <1>2, <3>1, LinkSymptomRow
    <3> QED
      BY <1>3, <2>2, <3>2, AppearStep
  <2> QED
    BY <1>5, <2>1, <2>2 DEF OpenL3, row
<1>6. CASE OpenL1(r, t, i, p)
  <2> DEFINE claimed == IF p = NoPeering THEN {} ELSE L3Symptoms(p)
  <2>1. Insert(row, claimed)
    BY <1>6 DEF OpenL1, row
  <2>2. \A n \in claimed : /\ n \in DOMAIN incidents
                           /\ Open(incidents, n) /\ ~Owned(incidents, n)
    BY DEF L3Symptoms, Owned
  <2> HIDE DEF claimed
  <2> QED
    BY <1>2, <1>3, <2>1, <2>2, AppearStep
<1> QED
  BY <1>4, <1>5, <1>6 DEF OpenOrBump

LEMMA AfterClearStep ==
  ASSUME IInv, NEW types, NEW r, NEW i,
         incidents' = AfterClear(types, r, i), nextId' = nextId, autoHeal' = autoHeal
  PROVE  LifeStep
BY AfterClearCloses, CloseStep

LEMMA TrapStep ==
  ASSUME IInv, Trap
  PROVE  LifeStep
<1>1. NoPeering \in Peerings \cup {NoPeering}
  OBVIOUS
<1>2. ASSUME NEW r \in Routers, NEW t \in AUTO_HEAL_ELIGIBLE_TYPES,
             NEW i \in Ifaces \cup {NoIface}, RaiseTrap(r, t, i)
      PROVE  LifeStep
  BY <1>1, <1>2, OpenOrBumpStep DEF RaiseTrap
<1>3. ASSUME NEW r, NEW t, NEW i, ClearTrap(r, t, i)
      PROVE  LifeStep
  <2>1. /\ incidents' = AfterClear({t}, r, i) /\ nextId' = nextId
        /\ autoHeal' = autoHeal
    BY <1>3 DEF ClearTrap, Write
  <2> QED
    BY <2>1, AfterClearStep
<1>4. ASSUME NEW port \in LinkPorts, LinkFlap(port[1], port[2])
      PROVE  LifeStep
  <2>1. port[1] \in Routers /\ port[2] \in Ifaces \cup {NoIface}
    BY InputAssumption, PortTyped
  <2> QED
    BY <1>1, <1>4, <2>1, LinkTypes, OpenOrBumpStep DEF LinkFlap, LinkEvent
<1>5. ASSUME NEW port \in LinkPorts, LinkDown(port[1], port[2])
      PROVE  LifeStep
  <2>1. port[1] \in Routers /\ port[2] \in Ifaces \cup {NoIface}
    BY InputAssumption, PortTyped
  <2> QED
    BY <1>1, <1>5, <2>1, LinkTypes, OpenOrBumpStep DEF LinkDown, LinkEvent
<1>6. ASSUME NEW port \in LinkPorts, LinkUp(port[1], port[2])
      PROVE  LifeStep
  BY <1>6, AfterClearStep DEF LinkUp, LinkEvent
<1>7. ASSUME NEW port \in IsisPorts, IsisAdjacencyDown(port[1], port[2])
      PROVE  LifeStep
  <2>1. port[1] \in Routers /\ port[2] \in Ifaces \cup {NoIface}
    BY InputAssumption, PortTyped
  <2>2. "ISIS_NBR_DOWN" \in AUTO_HEAL_ELIGIBLE_TYPES
    BY DEF AUTO_HEAL_ELIGIBLE_TYPES
  <2> QED
    BY <1>2, <1>7, <2>1, <2>2 DEF IsisAdjacencyDown
<1>8. ASSUME NEW port \in IsisPorts, IsisAdjacencyUp(port[1], port[2])
      PROVE  LifeStep
  BY <1>3, <1>8 DEF IsisAdjacencyUp
<1>9. ASSUME NEW port \in BgpPorts, BgpEstablished(port[1], port[2])
      PROVE  LifeStep
  BY <1>3, <1>9 DEF BgpEstablished
<1>10. ASSUME NEW alarm \in Raises, RaiseTrap(alarm[2], alarm[1], alarm[3])
       PROVE  LifeStep
  <2>1. /\ alarm[1] \in AUTO_HEAL_ELIGIBLE_TYPES /\ alarm[2] \in Routers
        /\ alarm[3] \in Ifaces \cup {NoIface}
    BY InputAssumption
  <2> QED
    BY <1>2, <1>10, <2>1
<1>11. ASSUME NEW rule \in RuleClears, RuleClear(rule[2], rule[1], rule[3])
       PROVE  LifeStep
  BY <1>3, <1>11 DEF RuleClear
<1>12. ASSUME NEW p \in Peerings, FiberCut(p)
       PROVE  LifeStep
  <2>1. /\ SideA[p] \in Routers /\ NoIface \in Ifaces \cup {NoIface}
        /\ "OPTICAL_ALARM" \in AUTO_HEAL_ELIGIBLE_TYPES
    BY TopologyAssumption DEF AUTO_HEAL_ELIGIBLE_TYPES
  <2> QED
    BY <1>12, <2>1, OpenOrBumpStep DEF FiberCut
<1>13. ASSUME NEW p \in Peerings, FiberCutClear(p)
       PROVE  LifeStep
  <2>1. /\ incidents' = ResolveEach(incidents, FiberIncidents(p), "auto_cleared", SYSTEM)
        /\ nextId' = nextId /\ autoHeal' = autoHeal /\ autoHeal
    BY <1>13 DEF FiberCutClear, Write
  <2>2. FiberIncidents(p) \in SUBSET DOMAIN incidents
    BY DEF FiberIncidents
  <2>3. \E T : Closes(incidents, incidents', T, <<SYSTEM, "auto_cleared" \in AutoReasons>>)
    BY <2>1, <2>2, SoundIncidents, SystemReasons, ResolveEachCloses
  <2>4. OwnSignature = <<SYSTEM, "auto_cleared" \in AutoReasons>>
    BY DEF OwnSignature, AutoReasons
  <2> QED
    BY <2>1, <2>3, <2>4, CloseStep
<1>14. ASSUME NEW r \in Routers, Boot(r)
       PROVE  LifeStep
  BY <1>14, NoLifeStep DEF Boot, PhaseOf, CloserOf, Open
<1> QED
  BY <1>4, <1>5, <1>6, <1>7, <1>8, <1>9, <1>10, <1>11, <1>12, <1>13, <1>14 DEF Trap, LinkTrap

LEMMA OperatorStep ==
  ASSUME IInv, Operator
  PROVE  LifeStep
<1>1. /\ Sound(incidents)
      /\ \A n \in DOMAIN incidents : incidents[n] \in Incident
  BY SoundIncidents
<1>2. ASSUME NEW n \in DOMAIN incidents, NEW principal \in Principals,
             Acknowledge(n, principal)
      PROVE  LifeStep
  <2> DEFINE staged == IF incidents[n].stage = "dispatched" THEN incidents[n]
                       ELSE SetStage(incidents[n], "acknowledged")
             row == Acknowledged(incidents[n], UserOf(principal))
  <2>1. incidents[n] \in Incident /\ incidents[n].status = "open"
    BY <1>1, <1>2 DEF Acknowledge, Actionable, Open
  <2>2. "acknowledged" \in IncidentStage
    BY DEF IncidentStage
  <2>3. /\ staged \in Incident /\ staged.status = "open" /\ staged.by = incidents[n].by
        /\ staged.reason = incidents[n].reason
        /\ staged.stage \in HUMAN_OWNED_STAGES
    BY <2>1, <2>2, SetStageRow DEF HUMAN_OWNED_STAGES
  <2>4. row = [staged EXCEPT !.owner = UserOf(principal)]
    BY DEF Acknowledged
  <2> HIDE DEF staged, row
  <2>5. /\ row.status = "open" /\ row.by = incidents[n].by /\ row.reason = incidents[n].reason
        /\ row.stage \in HUMAN_OWNED_STAGES
    BY <2>3, <2>4 DEF Incident
  <2>6. /\ incidents' = [incidents EXCEPT ![n] = row] /\ Actionable(n)
        /\ nextId' = nextId /\ autoHeal' = autoHeal
    BY <1>2 DEF Acknowledge, row
  <2> QED
    BY <2>5, <2>6, OwnStep
<1>3. ASSUME NEW n \in DOMAIN incidents, NEW principal \in Principals,
             Dispatch(n, principal)
      PROVE  LifeStep
  <2> DEFINE staged == SetStage(incidents[n], "dispatched")
             row == Dispatched(incidents[n], UserOf(principal))
  <2>1. incidents[n] \in Incident /\ incidents[n].status = "open"
    BY <1>1, <1>3 DEF Dispatch, Actionable, Open
  <2>2. "dispatched" \in IncidentStage
    BY DEF IncidentStage
  <2>3. /\ staged \in Incident /\ staged.status = "open" /\ staged.by = incidents[n].by
        /\ staged.reason = incidents[n].reason
        /\ staged.stage \in HUMAN_OWNED_STAGES
    BY <2>1, <2>2, SetStageRow DEF HUMAN_OWNED_STAGES
  <2>4. row = [staged EXCEPT !.owner = IF incidents[n].owner = Nobody
                                         THEN UserOf(principal) ELSE incidents[n].owner]
    BY DEF Dispatched
  <2> HIDE DEF staged, row
  <2>5. /\ row.status = "open" /\ row.by = incidents[n].by /\ row.reason = incidents[n].reason
        /\ row.stage \in HUMAN_OWNED_STAGES
    BY <2>3, <2>4 DEF Incident
  <2>6. /\ incidents' = [incidents EXCEPT ![n] = row] /\ Actionable(n)
        /\ nextId' = nextId /\ autoHeal' = autoHeal
    BY <1>3 DEF Dispatch, row
  <2> QED
    BY <2>5, <2>6, OwnStep
<1>4. ASSUME NEW S \in SUBSET DOMAIN incidents, NEW principal \in Principals,
             NEW reason \in OperatorReasons, ResolveByUser(S, principal, reason)
      PROVE  LifeStep
  <2> DEFINE asked == {n \in S : incidents[n].root = NoId}
  <2>1. reason \in ResolutionReason /\ asked \in SUBSET DOMAIN incidents
    BY InputAssumption DEF ResolutionReason
  <2>2. /\ incidents' = ResolveEach(incidents, asked, reason, principal)
        /\ nextId' = nextId /\ autoHeal' = autoHeal
    BY <1>4 DEF ResolveByUser, Write
  <2> HIDE DEF asked
  <2>3. reason # "auto_healed" /\ SignatureOf(principal) = <<principal, reason \in AutoReasons>>
    <3>1. reason # "auto_healed" /\ (reason \in AutoReasons) = FALSE
      BY InputAssumption DEF AutoReasons, USER_RESOLUTION_REASONS
    <3> QED
      BY <3>1 DEF SignatureOf
  <2>4. \E T : Closes(incidents, incidents', T, SignatureOf(principal))
    BY <1>1, <2>1, <2>2, <2>3, ResolveEachCloses
  <2>5. SignatureOf(principal) # OwnSignature
    BY DEF SignatureOf, OwnSignature
  <2> QED
    BY <2>2, <2>4, <2>5, CloseStep
<1> QED
  BY <1>2, <1>3, <1>4 DEF Operator

LEMMA ResetAllOpenStep ==
  ASSUME IInv, NEW withRoot, NEW principal \in Principals,
         ResetAllOpen(withRoot, principal)
  PROVE  LifeStep
<1> DEFINE open == {n \in DOMAIN incidents : Open(incidents, n)}
<1>1. \A n \in DOMAIN incidents : incidents[n] \in Incident
  BY SoundIncidents
<1>2. /\ DOMAIN incidents' = DOMAIN incidents
      /\ \A n \in DOMAIN incidents \ open : incidents'[n] = incidents[n]
      /\ \A n \in open :
           \/ incidents'[n] = Resolved(incidents[n], "root_cause_resolved", principal)
           \/ incidents'[n] = Resolved(incidents[n], "reset", principal)
      /\ nextId' = nextId /\ autoHeal' = autoHeal
  BY DEF ResetAllOpen, Write
<1>3. ASSUME NEW n \in open
      PROVE  /\ incidents'[n].status = "resolved"
             /\ Signature(incidents'[n]) = SignatureOf(principal)
  <2>1. /\ incidents'[n].status = "resolved" /\ incidents'[n].by = principal
        /\ incidents'[n].reason \in {"root_cause_resolved", "reset"}
    BY <1>1, <1>2, SystemReasons, ResolvedRow
  <2>2. (incidents'[n].reason \in AutoReasons) = FALSE
    BY <2>1 DEF AutoReasons
  <2> QED
    BY <2>1, <2>2 DEF Signature, SignatureOf
<1>4. Closes(incidents, incidents', open, SignatureOf(principal))
  BY <1>2, <1>3 DEF Closes, Open, Owned
<1>5. SignatureOf(principal) # OwnSignature
  BY DEF SignatureOf, OwnSignature
<1> QED
  BY <1>2, <1>4, <1>5, CloseStep

LEMMA SetAutoHealStep ==
  ASSUME IInv, NEW enabled \in BOOLEAN, SetAutoHeal(enabled)
  PROVE  LifeStep
<1>1. \A n \in Ids : PhaseOf(n)' = PhaseOf(n) /\ CloserOf(n)' = CloserOf(n)
  BY DEF SetAutoHeal, PhaseOf, CloserOf, Open
<1>2. CASE autoHeal' = autoHeal
  BY <1>1, <1>2, NoLifeStep
<1>3. CASE autoHeal' # autoHeal
  <2>1. autoHeal \in BOOLEAN /\ autoHeal' \in BOOLEAN
    BY DEF IInv, TypeOK, SetAutoHeal
  <2>2. autoHeal' = ~autoHeal
    BY <1>3, <2>1
  <2>3. Lifecycle!Switch
    BY <1>1, <2>2 DEF Lifecycle!Switch
  <2> QED
    BY <2>3 DEF LifeStep, Lifecycle!LifecycleNext
<1> QED
  BY <1>2, <1>3

\* Deleting a router deletes its incidents and changes no other life.
LEMMA DeleteRouterStep ==
  ASSUME IInv, NEW r \in Routers, DeleteRouter(r)
  PROVE  LifeStep
<1> DEFINE dead == {n \in DOMAIN incidents : incidents[n].router = r}
           gone == {p \in Peerings : r \in {SideA[p], SideB[p]}}
           root(n) == IF incidents[n].root \in dead THEN NoId ELSE incidents[n].root
           peering(n) == IF incidents[n].peering \in gone THEN NoPeering
                         ELSE incidents[n].peering
<1>1. /\ incidents' = [n \in DOMAIN incidents \ dead |->
                         [incidents[n] EXCEPT !.root = root(n), !.peering = peering(n)]]
      /\ nextId' = nextId /\ autoHeal' = autoHeal
  BY DEF DeleteRouter
<1>2. /\ DOMAIN incidents \subseteq Ids /\ DOMAIN incidents \subseteq 1 .. nextId - 1
      /\ nextId \in Nat
      /\ \A n \in DOMAIN incidents : incidents[n] \in Incident
  BY SoundIncidents, BoundAssumption DEF IInv, TypeOK
<1> HIDE DEF gone, root, peering
<1>3. /\ DOMAIN incidents' = DOMAIN incidents \ dead
      /\ \A n \in DOMAIN incidents \ dead :
           /\ incidents'[n].status = incidents[n].status
           /\ incidents'[n].stage = incidents[n].stage
           /\ incidents'[n].by = incidents[n].by /\ incidents'[n].reason = incidents[n].reason
  BY <1>1, <1>2 DEF Incident
<1>4. dead \subseteq DOMAIN incidents
  OBVIOUS
<1> HIDE DEF dead
<1>5. ASSUME NEW n \in Ids
      PROVE  PhaseOf(n)' = IF n \in dead THEN "deleted" ELSE PhaseOf(n)
  <2>1. CASE n \in dead
    <3>1. n \in 1 .. nextId - 1 /\ n \notin DOMAIN incidents'
      BY <1>2, <1>3, <1>4, <2>1
    <3>2. nextId' = nextId /\ nextId \in Nat
      BY <1>1, <1>2
    <3>3. n < nextId'
      BY <3>1, <3>2
    <3> QED
      BY <2>1, <3>1, <3>3 DEF PhaseOf
  <2>2. CASE n \in DOMAIN incidents \ dead
    BY <1>3, <2>2 DEF PhaseOf, Open
  <2>3. CASE n \notin DOMAIN incidents
    BY <1>1, <1>3, <1>4, <2>3 DEF PhaseOf
  <2> QED
    BY <2>1, <2>2, <2>3
<1>6. \A n \in Ids : CloserOf(n)' = IF n \in dead THEN NoSignature ELSE CloserOf(n)
  BY <1>3, <1>4 DEF CloserOf, Signature
<1>7. CASE dead = {}
  BY <1>1, <1>5, <1>6, <1>7, NoLifeStep
<1>8. CASE dead # {}
  <2>1. dead \in SUBSET Ids
    BY <1>2, <1>4
  <2>2. \A n \in dead : PhaseOf(n) # "unborn"
    BY <1>4 DEF PhaseOf
  <2>3. Lifecycle!Delete(dead)
    BY <1>1, <1>5, <1>6, <1>8, <2>1, <2>2 DEF Lifecycle!Delete, Lifecycle!Enter
  <2> QED
    BY <2>1, <2>3 DEF LifeStep, Lifecycle!LifecycleNext
<1> QED
  BY <1>7, <1>8

LEMMA TickStep ==
  ASSUME IInv, Tick
  PROVE  LifeStep
<1> DEFINE aged(n) == Older(incidents[n].age, AgeCap)
           staged(n) == Older(incidents[n].stageAge, StageAgeCap(incidents[n].stage))
<1>1. /\ incidents' = [n \in DOMAIN incidents |->
                         IF Open(incidents, n)
                           THEN [incidents[n] EXCEPT !.age = aged(n), !.stageAge = staged(n)]
                           ELSE incidents[n]]
      /\ nextId' = nextId /\ autoHeal' = autoHeal
  BY DEF Tick
<1>2. \A n \in DOMAIN incidents : incidents[n] \in Incident
  BY SoundIncidents
<1> HIDE DEF aged, staged
<1>3. /\ DOMAIN incidents' = DOMAIN incidents
      /\ \A n \in DOMAIN incidents :
           /\ incidents'[n].status = incidents[n].status
           /\ incidents'[n].stage = incidents[n].stage
           /\ incidents'[n].by = incidents[n].by /\ incidents'[n].reason = incidents[n].reason
  BY <1>1, <1>2 DEF Incident
<1>4. Closes(incidents, incidents', {}, OwnSignature)
  BY <1>3, QuietCloses
<1> QED
  BY <1>1, <1>4, CloseStep

LEMMA NextIsLifeStep ==
  ASSUME IInv, [Next]_vars
  PROVE  LifeStep
<1>1. CASE Sweep
  BY <1>1, SweepCloses, CloseStep
<1>2. CASE Admin
  BY <1>2, ResetAllOpenStep, SetAutoHealStep, DeleteRouterStep DEF Admin
<1>3. CASE UNCHANGED vars
  BY <1>3, NoLifeStep DEF vars, PhaseOf, CloserOf, Open
<1> QED
  BY <1>1, <1>2, <1>3, TrapStep, OperatorStep, TickStep DEF Next

LEMMA InitIsLifeInit ==
  ASSUME Init
  PROVE  Lifecycle!LifecycleInit
<1>1. \A n \in Ids : PhaseOf(n) = "unborn" /\ CloserOf(n) = NoSignature
  BY DEF Init, PhaseOf, CloserOf, Ids
<1> QED
  BY <1>1 DEF Init, Lifecycle!LifecycleInit

\* Whatever the fleet, its topology and what its devices and operators do,
\* every committed transaction of the workflow is one legal step of the lives
\* of the incidents it touches, or none.
THEOREM WorkflowImplementsLifecycle == Spec => ImplementsLifecycle
<1>1. Init => Lifecycle!LifecycleInit
  BY InitIsLifeInit
<1>2. IInv /\ [Next]_vars => [Lifecycle!LifecycleNext]_(Lifecycle!lifecycleVars)
  BY NextIsLifeStep DEF LifeStep
<1> QED
  BY <1>1, <1>2, InductiveInvariant, PTL DEF Spec, ImplementsLifecycle, Lifecycle!LifecycleSpec

=============================================================================

------------------------- MODULE LinkBundles_proofs --------------------------
(***************************************************************************)
(* Proofs about LinkBundles: that bundles follow their members, that every *)
(* link that is down has its recovery coming, and that no session is down  *)
(* for no reason, for any peerings, events, and numbers of coroutines and  *)
(* mishaps.                                                                *)
(***************************************************************************)
EXTENDS LinkBundles, SequenceTheorems, TLAPS

-----------------------------------------------------------------------------
(* Traps and scripts *)

MemberTrap == [of : {OfMember(m) : m \in Port}, up : BOOLEAN]
Thing == {OfMember(m) : m \in Port} \cup {OfSession(e) : e \in Ends}
Trap  == [of : Thing, up : BOOLEAN]

\* Whatever falls in a script rises later in it.
Balanced(script) ==
  \A i \in DOMAIN script : ~script[i].up =>
    \E j \in DOMAIN script : j > i /\ script[j].up /\ script[j].of = script[i].of

Script == {s \in Seq(Trap) : Balanced(s)}

\* Members, sessions and what repairs them are told apart.
LEMMA Things ==
  /\ \A m : /\ OfMember(m).kind = "isis" /\ OfMember(m).port = m
            /\ Repairs(OfMember(m)) = OfMember(m)
  /\ \A e : /\ OfSession(e).kind = "bgp" /\ OfSession(e).end = e
            /\ Repairs(OfSession(e)) = SessionOf(e[1])
  /\ \A p : SessionOf(p).kind = "bgp" /\ SessionOf(p).peering = p
BY DEF OfMember, OfSession, SessionOf, Repairs

\* A trap about an interface is about a member.
LEMMA KindTells ==
  ASSUME NEW trap \in Trap
  PROVE  /\ trap.of.kind = "isis" => trap \in MemberTrap
         /\ trap.of.kind = "bgp" => \E e \in Ends : trap.of = OfSession(e)
<1>1. trap.of \in Thing /\ trap.up \in BOOLEAN
  BY DEF Trap
<1>2. trap.of.kind = "isis" => trap.of \in {OfMember(m) : m \in Port}
  BY <1>1, Things DEF Thing
<1>3. trap.of.kind = "bgp" => trap.of \in {OfSession(e) : e \in Ends}
  BY <1>1, Things DEF Thing
<1> QED
  BY <1>2, <1>3 DEF Trap, MemberTrap

\* A trap about a member names a port, an end and one of its members.
LEMMA MemberTrapIsOfPort ==
  ASSUME NEW trap \in MemberTrap
  PROVE  /\ PortOf(trap) \in Port /\ EndOf(trap) \in Ends /\ EndOf(trap)[1] \in Peerings
         /\ EndOf(trap) \in EndsOf(EndOf(trap)[1])
         /\ trap.of = OfMember(PortOf(trap)) /\ trap.up \in BOOLEAN
         /\ \E k \in Members : PortOf(trap) = <<EndOf(trap), k>>
<1>1. PICK m \in Port : trap.of = OfMember(m)
  BY DEF MemberTrap
<1>2. PortOf(trap) = m
  BY <1>1, Things DEF PortOf
<1>3. PICK e \in Ends, k \in Members : m = <<e, k>>
  BY DEF Port
<1>4. EndOf(trap) = e
  BY <1>2, <1>3 DEF EndOf
<1>5. e[1] \in Peerings
  BY DEF Ends
<1> QED
  BY <1>1, <1>2, <1>3, <1>4, <1>5 DEF MemberTrap, EndsOf

\* The traps still to come lose at most the one that is sent.
LEMMA RecoveriesOfTail ==
  ASSUME NEW script \in Script, script # Idle
  PROVE  /\ Head(script) \in Trap /\ Tail(script) \in Script
         /\ Recoveries(Tail(script)) \subseteq Recoveries(script)
         /\ \A x \in Recoveries(script) :
              x \in Recoveries(Tail(script)) \/ (Head(script).up /\ x = Repairs(Head(script).of))
         /\ ~Head(script).up => Repairs(Head(script).of) \in Recoveries(Tail(script))
<1> DEFINE n == Len(script)
           rest == Tail(script)
<1>0. script \in Seq(Trap) /\ Balanced(script)
  BY DEF Script
<1>1. n \in Nat \ {0} /\ DOMAIN script = 1..n
  BY <1>0, EmptySeq, LenProperties DEF Idle
<1>2. rest \in Seq(Trap) /\ Len(rest) = n - 1 /\ DOMAIN rest = 1..(n - 1)
      /\ \A i \in 1..(n - 1) : rest[i] = script[i + 1]
  BY <1>0, <1>1, HeadTailProperties, LenProperties DEF Idle
<1>3. Head(script) = script[1] /\ script[1] \in Trap
  BY <1>0, <1>1, ElementOfSeq
<1> HIDE DEF n, rest
<1>4. ASSUME NEW i \in 2..n
      PROVE  i - 1 \in 1..(n - 1) /\ rest[i - 1] = script[i]
  BY <1>1, <1>2
<1>5. Balanced(rest)
  <2> SUFFICES ASSUME NEW i \in 1..(n - 1), ~rest[i].up
               PROVE  \E j \in 1..(n - 1) : j > i /\ rest[j].up /\ rest[j].of = rest[i].of
    BY <1>2 DEF Balanced
  <2>1. i + 1 \in 1..n /\ rest[i] = script[i + 1]
    BY <1>1, <1>2
  <2>2. PICK j \in 1..n : j > i + 1 /\ script[j].up /\ script[j].of = script[i + 1].of
    BY <1>0, <1>1, <2>1 DEF Balanced
  <2>3. j - 1 \in 1..(n - 1) /\ j - 1 > i /\ rest[j - 1] = script[j]
    BY <1>1, <1>4, <2>2
  <2> QED
    BY <2>1, <2>2, <2>3
<1>6. Recoveries(rest) \subseteq Recoveries(script)
  <2> SUFFICES ASSUME NEW i \in 1..(n - 1), rest[i].up
               PROVE  Repairs(rest[i].of) \in Recoveries(script)
    BY <1>2 DEF Recoveries
  <2>1. i + 1 \in 1..n /\ rest[i] = script[i + 1]
    BY <1>1, <1>2
  <2> QED
    BY <1>1, <2>1 DEF Recoveries
<1>7. ASSUME NEW i \in 2..n, script[i].up
      PROVE  Repairs(script[i].of) \in Recoveries(rest)
  BY <1>2, <1>4, <1>7 DEF Recoveries
<1>8. ASSUME NEW x \in Recoveries(script)
      PROVE  x \in Recoveries(rest) \/ (script[1].up /\ x = Repairs(script[1].of))
  <2>1. PICK i \in 1..n : script[i].up /\ x = Repairs(script[i].of)
    BY <1>1 DEF Recoveries
  <2>2. i = 1 \/ i \in 2..n
    BY <1>1
  <2> QED
    BY <1>7, <2>1, <2>2
<1>9. ASSUME ~script[1].up
      PROVE  Repairs(script[1].of) \in Recoveries(rest)
  <2>1. PICK j \in 1..n : j > 1 /\ script[j].up /\ script[j].of = script[1].of
    BY <1>0, <1>1, <1>9 DEF Balanced
  <2>2. j \in 2..n
    BY <1>1, <2>1
  <2>3. Repairs(script[j].of) \in Recoveries(rest)
    BY <1>7, <2>1, <2>2
  <2> QED
    BY <2>1, <2>3
<1> QED
  BY <1>2, <1>3, <1>5, <1>6, <1>8, <1>9 DEF Script, rest

\* A coroutine with nothing to send brings nothing back.
LEMMA NoRecoveries == Idle \in Script /\ Recoveries(Idle) = {}
BY EmptySeq DEF Idle, Script, Balanced, Recoveries

\* One trap brings back what it is about, if it is an up.
LEMMA OneRecovery ==
  ASSUME NEW trap
  PROVE  Recoveries(<<trap>>) = IF trap.up THEN {Repairs(trap.of)} ELSE {}
BY DEF Recoveries

\* Two pairs of traps make four.
LEMMA PairsConcat ==
  ASSUME NEW a, NEW b, NEW c, NEW d
  PROVE  <<a, b>> \o <<c, d>> = <<a, b, c, d>>
<1> DEFINE S == {a, b, c, d}
<1>1. <<a, b>> \in Seq(S) /\ <<c, d>> \in Seq(S) /\ <<a, b, c, d>> \in Seq(S)
  OBVIOUS
<1>2. Len(<<a, b>>) = 2 /\ Len(<<c, d>>) = 2 /\ Len(<<a, b, c, d>>) = 4
  OBVIOUS
<1> DEFINE s == <<a, b>> \o <<c, d>>
<1>3. s \in Seq(S) /\ Len(s) = 4
      /\ \A i \in 1..4 : s[i] = IF i <= 2 THEN <<a, b>>[i] ELSE <<c, d>>[i - 2]
  BY <1>1, <1>2, ConcatProperties
<1> HIDE DEF S, s
<1>4. \A i \in 1..4 : s[i] = <<a, b, c, d>>[i]
  <2>1. s[1] = a /\ s[2] = b /\ s[3] = c /\ s[4] = d
    BY <1>3
  <2> QED
    BY <2>1
<1>5. s = <<a, b, c, d>>
  BY <1>1, <1>2, <1>3, <1>4, SeqEqual
<1> QED
  BY <1>5 DEF s

\* Two things that fall and rise in turn, as every event does.
LEMMA FourTraps ==
  ASSUME NEW x \in Thing, NEW y \in Thing
  PROVE  <<Falls(x), Falls(y), Rises(x), Rises(y)>> \in Script
<1> DEFINE s == <<Falls(x), Falls(y), Rises(x), Rises(y)>>
<1>1. Falls(x) \in Trap /\ Falls(y) \in Trap /\ Rises(x) \in Trap /\ Rises(y) \in Trap
  BY DEF Falls, Rises, Trap
<1>2. s \in Seq(Trap) /\ DOMAIN s = 1..4
  BY <1>1
<1>3. /\ s[1] = Falls(x) /\ s[2] = Falls(y) /\ s[3] = Rises(x) /\ s[4] = Rises(y)
  OBVIOUS
<1>4. /\ ~Falls(x).up /\ Falls(x).of = x /\ ~Falls(y).up /\ Falls(y).of = y
      /\ Rises(x).up /\ Rises(x).of = x /\ Rises(y).up /\ Rises(y).of = y
  BY DEF Falls, Rises
<1> HIDE DEF s
<1>5. ASSUME NEW i \in 1..4, ~s[i].up
      PROVE  \E j \in 1..4 : j > i /\ s[j].up /\ s[j].of = s[i].of
  <2>1. i = 1 \/ i = 2
    BY <1>3, <1>4, <1>5
  <2> QED
    BY <1>3, <1>4, <2>1
<1>6. Balanced(s)
  BY <1>2, <1>5 DEF Balanced
<1> QED
  BY <1>2, <1>6 DEF Script, s

\* A blink falls and rises: a script.
LEMMA TwoTraps ==
  ASSUME NEW x \in Thing
  PROVE  Blink(x) \in Script
<1> DEFINE s == Blink(x)
<1>1. Falls(x) \in Trap /\ Rises(x) \in Trap
  BY DEF Falls, Rises, Trap
<1>2. s \in Seq(Trap) /\ DOMAIN s = 1..2 /\ s[1] = Falls(x) /\ s[2] = Rises(x)
  BY <1>1 DEF Blink
<1>3. /\ ~Falls(x).up /\ Falls(x).of = x /\ Rises(x).up /\ Rises(x).of = x
  BY DEF Falls, Rises
<1> HIDE DEF s
<1>4. Balanced(s)
  BY <1>2, <1>3 DEF Balanced
<1> QED
  BY <1>2, <1>4 DEF Script, s

\* Every event of the simulator and every fiber fault takes back what it does.
LEMMA EventsBalanced ==
  /\ SimulatorScripts \subseteq Script
  /\ \A cut \in FaultSpans : cut[1] \in Peerings /\ FiberFault(cut[1], cut[2]) \in Script
<1>1. ASSUME NEW e \in Ends, NEW k \in Members
      PROVE  OfMember(<<e, k>>) \in Thing
  BY DEF Thing, Port
<1>2. Members = {1, 2}
  BY DEF Members, BUNDLE_MEMBER_COUNT
<1>3. ASSUME NEW e \in Ends
      PROVE  BundleFailure(e) \in Script
  <2>1. BundleFailure(e) = <<Falls(OfMember(<<e, 1>>)), Falls(OfMember(<<e, 2>>)),
                             Rises(OfMember(<<e, 1>>)), Rises(OfMember(<<e, 2>>))>>
    <3> DEFINE f == [k \in 1..2 |-> Falls(OfMember(<<e, k>>))]
               r == [k \in 1..2 |-> Rises(OfMember(<<e, k>>))]
    <3>1. BundleFailure(e) = f \o r
      BY DEF BundleFailure, Members, BUNDLE_MEMBER_COUNT
    <3>2. f = <<Falls(OfMember(<<e, 1>>)), Falls(OfMember(<<e, 2>>))>>
      OBVIOUS
    <3>3. r = <<Rises(OfMember(<<e, 1>>)), Rises(OfMember(<<e, 2>>))>>
      OBVIOUS
    <3> QED
      BY <3>1, <3>2, <3>3, PairsConcat
  <2> QED
    BY <1>1, <1>2, <2>1, FourTraps
<1>4. ASSUME NEW p \in Peerings, NEW span \in Nat
      PROVE  FiberFault(p, span) \in Script
  <2>1. <<p, SideA[p]>> \in Ends /\ <<p, SideB[p]>> \in Ends
    BY LinkTopologyAssumption DEF Ends
  <2>2. 1 + (span % BUNDLE_MEMBER_COUNT) \in Members
    BY DEF BUNDLE_MEMBER_COUNT, Members
  <2> QED
    BY <1>1, <2>1, <2>2, FourTraps DEF FiberFault
<1>5. SimulatorScripts \subseteq Script
  BY <1>3, TwoTraps, LinkInputAssumption DEF SimulatorScripts, Thing
<1>6. \A cut \in FaultSpans : cut[1] \in Peerings /\ cut[2] \in Nat
  BY LinkInputAssumption
<1> QED
  BY <1>4, <1>5, <1>6

-----------------------------------------------------------------------------
(* Types *)

TrapTx == [at : {"idle", "loaded", "flip", "commit"}, trap : MemberTrap \cup {Idle},
           status : {"none", "up", "down"}, writes : SUBSET {"member", "bundle", "session"},
           clean : BOOLEAN]
RestoreTx == [at : {"idle", "bundles", "peerings", "commit"}, ports : SUBSET Port,
              bundles : SUBSET Ends, peerings : SUBSET Peerings]

\* How far each transaction has come tells what it holds.
TransactionsOK ==
  /\ trapTx \in TrapTx
  /\ trapTx.at # "idle" => trapTx.trap \in MemberTrap
  /\ trapTx.at = "idle" => trapTx = NoTrap
  /\ trapTx.at \in {"loaded", "flip"} => trapTx.writes \subseteq {"member"}
  /\ trapTx.at = "flip" \/ "bundle" \in trapTx.writes => trapTx.status \in {"up", "down"}
  /\ "session" \in trapTx.writes => "bundle" \in trapTx.writes
  /\ restoreTx \in RestoreTx
  /\ restoreTx.at = "idle" => restoreTx = NoRestore
  /\ restoreTx.at = "bundles" => restoreTx.bundles = {}
  /\ restoreTx.at # "commit" => restoreTx.peerings = {}

Task == [script : Script, by : Peerings \cup {"simulator"}]

LinkTypes == LinkTypeOK /\ tasks \in [Coroutines -> Task] /\ TransactionsOK

\* Transactions that are not open are transactions of their type.
LEMMA NothingHeld == NoTrap \in TrapTx /\ NoRestore \in RestoreTx
BY DEF NoTrap, NoRestore, TrapTx, RestoreTx

\* What is sent leaves a script, and is a trap of its kind.
LEMMA SentTypes ==
  ASSUME tasks \in [Coroutines -> Task], NEW c \in Coroutines, tasks[c].script # Idle
  PROVE  /\ Sent(c) \in [Coroutines -> Task] /\ NextTrap(c) \in Trap
         /\ Sent(c)[c].script = Tail(tasks[c].script)
         /\ \A d \in Coroutines \ {c} : Sent(c)[d] = tasks[d]
<1>1. tasks[c].script \in Script
  BY DEF Task
<1>2. NextTrap(c) \in Trap /\ Tail(tasks[c].script) \in Script
  BY <1>1, RecoveriesOfTail DEF NextTrap
<1> QED
  BY <1>2 DEF Sent, Task

\* What the correlator loads is a trap about a member.
LEMMA MemberTraps ==
  ASSUME tasks \in [Coroutines -> Task], NEW c \in Coroutines, LoadMember(c)
  PROVE  NextTrap(c) \in MemberTrap
BY SentTypes, KindTells DEF LoadMember, MaySend

\* The correlator's transaction is opened.
LEMMA LoadMemberTypes ==
  ASSUME LinkTypes, NEW c \in Coroutines, LoadMember(c)
  PROVE  LinkTypes'
<1>1. NextTrap(c) \in MemberTrap
  BY MemberTraps DEF LinkTypes
<1>2. Sent(c) \in [Coroutines -> Task]
  BY SentTypes DEF LinkTypes, LoadMember, MaySend
<1>3. EndOf(NextTrap(c)) \in Ends
  BY <1>1, MemberTrapIsOfPort
<1>4. trapTx' \in TrapTx /\ trapTx'.at = "loaded" /\ trapTx'.trap = NextTrap(c)
      /\ trapTx'.writes \subseteq {"member"}
  BY <1>1 DEF LoadMember, TrapTx, Restoring
<1>5. UNCHANGED <<rows, restoreTx, simulation, polled, mishaps>> /\ tasks' = Sent(c)
      /\ raced' \subseteq raced \cup {EndOf(NextTrap(c))}
  BY DEF LoadMember
<1>6. LinkTypeOK'
  BY <1>3, <1>4, <1>5 DEF LinkTypes, LinkTypeOK, rows
<1>7. TransactionsOK'
  BY <1>1, <1>4, <1>5 DEF LinkTypes, TransactionsOK
<1> QED
  BY <1>2, <1>5, <1>6, <1>7 DEF LinkTypes

\* The correlator's transaction goes on, and ends.
LEMMA TrapStepTypes ==
  ASSUME LinkTypes, TrapStep
  PROVE  LinkTypes'
<1>0. trapTx \in TrapTx /\ TransactionsOK /\ LinkTypeOK
  BY DEF LinkTypes, TransactionsOK
<1>1. CASE RollUp
  <2>1. /\ trapTx'.at \in {"flip", "commit"} /\ trapTx'.trap = trapTx.trap
        /\ trapTx'.writes = trapTx.writes /\ trapTx' \in TrapTx
        /\ trapTx'.at = "flip" => trapTx'.status \in {"up", "down"}
        /\ trapTx.at = "loaded"
    BY <1>0, <1>1 DEF RollUp, TrapTx, recompute_bundle_status
  <2>2. TransactionsOK'
    BY <1>1, <2>1 DEF LinkTypes, TransactionsOK, RollUp
  <2> QED
    BY <1>1, <2>1, <2>2 DEF LinkTypes, LinkTypeOK, RollUp, rows
<1>2. CASE FlipBundle
  <2>1. /\ trapTx'.at = "commit" /\ trapTx'.trap = trapTx.trap /\ trapTx'.status = trapTx.status
        /\ "bundle" \in trapTx'.writes /\ trapTx' \in TrapTx /\ trapTx.at = "flip"
    BY <1>0, <1>2 DEF FlipBundle, TrapTx
  <2>2. TransactionsOK'
    BY <1>2, <2>1 DEF LinkTypes, TransactionsOK, FlipBundle
  <2> QED
    BY <1>2, <2>1, <2>2 DEF LinkTypes, LinkTypeOK, FlipBundle, rows
<1>3. CASE CommitTrap
  <2>1. PortOf(trapTx.trap) \in Port /\ trapTx.trap.up \in BOOLEAN
    BY <1>0, <1>3, MemberTrapIsOfPort DEF TransactionsOK, CommitTrap
  <2>2. /\ adjacent' \in [Port -> BOOLEAN] /\ bundle' \in [Ends -> {"up", "down"}]
        /\ session' \in [Peerings -> {"established", "down"}] /\ raced' \subseteq Ends
    BY <1>0, <1>3, <2>1 DEF CommitTrap, TransactionsOK, LinkTypeOK, SessionStatus
  <2>3. trapTx' = NoTrap /\ UNCHANGED <<restoreTx, tasks, simulation, polled, mishaps>>
    BY <1>3 DEF CommitTrap
  <2>4. TransactionsOK'
    BY <1>0, <2>3, NothingHeld DEF TransactionsOK, NoTrap
  <2>5. LinkTypeOK'
    BY <1>0, <2>2, <2>3 DEF LinkTypeOK, NoTrap
  <2> QED
    BY <2>3, <2>4, <2>5 DEF LinkTypes
<1> QED
  BY <1>1, <1>2, <1>3 DEF TrapStep

\* So does the restore's, and the two do not meet in their types.
LEMMA RestoreTypes ==
  ASSUME LinkTypes, RestorePorts \/ RestoreStep
  PROVE  LinkTypes'
<1>0. trapTx \in TrapTx /\ restoreTx \in RestoreTx /\ TransactionsOK /\ LinkTypeOK
  BY DEF LinkTypes, TransactionsOK
<1>d. DownPorts \subseteq Port /\ DownBundles \subseteq Ends /\ DownSessions \subseteq Peerings
  BY DEF DownPorts, DownBundles, DownSessions
<1>1. CASE RestorePorts
  <2>1. /\ restoreTx' \in RestoreTx /\ restoreTx'.at = "bundles" /\ restoreTx'.bundles = {}
        /\ restoreTx'.peerings = {}
    BY <1>1, <1>d DEF RestorePorts, NoRestore, RestoreTx
  <2>2. /\ trapTx' = [trapTx EXCEPT !.clean = FALSE] /\ trapTx' \in TrapTx
        /\ trapTx'.at = trapTx.at /\ trapTx'.trap = trapTx.trap /\ trapTx'.status = trapTx.status
        /\ trapTx'.writes = trapTx.writes
    BY <1>0, <1>1 DEF RestorePorts, TrapTx
  <2>3. trapTx.at = "idle" => trapTx' = NoTrap
    <3>1. ASSUME trapTx.at = "idle" PROVE trapTx = NoTrap /\ trapTx.clean = FALSE
      BY <1>0, <3>1 DEF TransactionsOK, NoTrap
    <3>2. trapTx.at = "idle" => trapTx' = trapTx
      BY <1>0, <2>2, <3>1 DEF TrapTx
    <3> QED
      BY <3>1, <3>2
  <2>4. TransactionsOK'
    BY <1>0, <2>1, <2>2, <2>3 DEF TransactionsOK
  <2>5. raced' \subseteq Ends
    BY <1>0, <1>1, MemberTrapIsOfPort DEF RestorePorts, TransactionsOK, LinkTypeOK
  <2>6. mishaps' \in 0..Mishaps
    BY <1>0, <1>1, LinkInputAssumption DEF RestorePorts, Mishap, LinkTypeOK
  <2>7. UNCHANGED <<rows, tasks, simulation, polled>>
    BY <1>1 DEF RestorePorts
  <2>8. LinkTypeOK'
    BY <1>0, <2>1, <2>2, <2>5, <2>6, <2>7 DEF LinkTypeOK, rows
  <2> QED
    BY <2>4, <2>7, <2>8 DEF LinkTypes
<1>2. CASE RestoreBundles
  <2>1. /\ restoreTx' \in RestoreTx /\ restoreTx'.at = "peerings" /\ restoreTx'.peerings = {}
    BY <1>0, <1>2, <1>d DEF RestoreBundles, RestoreTx, TransactionsOK
  <2>2. UNCHANGED <<rows, trapTx, tasks, simulation, polled, mishaps, raced>>
    BY <1>2 DEF RestoreBundles
  <2> QED
    BY <1>0, <2>1, <2>2 DEF LinkTypes, LinkTypeOK, TransactionsOK, rows
<1>3. CASE RestorePeerings
  <2>1. /\ restoreTx' \in RestoreTx /\ restoreTx'.at = "commit"
    BY <1>0, <1>3, <1>d DEF RestorePeerings, RestoreTx
  <2>2. UNCHANGED <<rows, trapTx, tasks, simulation, polled, mishaps, raced>>
    BY <1>3 DEF RestorePeerings
  <2> QED
    BY <1>0, <2>1, <2>2 DEF LinkTypes, LinkTypeOK, TransactionsOK, rows
<1>4. CASE CommitRestore
  <2>1. /\ adjacent' \in [Port -> BOOLEAN] /\ bundle' \in [Ends -> {"up", "down"}]
        /\ session' \in [Peerings -> {"established", "down"}]
    BY <1>0, <1>4 DEF CommitRestore, LinkTypeOK
  <2>2. restoreTx' = NoRestore /\ UNCHANGED <<trapTx, tasks, simulation, polled, mishaps, raced>>
    BY <1>4 DEF CommitRestore
  <2>3. TransactionsOK'
    BY <1>0, <2>2, NothingHeld DEF TransactionsOK, NoRestore
  <2> QED
    BY <1>0, <2>1, <2>2, <2>3 DEF LinkTypes, LinkTypeOK, NoRestore
<1> QED
  BY <1>1, <1>2, <1>3, <1>4 DEF RestoreStep

\* Every step keeps the types.
LEMMA LinkTypesKept == LinkTypes /\ [LinkNext]_linkVars => LinkTypes'
<1> SUFFICES ASSUME LinkTypes, [LinkNext]_linkVars PROVE LinkTypes'
  OBVIOUS
<1>1. ASSUME NEW c \in Coroutines, StartEvent(c) \/ StartFault(c)
      PROVE  LinkTypes'
  <2>1. PICK task \in Task : tasks' = [tasks EXCEPT ![c] = task]
    BY <1>1, EventsBalanced DEF StartEvent, StartFault, Task
  <2>2. tasks' \in [Coroutines -> Task]
    BY <2>1 DEF LinkTypes
  <2>3. UNCHANGED <<rows, trapTx, restoreTx, simulation, polled, mishaps, raced>>
    BY <1>1 DEF StartEvent, StartFault
  <2> QED
    BY <2>2, <2>3 DEF LinkTypes, LinkTypeOK, TransactionsOK, rows
<1>2. ASSUME NEW c \in Coroutines, LoadMember(c)
      PROVE  LinkTypes'
  BY <1>2, LoadMemberTypes
<1>3. ASSUME NEW c \in Coroutines, SessionTrap(c)
      PROVE  LinkTypes'
  <2>1. tasks' \in [Coroutines -> Task]
    BY <1>3, SentTypes DEF LinkTypes, SessionTrap, MaySend
  <2>2. session' \in [Peerings -> {"established", "down"}]
    BY <1>3 DEF LinkTypes, LinkTypeOK, SessionTrap, SessionStatus
  <2>3. UNCHANGED <<adjacent, bundle, trapTx, restoreTx, simulation, polled, mishaps, raced>>
    BY <1>3 DEF SessionTrap
  <2> QED
    BY <2>1, <2>2, <2>3 DEF LinkTypes, LinkTypeOK, TransactionsOK
<1>4. ASSUME NEW c \in Coroutines, Drop(c)
      PROVE  LinkTypes'
  <2>1. tasks' \in [Coroutines -> Task]
    BY <1>4, SentTypes DEF LinkTypes, Drop
  <2>2. UNCHANGED <<rows, trapTx, restoreTx, simulation, polled, mishaps, raced>>
    BY <1>4 DEF Drop
  <2> QED
    BY <2>1, <2>2 DEF LinkTypes, LinkTypeOK, TransactionsOK, rows
<1>5. CASE Pause \/ Resume \/ PollSwitch
  <2>1. mishaps' \in 0..Mishaps
    BY <1>5, LinkInputAssumption DEF LinkTypes, LinkTypeOK, Pause, Resume, PollSwitch, Mishap
  <2>2. UNCHANGED <<rows, trapTx, restoreTx, tasks, raced>>
    BY <1>5 DEF Pause, Resume, PollSwitch
  <2>3. simulation' \in BOOLEAN /\ polled' \in BOOLEAN
    BY <1>5 DEF LinkTypes, LinkTypeOK, Pause, Resume, PollSwitch
  <2> QED
    BY <2>1, <2>2, <2>3 DEF LinkTypes, LinkTypeOK, TransactionsOK, rows
<1>6. CASE TrapStep
  BY <1>6, TrapStepTypes
<1>7. CASE RestorePorts \/ RestoreStep
  BY <1>7, RestoreTypes
<1>8. CASE BackendRestart
  <2>1. tasks' \in [Coroutines -> Task]
    BY <1>8, NoRecoveries DEF BackendRestart, LinkTypes, Task
  <2>2. mishaps' \in 0..Mishaps
    BY <1>8, LinkInputAssumption DEF LinkTypes, LinkTypeOK, BackendRestart, Mishap
  <2>3. restoreTx' = NoRestore /\ simulation' = TRUE /\ UNCHANGED <<rows, trapTx, polled, raced>>
    BY <1>8 DEF BackendRestart
  <2>4. TransactionsOK'
    BY <2>3, NothingHeld DEF LinkTypes, TransactionsOK, NoRestore
  <2> QED
    BY <2>1, <2>2, <2>3, <2>4 DEF LinkTypes, LinkTypeOK, NoRestore, rows
<1>9. CASE UNCHANGED linkVars
  BY <1>9 DEF linkVars, rows, LinkTypes, LinkTypeOK, TransactionsOK
<1> QED
  BY <1>1, <1>2, <1>3, <1>4, <1>5, <1>6, <1>7, <1>8, <1>9 DEF LinkNext, SendNext

\* The types hold at first.
LEMMA LinkTypesAtFirst == LinkInit => LinkTypes
BY NothingHeld, NoRecoveries, LinkInputAssumption
DEF LinkInit, LinkTypes, LinkTypeOK, TransactionsOK, Task, NoTrap, NoRestore

\* Rows, transactions and scripts always have their types.
THEOREM LinkTypesHold == LinkSpec => []LinkTypeOK
<1>1. LinkTypes => LinkTypeOK
  BY DEF LinkTypes
<1> QED
  BY <1>1, LinkTypesAtFirst, LinkTypesKept, PTL DEF LinkSpec


-----------------------------------------------------------------------------
(* Row locks *)

\* Rows that one transaction has written are not written by the other; what the
\* restore has taken is down until it commits.
LocksOK ==
  /\ restoreTx.ports \subseteq DownPorts
  /\ restoreTx.bundles \subseteq DownBundles
  /\ HeldPorts \cap restoreTx.ports = {}
  /\ HeldBundles \cap restoreTx.bundles = {}

\* Steps that touch no member, no bundle and no transaction.
Quiet == UNCHANGED <<adjacent, bundle, trapTx, restoreTx, raced>>

\* All other steps are those of the two transactions.
LEMMA StepsOfTransactions ==
  ASSUME [LinkNext]_linkVars
  PROVE  \/ Quiet
         \/ \E c \in Coroutines : LoadMember(c)
         \/ TrapStep
         \/ RestorePorts \/ RestoreStep
         \/ BackendRestart
BY DEF LinkNext, linkVars, rows, Quiet, SendNext, StartEvent, StartFault, SessionTrap, Drop, Pause,
       Resume, PollSwitch

\* Every step keeps what the row locks keep apart.
LEMMA LocksKept ==
  ASSUME LinkTypes, LocksOK, [LinkNext]_linkVars
  PROVE  LocksOK'
<1>0. TransactionsOK /\ trapTx \in TrapTx /\ restoreTx \in RestoreTx
  BY DEF LinkTypes, TransactionsOK
<1>n. /\ NoRestore.ports = {} /\ NoRestore.bundles = {} /\ NoTrap.writes = {}
      /\ NoTrap.at = "idle"
  BY DEF NoRestore, NoTrap
<1>1. CASE Quiet
  BY <1>1 DEF Quiet, LocksOK, DownPorts, DownBundles, HeldPorts, HeldBundles
<1>2. ASSUME NEW c \in Coroutines, LoadMember(c)
      PROVE  LocksOK'
  <2>1. trapTx'.at = "loaded" /\ "bundle" \notin trapTx'.writes
    BY <1>2 DEF LoadMember
  <2>2. UNCHANGED <<adjacent, bundle, restoreTx>>
    BY <1>2 DEF LoadMember, rows
  <2> QED
    BY <2>1, <2>2 DEF LocksOK, DownPorts, DownBundles, HeldPorts, HeldBundles
<1>3. CASE RollUp
  <2>1. trapTx'.trap = trapTx.trap /\ "bundle" \notin trapTx'.writes
    BY <1>0, <1>3 DEF RollUp, TrapTx, TransactionsOK
  <2>2. PortOf(trapTx.trap) \notin restoreTx.ports
        /\ UNCHANGED <<adjacent, bundle, restoreTx>>
    BY <1>3 DEF RollUp, rows
  <2> QED
    BY <2>1, <2>2 DEF LocksOK, DownPorts, DownBundles, HeldPorts, HeldBundles
<1>4. CASE FlipBundle
  <2>1. trapTx'.trap = trapTx.trap /\ trapTx.at = "flip"
    BY <1>0, <1>4 DEF FlipBundle, TrapTx
  <2>2. EndOf(trapTx.trap) \notin restoreTx.bundles
        /\ UNCHANGED <<adjacent, bundle, restoreTx>>
    BY <1>4 DEF FlipBundle, rows
  <2> QED
    BY <2>1, <2>2 DEF LocksOK, DownPorts, DownBundles, HeldPorts, HeldBundles
<1>5. CASE CommitTrap
  <2>1. /\ trapTx' = NoTrap /\ restoreTx' = restoreTx /\ trapTx.at = "commit"
        /\ \A m \in Port : m # PortOf(trapTx.trap) => adjacent'[m] = adjacent[m]
        /\ \A e \in Ends : e # EndOf(trapTx.trap) \/ "bundle" \notin trapTx.writes
                             => bundle'[e] = bundle[e]
    BY <1>5 DEF CommitTrap, EndOf, LinkTypes, LinkTypeOK
  <2>2. PortOf(trapTx.trap) \notin restoreTx.ports
        /\ ("bundle" \in trapTx.writes => EndOf(trapTx.trap) \notin restoreTx.bundles)
    BY <2>1 DEF LocksOK, HeldPorts, HeldBundles
  <2> QED
    BY <1>n, <2>1, <2>2 DEF LocksOK, DownPorts, DownBundles, HeldPorts, HeldBundles
<1>6. CASE RestorePorts
  <2>1. trapTx'.at = trapTx.at /\ trapTx'.trap = trapTx.trap /\ trapTx'.writes = trapTx.writes
    BY <1>0, <1>6 DEF RestorePorts, TrapTx
  <2>2. restoreTx'.ports = DownPorts /\ restoreTx'.bundles = {}
    BY <1>6 DEF RestorePorts, NoRestore
  <2>3. DownPorts \cap HeldPorts = {} /\ UNCHANGED <<adjacent, bundle>>
    BY <1>6 DEF RestorePorts, rows
  <2> QED
    BY <2>1, <2>2, <2>3 DEF LocksOK, DownPorts, DownBundles, HeldPorts, HeldBundles
<1>7. CASE RestoreBundles \/ RestorePeerings
  <2>1. /\ restoreTx'.ports = restoreTx.ports
        /\ restoreTx'.bundles = restoreTx.bundles
             \/ (restoreTx'.bundles = DownBundles /\ DownBundles \cap HeldBundles = {})
    BY <1>0, <1>7 DEF RestoreBundles, RestorePeerings, RestoreTx
  <2>2. UNCHANGED <<adjacent, bundle, trapTx>>
    BY <1>7 DEF RestoreBundles, RestorePeerings, rows
  <2> QED
    BY <2>1, <2>2 DEF LocksOK, DownPorts, DownBundles, HeldPorts, HeldBundles
<1>8. CASE CommitRestore \/ BackendRestart
  BY <1>8, <1>n DEF CommitRestore, BackendRestart, LocksOK
<1> QED
  BY <1>1, <1>2, <1>3, <1>4, <1>5, <1>6, <1>7, <1>8, StepsOfTransactions
  DEF TrapStep, RestoreStep

\* Nothing is locked at first.
LEMMA LocksAtFirst == LinkInit => LocksOK
BY DEF LinkInit, LocksOK, HeldPorts, HeldBundles, NoTrap, NoRestore

-----------------------------------------------------------------------------
(* Bundles follow their members *)

\* The end the trap in hand is about, and its bundle as the transaction sees it.
Now  == EndOf(trapTx.trap)
Seen == IF \E k \in Members : SeenUp(<<Now, k>>) THEN "up" ELSE "down"

Follows(e) == (bundle[e] = "up") <=> \E k \in Members : adjacent[<<e, k>>]

\* A trap handled alone has seen what is there; one that is not is known to be.
TrapInTime ==
  trapTx.at # "idle" =>
    /\ ~trapTx.clean => Now \in raced
    /\ trapTx.clean =>
         /\ ~Restoring
         /\ "member" \notin trapTx.writes => adjacent[PortOf(trapTx.trap)] = trapTx.trap.up
         /\ trapTx.at = "flip" => trapTx.status = Seen
         /\ trapTx.at = "commit" =>
              Seen = IF "bundle" \in trapTx.writes THEN trapTx.status ELSE bundle[Now]

\* Of an end without a trap since, the restore has taken just what is down.
Restores(e) ==
  /\ Restoring => \A k \in Members : <<e, k>> \in restoreTx.ports <=> ~adjacent[<<e, k>>]
  /\ restoreTx.at \in {"peerings", "commit"} => (e \in restoreTx.bundles <=> bundle[e] = "down")

BundlesInv == TrapInTime /\ \A e \in Ends \ raced : Follows(e) /\ Restores(e)

\* A transaction that opens knows whether a restore is open.
LEMMA LoadKeepsBundles ==
  ASSUME LinkTypes, BundlesInv, NEW c \in Coroutines, LoadMember(c)
  PROVE  BundlesInv'
<1>1. NextTrap(c) \in MemberTrap
  BY MemberTraps DEF LinkTypes
<1>2. /\ trapTx'.at = "loaded" /\ trapTx'.trap = NextTrap(c) /\ trapTx'.clean = ~Restoring
      /\ "member" \notin trapTx'.writes => adjacent[PortOf(NextTrap(c))] = NextTrap(c).up
      /\ raced' = IF Restoring THEN raced \cup {EndOf(NextTrap(c))} ELSE raced
      /\ UNCHANGED <<adjacent, bundle, restoreTx>>
  BY DEF LoadMember, rows
<1>3. Restoring' = Restoring
  BY <1>2 DEF Restoring
<1>4. TrapInTime'
  BY <1>2, <1>3 DEF TrapInTime, Now
<1>5. \A e \in Ends \ raced' : (Follows(e) /\ Restores(e))'
  BY <1>2, <1>3 DEF BundlesInv, Follows, Restores
<1> QED
  BY <1>4, <1>5 DEF BundlesInv

\* Rolling up and flipping write nothing yet and follow what was seen.
LEMMA GoOnKeepsBundles ==
  ASSUME LinkTypes, BundlesInv, RollUp \/ FlipBundle
  PROVE  BundlesInv'
<1>0. trapTx \in TrapTx /\ TransactionsOK
  BY DEF LinkTypes, TransactionsOK
<1>1. /\ trapTx'.trap = trapTx.trap /\ trapTx'.clean = trapTx.clean /\ trapTx.at # "idle"
      /\ "member" \in trapTx.writes => "member" \in trapTx'.writes
      /\ UNCHANGED <<adjacent, bundle, restoreTx, raced>>
  <2>1. CASE RollUp
    BY <1>0, <2>1 DEF RollUp, TrapTx, rows
  <2>2. CASE FlipBundle
    BY <1>0, <2>2 DEF FlipBundle, TrapTx, rows
  <2> QED
    BY <2>1, <2>2
<1>2. Now' = Now /\ Seen' = Seen /\ Restoring' = Restoring
  BY <1>1 DEF Now, Seen, SeenUp, Restoring
<1>3. CASE RollUp
  <2>1. Seen = recompute_bundle_status(Now)
    BY DEF Seen, recompute_bundle_status
  <2>2. /\ trapTx'.at \in {"flip", "commit"} /\ trapTx'.writes = trapTx.writes
        /\ "bundle" \notin trapTx.writes
        /\ trapTx'.at = "flip" => trapTx'.status = Seen
        /\ trapTx'.at = "commit" => bundle[Now] = Seen
    BY <1>0, <1>3, <2>1 DEF RollUp, TrapTx, TransactionsOK, Now
  <2>3. TrapInTime'
    BY <1>1, <1>2, <2>2 DEF BundlesInv, TrapInTime
  <2> QED
    BY <1>1, <1>2, <2>3 DEF BundlesInv, Follows, Restores
<1>4. CASE FlipBundle
  <2>1. /\ trapTx'.at = "commit" /\ trapTx.at = "flip" /\ "bundle" \in trapTx'.writes
        /\ trapTx'.status = trapTx.status
        /\ ("member" \in trapTx.writes <=> "member" \in trapTx'.writes)
    BY <1>0, <1>4 DEF FlipBundle, TrapTx
  <2>2. TrapInTime'
    BY <1>1, <1>2, <2>1 DEF BundlesInv, TrapInTime
  <2> QED
    BY <1>1, <1>2, <2>2 DEF BundlesInv, Follows, Restores
<1> QED
  BY <1>3, <1>4

\* Alone, the commit sets the bundle right; not alone, it leaves its mark.
LEMMA CommitKeepsBundles ==
  ASSUME LinkTypes, BundlesInv, CommitTrap
  PROVE  BundlesInv'
<1> DEFINE m == PortOf(trapTx.trap)
<1>0. trapTx \in TrapTx /\ TransactionsOK /\ LinkTypeOK
  BY DEF LinkTypes, TransactionsOK
<1>1. /\ trapTx.at = "commit" /\ trapTx' = NoTrap /\ restoreTx' = restoreTx
      /\ adjacent' = IF "member" \in trapTx.writes
                       THEN [adjacent EXCEPT ![m] = trapTx.trap.up] ELSE adjacent
      /\ bundle' = IF "bundle" \in trapTx.writes
                     THEN [bundle EXCEPT ![Now] = trapTx.status] ELSE bundle
      /\ raced' = IF trapTx.clean THEN raced \ {Now} ELSE raced
  BY DEF CommitTrap, Now, EndOf
<1>2. m \in Port /\ Now \in Ends /\ trapTx.trap.up \in BOOLEAN /\ \E k \in Members : m = <<Now, k>>
  BY <1>0, <1>1, MemberTrapIsOfPort DEF TransactionsOK, Now
<1>3. TrapInTime'
  BY <1>1 DEF TrapInTime, NoTrap
<1>4. ASSUME NEW e \in Ends \ raced', e # Now
      PROVE  (Follows(e) /\ Restores(e))'
  <2>1. e \notin raced
    BY <1>1, <1>4
  <2>2. \A k \in Members : <<e, k>> # m /\ adjacent'[<<e, k>>] = adjacent[<<e, k>>]
    BY <1>1, <1>2, <1>4
  <2>3. bundle'[e] = bundle[e]
    BY <1>1, <1>4
  <2>4. Restoring' = Restoring
    BY <1>1 DEF Restoring
  <2> QED
    BY <1>1, <2>1, <2>2, <2>3, <2>4 DEF BundlesInv, Follows, Restores
<1>5. ASSUME NEW e \in Ends \ raced', e = Now
      PROVE  (Follows(e) /\ Restores(e))'
  <2>1. trapTx.clean
    BY <1>1, <1>5 DEF BundlesInv, TrapInTime
  <2>2. ~Restoring /\ restoreTx.at = "idle"
    BY <1>1, <2>1 DEF BundlesInv, TrapInTime, Restoring
  <2>3. "member" \notin trapTx.writes => adjacent[m] = trapTx.trap.up
    BY <1>1, <2>1 DEF BundlesInv, TrapInTime
  <2>4. \A k \in Members : adjacent'[<<e, k>>] = SeenUp(<<e, k>>)
    <3>1. \A n \in Port : adjacent'[n] = SeenUp(n)
      BY <1>0, <1>1, <1>2, <2>3 DEF LinkTypeOK, SeenUp
    <3> QED
      BY <3>1 DEF Port
  <2>5. bundle'[e] = Seen
    BY <1>0, <1>1, <1>2, <1>5, <2>1 DEF BundlesInv, TrapInTime, LinkTypeOK
  <2>6. Follows(e)'
    BY <1>5, <2>4, <2>5 DEF Follows, Seen
  <2>7. Restores(e)'
    BY <1>1, <2>2 DEF Restores, Restoring
  <2> QED
    BY <2>6, <2>7
<1> QED
  BY <1>3, <1>4, <1>5 DEF BundlesInv

\* A restore that begins makes the open transaction unclean; what it
\* reads changes nothing.
LEMMA RestoreKeepsBundles ==
  ASSUME LinkTypes, BundlesInv, RestorePorts \/ RestoreStep
  PROVE  BundlesInv'
<1>0. trapTx \in TrapTx /\ restoreTx \in RestoreTx /\ LinkTypeOK
  BY DEF LinkTypes, TransactionsOK
<1>1. CASE RestorePorts
  <2>1. trapTx'.at = trapTx.at /\ trapTx'.trap = trapTx.trap /\ ~trapTx'.clean
    BY <1>0, <1>1 DEF RestorePorts, TrapTx
  <2>2. /\ raced' = IF trapTx.at = "idle" THEN raced ELSE raced \cup {Now}
        /\ UNCHANGED <<adjacent, bundle>>
    BY <1>1 DEF RestorePorts, rows, Now
  <2>3. restoreTx'.ports = DownPorts /\ restoreTx'.at = "bundles"
    BY <1>1 DEF RestorePorts, NoRestore
  <2>4. TrapInTime'
    BY <2>1, <2>2 DEF TrapInTime, Now
  <2>5. ASSUME NEW e \in Ends \ raced' PROVE (Follows(e) /\ Restores(e))'
    <3>1. \A k \in Members : <<e, k>> \in Port
      BY DEF Port
    <3> QED
      BY <2>2, <2>3, <3>1 DEF BundlesInv, Follows, Restores, DownPorts
  <2> QED
    BY <2>4, <2>5 DEF BundlesInv
<1>2. CASE RestoreBundles \/ RestorePeerings
  <2>1. UNCHANGED <<adjacent, bundle, trapTx, raced>>
    BY <1>2 DEF RestoreBundles, RestorePeerings, rows
  <2>2. /\ restoreTx'.ports = restoreTx.ports /\ Restoring
        /\ restoreTx'.bundles = DownBundles
             \/ (restoreTx'.bundles = restoreTx.bundles /\ restoreTx.at = "peerings")
        /\ restoreTx'.at \in {"peerings", "commit"}
    BY <1>0, <1>2 DEF RestoreBundles, RestorePeerings, RestoreTx, Restoring
  <2>3. TrapInTime'
    BY <2>1, <2>2 DEF BundlesInv, TrapInTime, Restoring, Now, Seen, SeenUp
  <2>4. \A e \in Ends \ raced' : (Follows(e) /\ Restores(e))'
    BY <2>1, <2>2 DEF BundlesInv, Follows, Restores, DownBundles
  <2> QED
    BY <2>3, <2>4 DEF BundlesInv
<1>3. CASE CommitRestore
  <2>1. /\ adjacent' = [n \in Port |-> adjacent[n] \/ n \in restoreTx.ports]
        /\ bundle' = [e \in Ends |-> IF e \in restoreTx.bundles THEN "up" ELSE bundle[e]]
        /\ restoreTx' = NoRestore /\ UNCHANGED <<trapTx, raced>> /\ restoreTx.at = "commit"
    BY <1>3 DEF CommitRestore
  <2>2. trapTx.at # "idle" => ~trapTx.clean /\ Now \in raced
    BY <1>0, <2>1 DEF BundlesInv, TrapInTime, Restoring, TrapTx
  <2>3. TrapInTime'
    BY <2>1, <2>2 DEF TrapInTime, Now
  <2>4. ASSUME NEW e \in Ends \ raced' PROVE (Follows(e) /\ Restores(e))'
    <3>1. \A k \in Members : <<e, k>> \in Port
      BY DEF Port
    <3>2. 1 \in Members
      BY DEF Members, BUNDLE_MEMBER_COUNT
    <3>3. Follows(e) /\ Restores(e)
      BY <2>1 DEF BundlesInv
    <3>4. \A k \in Members : adjacent'[<<e, k>>]
      BY <2>1, <3>1, <3>3 DEF Restores, Restoring
    <3>5. bundle'[e] = "up"
      BY <1>0, <2>1, <3>3 DEF Restores, LinkTypeOK
    <3>6. Follows(e)'
      BY <3>2, <3>4, <3>5 DEF Follows
    <3> QED
      BY <2>1, <3>6 DEF Restores, Restoring, NoRestore
  <2> QED
    BY <2>3, <2>4 DEF BundlesInv
<1> QED
  BY <1>1, <1>2, <1>3 DEF RestoreStep

\* Every step keeps the invariant.
LEMMA BundlesInvKept ==
  ASSUME LinkTypes, BundlesInv, [LinkNext]_linkVars
  PROVE  BundlesInv'
<1>1. CASE Quiet
  BY <1>1 DEF Quiet, BundlesInv, TrapInTime, Follows, Restores, Restoring, Now, Seen, SeenUp
<1>2. CASE BackendRestart
  <2>1. UNCHANGED <<adjacent, bundle, trapTx, raced>> /\ restoreTx'.at = "idle"
    BY <1>2 DEF BackendRestart, rows, NoRestore
  <2> QED
    BY <2>1 DEF BundlesInv, TrapInTime, Follows, Restores, Restoring, Now, Seen, SeenUp
<1> QED
  BY <1>1, <1>2, LoadKeepsBundles, GoOnKeepsBundles, CommitKeepsBundles, RestoreKeepsBundles,
     StepsOfTransactions DEF TrapStep

\* The bundles are right at first.
LEMMA BundlesInvAtFirst == LinkInit => BundlesInv
BY DEF LinkInit, BundlesInv, TrapInTime, Follows, Restores, Restoring, NoTrap, NoRestore, Port,
       Members, BUNDLE_MEMBER_COUNT

\* A bundle is up exactly while a member is, except where a restore ran into a trap.
THEOREM BundleFollowsMembersHolds == LinkSpec => []BundleFollowsMembers
<1>1. BundlesInv => BundleFollowsMembers
  BY DEF BundlesInv, BundleFollowsMembers, Follows
<1>2. LinkTypes /\ BundlesInv /\ [LinkNext]_linkVars => BundlesInv'
  BY BundlesInvKept
<1> QED
  BY <1>1, <1>2, BundlesInvAtFirst, LinkTypesAtFirst, LinkTypesKept, PTL DEF LinkSpec

\* Losing members takes a session down only when an end has no member left.
THEOREM RedundancyIsTrue == LinkSpec => RedundancyHolds
<1> DEFINE Redundant == \A p \in Peerings :
       session[p] = "established" /\ session'[p] = "down" /\ trapTx.at = "commit" =>
         \E e \in EndsOf(p) : e \in raced \/ \A k \in Members : ~adjacent'[<<e, k>>]
<1>1. LinkTypes /\ BundlesInv /\ [LinkNext]_linkVars => Redundant
  <2> SUFFICES ASSUME LinkTypes, BundlesInv, [LinkNext]_linkVars, NEW p \in Peerings,
                      session[p] = "established", session'[p] = "down", trapTx.at = "commit"
               PROVE  \E e \in EndsOf(p) : e \in raced \/ \A k \in Members : ~adjacent'[<<e, k>>]
    OBVIOUS
  <2>1. CommitTrap
    BY DEF LinkNext, linkVars, rows, SendNext, TrapStep, RestoreStep, StartEvent, StartFault,
           LoadMember, SessionTrap, MaySend, Drop, Pause, Resume, PollSwitch, RollUp, FlipBundle,
           RestorePorts, RestoreBundles, RestorePeerings, CommitRestore, BackendRestart
  <2>2. TransactionsOK /\ LinkTypeOK
    BY DEF LinkTypes
  <2>3. Now \in EndsOf(Now[1]) /\ Now[1] \in Peerings /\ PortOf(trapTx.trap) \in Port
        /\ trapTx.trap.up \in BOOLEAN
    BY <2>2, MemberTrapIsOfPort DEF TransactionsOK, Now
  <2>4. "session" \in trapTx.writes /\ p = Now[1] /\ trapTx.status # "up"
    BY <2>1, <2>2 DEF CommitTrap, Now, EndOf, SessionStatus, LinkTypeOK
  <2>5. "bundle" \in trapTx.writes /\ trapTx.status = "down"
    BY <2>2, <2>4 DEF TransactionsOK
  <2>6. CASE trapTx.clean
    <3>1. \A k \in Members : ~SeenUp(<<Now, k>>)
      BY <2>5, <2>6 DEF BundlesInv, TrapInTime, Seen
    <3>2. "member" \notin trapTx.writes => adjacent[PortOf(trapTx.trap)] = trapTx.trap.up
      BY <2>6 DEF BundlesInv, TrapInTime
    <3>3. \A n \in Port : adjacent'[n] = SeenUp(n)
      BY <2>1, <2>2, <2>3, <3>2 DEF CommitTrap, LinkTypeOK, SeenUp
    <3>4. \A k \in Members : <<Now, k>> \in Port
      BY <2>3 DEF Port, EndsOf
    <3> QED
      BY <2>3, <2>4, <3>1, <3>3, <3>4
  <2>7. CASE ~trapTx.clean
    BY <2>3, <2>4, <2>7 DEF BundlesInv, TrapInTime
  <2> QED
    BY <2>6, <2>7
<1>2. LinkTypes /\ BundlesInv /\ [LinkNext]_linkVars => BundlesInv'
  BY BundlesInvKept
<1> QED
  BY <1>1, <1>2, BundlesInvAtFirst, LinkTypesAtFirst, LinkTypesKept, PTL
  DEF LinkSpec, RedundancyHolds


-----------------------------------------------------------------------------
(* What is owed *)

\* The recoveries that coroutines have still to send, or that were swallowed.
Coming == UNION {Recoveries(tasks[c].script) : c \in Coroutines}
Unsent == swallowed \cup Coming

\* Beside those, the one in the correlator's hand is owed.
InHand == IF trapTx.at # "idle" /\ trapTx.trap.up THEN {OfMember(PortOf(trapTx.trap))} ELSE {}

\* What is owed is still to be sent, or in the open transaction.
LEMMA OwedIs == TransactionsOK => Owed = Unsent \cup InHand
<1> SUFFICES ASSUME TransactionsOK PROVE Owed = Unsent \cup InHand
  OBVIOUS
<1> DEFINE hand == IF trapTx.at # "idle" THEN Recoveries(<<trapTx.trap>>) ELSE {}
<1>1. Owed = Unsent \cup hand
  BY DEF Owed, Unsent, Coming
<1>2. CASE trapTx.at = "idle"
  BY <1>1, <1>2 DEF InHand
<1>3. CASE trapTx.at # "idle"
  <2>1. trapTx.trap.of = OfMember(PortOf(trapTx.trap))
    BY <1>3, MemberTrapIsOfPort DEF TransactionsOK
  <2>2. Repairs(trapTx.trap.of) = OfMember(PortOf(trapTx.trap))
    BY <2>1, Things
  <2>3. Recoveries(<<trapTx.trap>>) =
          IF trapTx.trap.up THEN {OfMember(PortOf(trapTx.trap))} ELSE {}
    BY <2>2, OneRecovery
  <2>4. hand = InHand
    BY <1>3, <2>3 DEF InHand
  <2> QED
    BY <1>1, <2>4
<1> QED
  BY <1>2, <1>3

OwedSplit == Owed = Unsent \cup InHand

\* Before a step and after it.
LEMMA OwedIsThen == LinkTypes /\ LinkTypes' => OwedSplit /\ OwedSplit'
<1>1. LinkTypes => OwedSplit
  BY OwedIs DEF LinkTypes, OwedSplit
<1> QED
  BY <1>1, PTL

\* A trap that is sent is no longer to come; one that takes something down has
\* its recovery still to come.
LEMMA ComingSent ==
  ASSUME LinkTypes, NEW c \in Coroutines, tasks[c].script # Idle, tasks' = Sent(c)
  PROVE  /\ \A x \in Coming : x \in Coming' \/ (NextTrap(c).up /\ x = Repairs(NextTrap(c).of))
         /\ ~NextTrap(c).up => Repairs(NextTrap(c).of) \in Coming'
<1>1. tasks \in [Coroutines -> Task] /\ tasks[c].script \in Script
  BY DEF LinkTypes, Task
<1>2. /\ tasks'[c].script = Tail(tasks[c].script)
      /\ \A d \in Coroutines : d # c => tasks'[d] = tasks[d]
  BY <1>1, SentTypes
<1>3. ASSUME NEW x \in Coming
      PROVE  x \in Coming' \/ (NextTrap(c).up /\ x = Repairs(NextTrap(c).of))
  <2>1. PICK d \in Coroutines : x \in Recoveries(tasks[d].script)
    BY DEF Coming
  <2>2. CASE d # c
    BY <1>2, <2>1, <2>2 DEF Coming
  <2>3. CASE d = c
    BY <1>1, <1>2, <2>1, <2>3, RecoveriesOfTail DEF Coming, NextTrap
  <2> QED
    BY <2>2, <2>3
<1>4. ~NextTrap(c).up => Repairs(NextTrap(c).of) \in Coming'
  BY <1>1, <1>2, RecoveriesOfTail DEF Coming, NextTrap
<1> QED
  BY <1>3, <1>4

\* What is still owed after a step that neither sends to the correlator nor commits.
LEMMA UnsentGrows ==
  ASSUME LinkTypes,
         \/ \E c \in Coroutines : StartEvent(c) \/ StartFault(c) \/ Drop(c)
         \/ Pause \/ Resume \/ PollSwitch \/ RollUp \/ FlipBundle
         \/ RestorePorts \/ RestoreBundles \/ RestorePeerings
         \/ BackendRestart \/ UNCHANGED linkVars
  PROVE  Unsent \subseteq Unsent'
<1>1. ASSUME NEW c \in Coroutines, StartEvent(c) \/ StartFault(c)
      PROVE  Unsent \subseteq Unsent'
  <2>1. tasks[c].script = Idle /\ swallowed' = swallowed
        /\ \A d \in Coroutines : d # c => tasks'[d] = tasks[d]
    BY <1>1 DEF StartEvent, StartFault, LinkTypes
  <2>2. Coming \subseteq Coming'
    BY <2>1, NoRecoveries DEF Coming
  <2> QED
    BY <2>1, <2>2 DEF Unsent
<1>2. ASSUME NEW c \in Coroutines, Drop(c)
      PROVE  Unsent \subseteq Unsent'
  <2>1. tasks[c].script # Idle /\ tasks' = Sent(c)
        /\ swallowed' = IF NextTrap(c).up THEN swallowed \cup {Repairs(NextTrap(c).of)}
                        ELSE swallowed
    BY <1>2 DEF Drop
  <2> QED
    BY <2>1, ComingSent DEF Unsent
<1>3. CASE BackendRestart
  <2>1. swallowed' = swallowed \cup
          UNION {Recoveries(tasks[c].script) : c \in {d \in Coroutines : tasks[d].by # "simulator"}}
    BY <1>3 DEF BackendRestart
  <2>2. \A c \in Coroutines : tasks[c].by = "simulator" => tasks'[c] = tasks[c]
    BY <1>3 DEF BackendRestart
  <2>3. ASSUME NEW x \in Coming PROVE x \in swallowed' \/ x \in Coming'
    <3>1. PICK c \in Coroutines : x \in Recoveries(tasks[c].script)
      BY DEF Coming
    <3> QED
      BY <2>1, <2>2, <3>1 DEF Coming
  <2> QED
    BY <2>1, <2>3 DEF Unsent
<1>4. CASE \/ Pause \/ Resume \/ PollSwitch \/ RollUp \/ FlipBundle
           \/ RestorePorts \/ RestoreBundles \/ RestorePeerings \/ UNCHANGED linkVars
  BY <1>4 DEF Pause, Resume, PollSwitch, RollUp, FlipBundle, RestorePorts, RestoreBundles,
              RestorePeerings, linkVars, Unsent, Coming
<1> QED
  BY <1>1, <1>2, <1>3, <1>4

\* What the correlator's transaction is about stays the same until it ends.
LEMMA TrapStays ==
  ASSUME LinkTypes,
         \/ \E c \in Coroutines : StartEvent(c) \/ StartFault(c) \/ Drop(c)
         \/ Pause \/ Resume \/ PollSwitch \/ RollUp \/ FlipBundle
         \/ RestorePorts \/ RestoreBundles \/ RestorePeerings
         \/ BackendRestart \/ UNCHANGED linkVars
  PROVE  /\ UNCHANGED <<adjacent, bundle, session>>
         /\ trapTx'.trap = trapTx.trap /\ (trapTx'.at = "idle" <=> trapTx.at = "idle")
         /\ "member" \in trapTx'.writes <=> "member" \in trapTx.writes
<1>0. trapTx \in TrapTx
  BY DEF LinkTypes, TransactionsOK
<1>1. CASE RollUp
  BY <1>0, <1>1 DEF RollUp, TrapTx, rows
<1>3. CASE FlipBundle
  <2>1. trapTx'.writes \in {trapTx.writes \cup {"bundle"}, trapTx.writes \cup {"bundle", "session"}}
        /\ trapTx'.trap = trapTx.trap /\ trapTx'.at = "commit" /\ trapTx.at = "flip"
    BY <1>0, <1>3 DEF FlipBundle, TrapTx
  <2> QED
    BY <1>3, <2>1 DEF FlipBundle, rows
<1>4. CASE RestorePorts
  BY <1>0, <1>4 DEF RestorePorts, TrapTx, rows
<1>2. CASE \/ \E c \in Coroutines : StartEvent(c) \/ StartFault(c) \/ Drop(c)
           \/ Pause \/ Resume \/ PollSwitch \/ RestoreBundles \/ RestorePeerings
           \/ BackendRestart \/ UNCHANGED linkVars
  BY <1>2 DEF StartEvent, StartFault, Drop, Pause, Resume, PollSwitch, RestoreBundles,
              RestorePeerings, BackendRestart, linkVars, rows
<1> QED
  BY <1>1, <1>2, <1>3, <1>4

\* So nothing that was owed is forgotten in such a step.
LEMMA OwedGrows ==
  ASSUME LinkTypes, LinkTypes',
         \/ \E c \in Coroutines : StartEvent(c) \/ StartFault(c) \/ Drop(c)
         \/ Pause \/ Resume \/ PollSwitch \/ RollUp \/ FlipBundle
         \/ RestorePorts \/ RestoreBundles \/ RestorePeerings
         \/ BackendRestart \/ UNCHANGED linkVars
  PROVE  Owed \subseteq Owed'
<1>1. Unsent \subseteq Unsent'
  BY UnsentGrows
<1>2. trapTx'.trap = trapTx.trap /\ (trapTx'.at = "idle" <=> trapTx.at = "idle")
  BY TrapStays
<1>3. InHand \subseteq InHand'
  BY <1>2 DEF InHand
<1> QED
  BY <1>1, <1>3, OwedIsThen DEF OwedSplit

\* The steps that are none of those.
LEMMA OtherSteps ==
  ASSUME [LinkNext]_linkVars
  PROVE  \/ \/ \E c \in Coroutines : StartEvent(c) \/ StartFault(c) \/ Drop(c)
            \/ Pause \/ Resume \/ PollSwitch \/ RollUp \/ FlipBundle
            \/ RestorePorts \/ RestoreBundles \/ RestorePeerings
            \/ BackendRestart \/ UNCHANGED linkVars
         \/ \E c \in Coroutines : LoadMember(c) \/ SessionTrap(c)
         \/ CommitTrap \/ CommitRestore
BY DEF LinkNext, SendNext, TrapStep, RestoreStep

\* A trap of a member goes from its script to the correlator's hand.
LEMMA LoadOwes ==
  ASSUME LinkTypes, LinkTypes', NEW c \in Coroutines, LoadMember(c)
  PROVE  /\ Owed \subseteq Owed'
         /\ ~trapTx'.trap.up => OfMember(PortOf(trapTx'.trap)) \in Unsent'
<1>1. NextTrap(c) \in MemberTrap
  BY MemberTraps DEF LinkTypes
<1>2. Repairs(NextTrap(c).of) = OfMember(PortOf(NextTrap(c)))
  BY <1>1, MemberTrapIsOfPort, Things
<1>3. /\ tasks[c].script # Idle /\ tasks' = Sent(c) /\ swallowed' = swallowed
      /\ trapTx.at = "idle" /\ trapTx'.at = "loaded" /\ trapTx'.trap = NextTrap(c)
  BY DEF LoadMember, MaySend
<1>4. InHand = {} /\ InHand' =
        IF NextTrap(c).up THEN {OfMember(PortOf(NextTrap(c)))} ELSE {}
  BY <1>3 DEF InHand
<1>5. Unsent \subseteq Unsent' \cup InHand'
  BY <1>2, <1>3, <1>4, ComingSent DEF Unsent
<1>6. ~trapTx'.trap.up => OfMember(PortOf(trapTx'.trap)) \in Unsent'
  BY <1>2, <1>3, ComingSent DEF Unsent
<1> QED
  BY <1>4, <1>5, <1>6, OwedIsThen DEF OwedSplit

\* A session's trap takes back no more than what it repairs.
LEMMA SessionTrapOwes ==
  ASSUME LinkTypes, LinkTypes', NEW c \in Coroutines, SessionTrap(c)
  PROVE  \E p \in Peerings :
           /\ p \notin restoreTx.peerings
           /\ session' = [session EXCEPT ![p] = SessionStatus(NextTrap(c).up)]
           /\ \A x \in Owed : x = SessionOf(p) \/ x \in Owed'
           /\ ~NextTrap(c).up => SessionOf(p) \in Owed'
<1>1. NextTrap(c) \in Trap /\ tasks[c].script # Idle /\ NextTrap(c).of.kind = "bgp"
  BY SentTypes DEF LinkTypes, SessionTrap, MaySend
<1>2. PICK e \in Ends : NextTrap(c).of = OfSession(e)
  BY <1>1, KindTells
<1> DEFINE p == e[1]
<1>3. p \in Peerings /\ NextTrap(c).of.end[1] = p /\ Repairs(NextTrap(c).of) = SessionOf(p)
  BY <1>2, Things DEF Ends
<1>4. /\ p \notin restoreTx.peerings /\ tasks' = Sent(c)
      /\ session' = [session EXCEPT ![p] = SessionStatus(NextTrap(c).up)]
      /\ swallowed' = IF NextTrap(c).up THEN swallowed \ {SessionOf(p)} ELSE swallowed
      /\ trapTx' = trapTx
  BY <1>3 DEF SessionTrap
<1>5. \A x \in Unsent : x = SessionOf(p) \/ x \in Unsent'
  BY <1>1, <1>3, <1>4, ComingSent DEF Unsent
<1>6. ~NextTrap(c).up => SessionOf(p) \in Unsent'
  BY <1>1, <1>3, <1>4, ComingSent DEF Unsent
<1>7. InHand' = InHand
  BY <1>4 DEF InHand
<1> HIDE DEF p
<1> QED
  BY <1>3, <1>4, <1>5, <1>6, <1>7, OwedIsThen DEF OwedSplit

\* The correlator's commit takes back the recovery of its member, once it is up.
LEMMA CommitTrapOwes ==
  ASSUME LinkTypes, LinkTypes', CommitTrap
  PROVE  /\ \A x \in Owed : x \in Owed' \/ (trapTx.trap.up /\ x = OfMember(PortOf(trapTx.trap)))
         /\ ~trapTx.trap.up => Owed \subseteq Owed' /\ Unsent \subseteq Owed'
<1>1. /\ swallowed' = IF trapTx.trap.up THEN swallowed \ {OfMember(PortOf(trapTx.trap))}
                      ELSE swallowed
      /\ tasks' = tasks /\ trapTx' = NoTrap
  BY DEF CommitTrap
<1>2. InHand' = {}
  BY <1>1 DEF InHand, NoTrap
<1>3. Coming' = Coming
  BY <1>1 DEF Coming
<1> QED
  BY <1>1, <1>2, <1>3, OwedIsThen DEF OwedSplit, Unsent, InHand

\* The restore's commit takes back what it brings up.
LEMMA CommitRestoreOwes ==
  ASSUME LinkTypes, LinkTypes', CommitRestore
  PROVE  \A x : /\ x \notin {OfMember(m) : m \in restoreTx.ports}
                /\ x \notin {SessionOf(p) : p \in restoreTx.peerings}
                => (x \in Owed => x \in Owed') /\ (x \in Unsent => x \in Unsent')
<1>1. /\ swallowed' = swallowed \ ({OfMember(m) : m \in restoreTx.ports}
                                   \cup {SessionOf(p) : p \in restoreTx.peerings})
      /\ tasks' = tasks /\ trapTx' = trapTx
  BY DEF CommitRestore
<1>2. Coming' = Coming /\ InHand' = InHand
  BY <1>1 DEF Coming, InHand
<1> QED
  BY <1>1, <1>2, OwedIsThen DEF OwedSplit, Unsent

-----------------------------------------------------------------------------
(* What is down comes back *)

\* What the trap in hand is about: it has no need to write a member that is up
\* already; and a member it takes down is up, with its recovery still to come.
TrapOfMember ==
  trapTx.at # "idle" =>
    /\ trapTx.trap.up /\ "member" \notin trapTx.writes => adjacent[PortOf(trapTx.trap)]
    /\ ~trapTx.trap.up /\ "member" \in trapTx.writes =>
         adjacent[PortOf(trapTx.trap)] /\ OfMember(PortOf(trapTx.trap)) \in Unsent

RecoveryInv == DownWillRecover /\ TrapOfMember

\* Every step keeps the invariant.
LEMMA RecoveryInvKept ==
  ASSUME LinkTypes, LinkTypes', LocksOK, RecoveryInv, [LinkNext]_linkVars
  PROVE  RecoveryInv'
<1>0. TransactionsOK /\ LinkTypeOK /\ trapTx \in TrapTx
  BY DEF LinkTypes, TransactionsOK
<1>1. CASE \/ \E c \in Coroutines : StartEvent(c) \/ StartFault(c) \/ Drop(c)
           \/ Pause \/ Resume \/ PollSwitch \/ RollUp \/ FlipBundle
           \/ RestorePorts \/ RestoreBundles \/ RestorePeerings
           \/ BackendRestart \/ UNCHANGED linkVars
  <2>1. /\ adjacent' = adjacent
        /\ trapTx'.trap = trapTx.trap /\ (trapTx'.at = "idle" <=> trapTx.at = "idle")
        /\ "member" \in trapTx'.writes <=> "member" \in trapTx.writes
    BY <1>1, TrapStays
  <2>2. Owed \subseteq Owed' /\ Unsent \subseteq Unsent'
    BY <1>1, OwedGrows, UnsentGrows
  <2> QED
    BY <2>1, <2>2 DEF RecoveryInv, DownWillRecover, TrapOfMember
<1>2. ASSUME NEW c \in Coroutines, LoadMember(c)
      PROVE  RecoveryInv'
  <2>1. NextTrap(c) \in MemberTrap
    BY <1>2, MemberTraps DEF LinkTypes
  <2>2. /\ trapTx'.trap = NextTrap(c) /\ adjacent' = adjacent
        /\ trapTx'.writes = IF adjacent[PortOf(NextTrap(c))] # NextTrap(c).up
                            THEN {"member"} ELSE {}
    BY <1>2 DEF LoadMember, rows
  <2>3. PortOf(NextTrap(c)) \in Port /\ NextTrap(c).up \in BOOLEAN
    BY <2>1, MemberTrapIsOfPort
  <2>4. adjacent[PortOf(NextTrap(c))] \in BOOLEAN
    BY <1>0, <2>3 DEF LinkTypeOK
  <2>5. TrapOfMember'
    BY <1>2, <2>2, <2>3, <2>4, LoadOwes DEF TrapOfMember
  <2>6. DownWillRecover'
    BY <1>2, <2>2, LoadOwes DEF RecoveryInv, DownWillRecover
  <2> QED
    BY <2>5, <2>6 DEF RecoveryInv
<1>3. ASSUME NEW c \in Coroutines, SessionTrap(c)
      PROVE  RecoveryInv'
  <2>1. PICK p : \A x \in Owed : x = SessionOf(p) \/ x \in Owed'
    BY <1>3, SessionTrapOwes
  <2>2. \A m : OfMember(m) # SessionOf(p)
    BY Things
  <2>3. adjacent' = adjacent /\ trapTx' = trapTx /\ trapTx.at = "idle"
    BY <1>3 DEF SessionTrap, MaySend
  <2>4. DownWillRecover'
    BY <2>1, <2>2, <2>3 DEF RecoveryInv, DownWillRecover
  <2> QED
    BY <2>3, <2>4 DEF RecoveryInv, TrapOfMember
<1>4. CASE CommitTrap
  <2> DEFINE m == PortOf(trapTx.trap)
  <2>1. /\ trapTx.at = "commit" /\ trapTx' = NoTrap
        /\ adjacent' = IF "member" \in trapTx.writes
                         THEN [adjacent EXCEPT ![m] = trapTx.trap.up] ELSE adjacent
    BY <1>4 DEF CommitTrap
  <2>2. m \in Port /\ trapTx.trap.up \in BOOLEAN
    BY <1>0, <2>1, MemberTrapIsOfPort DEF TransactionsOK
  <2>3. ASSUME NEW n \in Port, n # m PROVE adjacent'[n] \/ OfMember(n) \in Owed'
    <3>1. OfMember(n) # OfMember(m)
      BY <2>3, Things
    <3>2. adjacent'[n] = adjacent[n]
      BY <2>1, <2>3
    <3> QED
      BY <1>4, <3>1, <3>2, CommitTrapOwes DEF RecoveryInv, DownWillRecover
  <2>4. CASE trapTx.trap.up
    <3>1. adjacent'[m]
      BY <1>0, <2>1, <2>2, <2>4 DEF RecoveryInv, TrapOfMember, LinkTypeOK
    <3> QED
      BY <2>1, <2>3, <3>1 DEF RecoveryInv, DownWillRecover, TrapOfMember, NoTrap
  <2>5. CASE ~trapTx.trap.up
    <3>1. Owed \subseteq Owed' /\ Unsent \subseteq Owed'
      BY <1>4, <2>5, CommitTrapOwes
    <3>2. adjacent'[m] \/ OfMember(m) \in Owed'
      BY <2>1, <2>2, <2>5, <3>1 DEF RecoveryInv, DownWillRecover, TrapOfMember
    <3> QED
      BY <2>1, <2>3, <3>2 DEF RecoveryInv, DownWillRecover, TrapOfMember, NoTrap
  <2> QED
    BY <2>4, <2>5
<1>5. CASE CommitRestore
  <2>1. /\ adjacent' = [n \in Port |-> adjacent[n] \/ n \in restoreTx.ports]
        /\ trapTx' = trapTx
    BY <1>5 DEF CommitRestore
  <2>2. ASSUME NEW n, n \notin restoreTx.ports
        PROVE  /\ OfMember(n) \in Owed => OfMember(n) \in Owed'
               /\ OfMember(n) \in Unsent => OfMember(n) \in Unsent'
    <3>1. OfMember(n) \notin {OfMember(k) : k \in restoreTx.ports}
      BY <2>2, Things
    <3>2. OfMember(n) \notin {SessionOf(p) : p \in restoreTx.peerings}
      BY Things
    <3> QED
      BY <1>5, <3>1, <3>2, CommitRestoreOwes
  <2>3. DownWillRecover'
    BY <2>1, <2>2 DEF RecoveryInv, DownWillRecover
  <2>4. ASSUME trapTx.at # "idle"
        PROVE  PortOf(trapTx.trap) \in Port
    BY <1>0, <2>4, MemberTrapIsOfPort DEF TransactionsOK
  <2>5. \A n \in Port : adjacent[n] => n \notin restoreTx.ports /\ adjacent'[n]
    BY <2>1 DEF LocksOK, DownPorts
  <2>6. TrapOfMember'
    BY <2>1, <2>2, <2>4, <2>5 DEF RecoveryInv, TrapOfMember
  <2> QED
    BY <2>3, <2>6 DEF RecoveryInv
<1> QED
  BY <1>1, <1>2, <1>3, <1>4, <1>5, OtherSteps

\* Every link that is down has its recovery coming, unless that was swallowed.
THEOREM DownWillRecoverHolds == LinkSpec => []DownWillRecover
<1>1. LinkInit => LinkTypes /\ LocksOK /\ RecoveryInv
  <2> SUFFICES ASSUME LinkInit PROVE LinkTypes /\ LocksOK /\ RecoveryInv
    OBVIOUS
  <2> QED
    BY LinkTypesAtFirst, LocksAtFirst
    DEF LinkInit, RecoveryInv, DownWillRecover, TrapOfMember, NoTrap
<1>2. LinkTypes /\ LinkTypes' /\ LocksOK /\ RecoveryInv /\ [LinkNext]_linkVars => RecoveryInv'
  BY RecoveryInvKept
<1>3. LinkTypes /\ LocksOK /\ [LinkNext]_linkVars => LocksOK'
  BY LocksKept
<1>4. RecoveryInv => DownWillRecover
  BY DEF RecoveryInv
<1> QED
  BY <1>1, <1>2, <1>3, <1>4, LinkTypesKept, PTL DEF LinkSpec

-----------------------------------------------------------------------------
(* Sessions are down for a reason *)

\* An end of the peering is down and will not be brought up by the restore.
StaysDown(p) == \E e \in EndsOf(p) : bundle[e] = "down" /\ e \notin restoreTx.bundles

\* A session the restore has not seen down stays explained when it commits; one
\* that a bundle coming up leaves alone is established.
SessionsInv ==
  /\ DownSessionIsExplained
  /\ restoreTx.at = "commit" =>
       \A p \in Peerings \ restoreTx.peerings :
         session[p] = "down" => StaysDown(p) \/ SessionOf(p) \in Owed
  /\ "bundle" \in trapTx.writes /\ trapTx.status = "up" /\ "session" \notin trapTx.writes
       => session[Now[1]] = "established"

\* Every step keeps the invariant.
LEMMA SessionsInvKept ==
  ASSUME LinkTypes, LinkTypes', LocksOK, SessionsInv, [LinkNext]_linkVars
  PROVE  SessionsInv'
<1>0. TransactionsOK /\ LinkTypeOK /\ trapTx \in TrapTx /\ restoreTx \in RestoreTx
  BY DEF LinkTypes, TransactionsOK
<1>1. CASE \/ \E c \in Coroutines : StartEvent(c) \/ StartFault(c) \/ Drop(c)
           \/ Pause \/ Resume \/ PollSwitch \/ RollUp \/ FlipBundle
           \/ RestorePorts \/ RestoreBundles \/ RestorePeerings
           \/ BackendRestart \/ UNCHANGED linkVars
  <2>1. UNCHANGED <<bundle, session>> /\ trapTx'.trap = trapTx.trap
    BY <1>1, TrapStays
  <2>2. Owed \subseteq Owed'
    BY <1>1, OwedGrows
  <2>3. DownSessionIsExplained'
    BY <2>1, <2>2 DEF SessionsInv, DownSessionIsExplained
  <2>4. \/ restoreTx' = restoreTx
        \/ restoreTx'.at \in {"idle", "bundles", "peerings"}
        \/ restoreTx'.peerings = DownSessions
    <3>1. CASE RestorePorts \/ BackendRestart
      <4>1. CASE RestorePorts
        BY <4>1 DEF RestorePorts, NoRestore
      <4>2. CASE BackendRestart
        <5>1. restoreTx' = NoRestore
          BY <4>2 DEF BackendRestart
        <5> QED
          BY <5>1 DEF NoRestore
      <4> QED
        BY <3>1, <4>1, <4>2
    <3>2. CASE RestoreBundles
      BY <1>0, <3>2 DEF RestoreBundles, RestoreTx
    <3>3. CASE RestorePeerings
      BY <1>0, <3>3 DEF RestorePeerings, RestoreTx
    <3>4. CASE restoreTx' = restoreTx
      BY <3>4
    <3> QED
      BY <1>1, <3>1, <3>2, <3>3, <3>4
      DEF StartEvent, StartFault, Drop, Pause, Resume, PollSwitch, RollUp, FlipBundle, linkVars
  <2>5. restoreTx'.at = "commit" =>
          \A p \in Peerings \ restoreTx'.peerings :
            session'[p] = "down" => StaysDown(p)' \/ SessionOf(p) \in Owed'
    BY <2>1, <2>2, <2>4 DEF SessionsInv, StaysDown, DownSessions
  <2>6. "bundle" \in trapTx'.writes /\ trapTx'.status = "up" /\ "session" \notin trapTx'.writes
          => session'[Now'[1]] = "established"
    <3>1. Now' = Now
      BY <2>1 DEF Now
    <3>2. CASE FlipBundle
      <4>1. trapTx'.status = trapTx.status
            /\ ("session" \notin trapTx'.writes =>
                  session[Now[1]] = SessionStatus(trapTx.status = "up"))
        BY <1>0, <3>2 DEF FlipBundle, TrapTx, Now
      <4> QED
        BY <2>1, <3>1, <4>1 DEF SessionStatus
    <3>3. CASE RollUp
      <4>1. "bundle" \notin trapTx'.writes
        BY <1>0, <3>3 DEF RollUp, TrapTx, TransactionsOK
      <4> QED
        BY <4>1
    <3>4. CASE RestorePorts
      <4>1. trapTx'.status = trapTx.status /\ trapTx'.writes = trapTx.writes
        BY <1>0, <3>4 DEF RestorePorts, TrapTx
      <4> QED
        BY <2>1, <3>1, <4>1 DEF SessionsInv
    <3>5. CASE trapTx' = trapTx
      BY <2>1, <3>1, <3>5 DEF SessionsInv
    <3> QED
      BY <1>1, <3>2, <3>3, <3>4, <3>5
      DEF StartEvent, StartFault, Drop, Pause, Resume, PollSwitch, RestoreBundles, RestorePeerings,
          BackendRestart, linkVars
  <2> QED
    BY <2>3, <2>5, <2>6 DEF SessionsInv
<1>2. ASSUME NEW c \in Coroutines, LoadMember(c)
      PROVE  SessionsInv'
  <2>1. Owed \subseteq Owed'
    BY <1>2, LoadOwes
  <2>2. UNCHANGED <<bundle, session, restoreTx>> /\ "bundle" \notin trapTx'.writes
    BY <1>2 DEF LoadMember, rows
  <2> QED
    BY <2>1, <2>2 DEF SessionsInv, DownSessionIsExplained, StaysDown
<1>3. ASSUME NEW c \in Coroutines, SessionTrap(c)
      PROVE  SessionsInv'
  <2>1. PICK p \in Peerings :
           /\ p \notin restoreTx.peerings
           /\ session' = [session EXCEPT ![p] = SessionStatus(NextTrap(c).up)]
           /\ \A x \in Owed : x = SessionOf(p) \/ x \in Owed'
           /\ ~NextTrap(c).up => SessionOf(p) \in Owed'
    BY <1>3, SessionTrapOwes
  <2>2. trapTx' = trapTx /\ trapTx.at = "idle" /\ UNCHANGED <<bundle, restoreTx>>
    BY <1>3 DEF SessionTrap, MaySend
  <2>3. "bundle" \notin trapTx'.writes
    BY <1>0, <2>2 DEF TransactionsOK, NoTrap
  <2>4. \A q \in Peerings : q # p => session'[q] = session[q] /\ SessionOf(q) # SessionOf(p)
    BY <2>1, Things
  <2>5. session'[p] = "down" => SessionOf(p) \in Owed'
    BY <1>0, <2>1 DEF LinkTypeOK, SessionStatus
  <2>7. DownSessionIsExplained'
    BY <2>1, <2>2, <2>4, <2>5 DEF SessionsInv, DownSessionIsExplained
  <2>8. restoreTx'.at = "commit" =>
          \A q \in Peerings \ restoreTx'.peerings :
            session'[q] = "down" => StaysDown(q)' \/ SessionOf(q) \in Owed'
    BY <2>1, <2>2, <2>4, <2>5 DEF SessionsInv, StaysDown
  <2> QED
    BY <2>3, <2>7, <2>8 DEF SessionsInv
<1>4. CASE CommitTrap
  <2> DEFINE p == Now[1]
             wrote(x) == x \in trapTx.writes
  <2>1. /\ trapTx.at = "commit" /\ trapTx' = NoTrap /\ restoreTx' = restoreTx
        /\ bundle' = IF wrote("bundle") THEN [bundle EXCEPT ![Now] = trapTx.status] ELSE bundle
        /\ session' = IF wrote("session")
                      THEN [session EXCEPT ![p] = SessionStatus(trapTx.status = "up")] ELSE session
    BY <1>4 DEF CommitTrap, Now, EndOf
  <2>2. Now \in Ends /\ Now \in EndsOf(p) /\ p \in Peerings
    BY <1>0, <2>1, MemberTrapIsOfPort DEF TransactionsOK, Now
  <2>3. \A q : SessionOf(q) \in Owed => SessionOf(q) \in Owed'
    BY <1>4, CommitTrapOwes, Things
  <2>4. wrote("bundle") => Now \notin restoreTx.bundles
    BY <2>1 DEF LocksOK, HeldBundles, Now
  <2>5. \A q \in Peerings : \A e \in EndsOf(q) : e = Now => q = p
    BY DEF EndsOf
  <2>6. wrote("session") => wrote("bundle") /\ trapTx.status \in {"up", "down"}
    BY <1>0 DEF TransactionsOK
  <2>7. wrote("bundle") => trapTx.status \in {"up", "down"}
    BY <1>0 DEF TransactionsOK
  <2>8. ASSUME NEW q \in Peerings, session'[q] = "down", wrote("session"), q = p
        PROVE  bundle'[Now] = "down" /\ wrote("bundle")
    BY <1>0, <2>1, <2>2, <2>6, <2>8 DEF LinkTypeOK, SessionStatus
  <2>9. ASSUME NEW q \in Peerings, session'[q] = "down", ~(wrote("session") /\ q = p)
        PROVE  /\ session[q] = "down"
               /\ \A e \in EndsOf(q) : bundle[e] = "down" => bundle'[e] = "down"
    <3>1. session[q] = "down"
      BY <1>0, <2>1, <2>9 DEF LinkTypeOK
    <3>2. ASSUME NEW e \in EndsOf(q), bundle[e] = "down", bundle'[e] # "down"
          PROVE  FALSE
      <4>1. e = Now /\ wrote("bundle") /\ trapTx.status = "up"
        BY <1>0, <2>1, <2>2, <2>7, <3>2 DEF LinkTypeOK, EndsOf
      <4>2. q = p /\ ~wrote("session")
        BY <2>5, <2>9, <4>1
      <4>3. session[q] = "established"
        BY <4>1, <4>2 DEF SessionsInv
      <4> QED
        BY <3>1, <4>3
    <3> QED
      BY <3>1, <3>2
  <2> HIDE DEF p, wrote
  <2>10. DownSessionIsExplained'
    <3> SUFFICES ASSUME NEW q \in Peerings, session'[q] = "down"
                 PROVE  (\E e \in EndsOf(q) : bundle'[e] = "down") \/ SessionOf(q) \in Owed'
      BY DEF DownSessionIsExplained
    <3>1. CASE wrote("session") /\ q = p
      BY <2>2, <2>8, <3>1
    <3>2. CASE ~(wrote("session") /\ q = p)
      BY <2>3, <2>9, <3>2 DEF SessionsInv, DownSessionIsExplained
    <3> QED
      BY <3>1, <3>2
  <2>11. ASSUME restoreTx'.at = "commit", NEW q \in Peerings \ restoreTx'.peerings,
                session'[q] = "down"
         PROVE  StaysDown(q)' \/ SessionOf(q) \in Owed'
    <3>1. CASE wrote("session") /\ q = p
      BY <2>1, <2>2, <2>4, <2>8, <2>11, <3>1 DEF StaysDown
    <3>2. CASE ~(wrote("session") /\ q = p)
      <4>1. session[q] = "down" /\ \A e \in EndsOf(q) : bundle[e] = "down" => bundle'[e] = "down"
        BY <2>9, <2>11, <3>2
      <4>2. StaysDown(q) \/ SessionOf(q) \in Owed
        BY <2>1, <2>11, <4>1 DEF SessionsInv
      <4> QED
        BY <2>1, <2>3, <4>1, <4>2 DEF StaysDown
    <3> QED
      BY <3>1, <3>2
  <2>12. "bundle" \notin trapTx'.writes
    BY <2>1 DEF NoTrap
  <2> QED
    BY <2>10, <2>11, <2>12 DEF SessionsInv
<1>5. CASE CommitRestore
  <2>1. /\ bundle' = [e \in Ends |-> IF e \in restoreTx.bundles THEN "up" ELSE bundle[e]]
        /\ session' = [q \in Peerings |-> IF q \in restoreTx.peerings
                                          THEN "established" ELSE session[q]]
        /\ restoreTx' = NoRestore /\ trapTx' = trapTx /\ restoreTx.at = "commit"
    BY <1>5 DEF CommitRestore
  <2>2. ASSUME NEW q \in Peerings, session'[q] = "down"
        PROVE  (\E e \in EndsOf(q) : bundle'[e] = "down") \/ SessionOf(q) \in Owed'
    <3>1. q \notin restoreTx.peerings /\ session[q] = "down"
      BY <2>1, <2>2
    <3>2. StaysDown(q) \/ SessionOf(q) \in Owed
      BY <2>1, <3>1 DEF SessionsInv
    <3>3. StaysDown(q) => \E e \in EndsOf(q) : bundle'[e] = "down"
      BY <2>1 DEF StaysDown, EndsOf
    <3>4. SessionOf(q) \notin {OfMember(m) : m \in restoreTx.ports}
      BY Things
    <3>5. SessionOf(q) \notin {SessionOf(r) : r \in restoreTx.peerings}
      BY <3>1, Things
    <3> QED
      BY <1>5, <3>2, <3>3, <3>4, <3>5, CommitRestoreOwes
  <2>3. "bundle" \in trapTx.writes => Now[1] \in Peerings
    <3>1. "bundle" \in trapTx.writes => trapTx.at # "idle"
      BY <1>0 DEF TransactionsOK, NoTrap
    <3> QED
      BY <1>0, <3>1, MemberTrapIsOfPort DEF TransactionsOK, Now
  <2>4. "bundle" \in trapTx'.writes /\ trapTx'.status = "up" /\ "session" \notin trapTx'.writes
          => session'[Now'[1]] = "established"
    BY <2>1, <2>3 DEF SessionsInv, Now
  <2> QED
    BY <2>1, <2>2, <2>4 DEF SessionsInv, DownSessionIsExplained, NoRestore
<1> QED
  BY <1>1, <1>2, <1>3, <1>4, <1>5, OtherSteps

\* No session is down for no reason: one of its bundles is, or a reset of it has
\* its recovery coming or swallowed.
THEOREM DownSessionIsExplainedHolds == LinkSpec => []DownSessionIsExplained
<1>1. LinkInit => LinkTypes /\ LocksOK /\ SessionsInv
  <2> SUFFICES ASSUME LinkInit PROVE LinkTypes /\ LocksOK /\ SessionsInv
    OBVIOUS
  <2> QED
    BY LinkTypesAtFirst, LocksAtFirst
    DEF LinkInit, SessionsInv, DownSessionIsExplained, NoTrap, NoRestore
<1>2. LinkTypes /\ LinkTypes' /\ LocksOK /\ SessionsInv /\ [LinkNext]_linkVars => SessionsInv'
  BY SessionsInvKept
<1>3. LinkTypes /\ LocksOK /\ [LinkNext]_linkVars => LocksOK'
  BY LocksKept
<1>4. SessionsInv => DownSessionIsExplained
  BY DEF SessionsInv
<1> QED
  BY <1>1, <1>2, <1>3, <1>4, LinkTypesKept, PTL DEF LinkSpec


=============================================================================

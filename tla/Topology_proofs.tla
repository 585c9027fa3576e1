--------------------------- MODULE Topology_proofs ---------------------------
(***************************************************************************)
(* Proofs about FleetTopology and NetworkImpact.  That the graph leads     *)
(* from exactly the bundles of a peering to its span, for any routers,     *)
(* requests, failures and earlier databases.  That the reroute shown is a  *)
(* shortest one, that the primaries counted as cut off are those that      *)
(* cannot reach the backbone, and that what fails only adds to the         *)
(* customers that are down, for any mesh and customers.                    *)
(***************************************************************************)
EXTENDS FleetTopology, NetworkImpact, FiniteSetTheorems, WellFoundedInduction, TLAPS

FleetRequest ==
  [does : {"none", "seed", "delete"}, at : {"none", "prepared", "syncing"},
   newLinks : SUBSET Link, newBundles : SUBSET Bundle, needs : SUBSET FleetIds,
   router : 0..MaxId, todo : SUBSET FleetIds]

FleetTypes ==
  /\ routerId \in [Names -> 0..MaxId]
  /\ peerings \subseteq Link
  /\ bundles \subseteq Bundle /\ IsFiniteSet(bundles) /\ graph \subseteq Bundle
  /\ nextRouter \in 1..(MaxId + 1) /\ nextPeering \in 1..(MaxId + 1)
  /\ op \in [Ops -> FleetRequest]
  /\ torn \subseteq FleetIds
  /\ readers \in 0..Readers /\ reset \in {"idle", "asked", "truncated"} /\ starting \in BOOLEAN
  /\ faults \in 0..Faults

\* What is true of tables links and ports, be they the database's or a transaction's.
IsPair(ends) == \E a, b \in FleetIds : a # b /\ ends = {a, b}
LinksSound(links) ==
  /\ \A p \in links : IsPair(p.ends)
  /\ \A p, o \in links : p.id = o.id \/ p.ends = o.ends => p = o
BundlesBelong(links, ports) == \A b \in ports : \E p \in links : p.id = b.peering /\ b.router \in p.ends
BundlesComplete(links, ports) ==
  \A p \in links : \A r \in p.ends : \E b \in ports : b.router = r /\ b.peering = p.id
NumbersUnique(ports) ==
  \A b, c \in ports : b.router = c.router /\ b.number = c.number => b = c

\* The tables.  A peering may lack its bundles until the startup has repaired them.
TablesSound ==
  /\ LinksSound(peerings) /\ BundlesBelong(peerings, bundles) /\ NumbersUnique(bundles)
  /\ \A p \in peerings : p.id < nextPeering /\ p.ends \subseteq Present
  /\ ~ starting => BundlesComplete(peerings, bundles)

\* Nothing else happens while the backend starts, and next to nothing while the tables
\* are empty and the graph is not.
PhasesSound ==
  /\ starting => reset = "idle" /\ \A q \in Ops : op[q] = NoOp
  /\ reset = "truncated" =>
       /\ peerings = {} /\ bundles = {}
       /\ \A q \in Ops : op[q].at = "none" \/ (op[q].does = "delete" /\ op[q].at = "syncing")

Prepared(q) == op[q].does = "seed" /\ op[q].at = "prepared"
Mirroring(q) == op[q].does = "seed" /\ op[q].at = "syncing"
Unlinking(q) == op[q].does = "delete" /\ op[q].at = "syncing"

\* What a seeding request is about to insert: peerings with ids of their own, complete
\* with bundles.
SeedSound(q) ==
  /\ LinksSound(op[q].newLinks) /\ IsFiniteSet(op[q].newBundles)
  /\ BundlesBelong(op[q].newLinks, op[q].newBundles)
  /\ BundlesComplete(op[q].newLinks, op[q].newBundles) /\ NumbersUnique(op[q].newBundles)
  /\ \A p \in op[q].newLinks : p.id < nextPeering /\ p.id \notin LinkIds /\ p.id \in op[q].todo
SeedsSound ==
  /\ \A q \in Ops : Prepared(q) => SeedSound(q)
  /\ \A q, o \in Ops : Prepared(q) /\ Prepared(o) /\ q # o =>
       \A p \in op[q].newLinks, l \in op[o].newLinks : p.id # l.id

\* The graph, at rest and under way: a request that mirrors new peerings finds no edge
\* too many, one that removes peerings no edge that is anyone else's, and two of them
\* at once are trusted with nothing unless both remove.
MirrorSound ==
  reset # "truncated" =>
    \A id \in FleetIds \ torn :
      (\A q \in Syncing : id \notin op[q].todo) => BundlesOf(id, graph) = BundlesOf(id, bundles)
SyncsSound ==
  /\ \A q \in Ops : Mirroring(q) =>
       \A id \in op[q].todo \ torn : BundlesOf(id, graph) \subseteq BundlesOf(id, bundles)
  /\ \A q \in Ops : Unlinking(q) =>
       \A id \in op[q].todo \ torn :
         /\ BundlesOf(id, bundles) = {}
         /\ \A e \in BundlesOf(id, graph), b \in bundles : ~ (e.router = b.router /\ e.number = b.number)
  /\ \A q, o \in Ops : Mirroring(q) /\ o \in Syncing /\ q # o => op[q].todo \cup op[o].todo \subseteq torn

FleetInv == FleetTypes /\ TablesSound /\ PhasesSound /\ SeedsSound /\ MirrorSound /\ SyncsSound

-----------------------------------------------------------------------------
(* Numbers *)

\* A set of numbers has a smallest one.
LEMMA Smallest ==
  ASSUME NEW T, T \subseteq Nat, T # {}
  PROVE  \E n \in T : \A m \in T : n <= m
<1> DEFINE R == OpToRel(<, Nat)
<1>1. IsWellFoundedOn(R, Nat)
  BY NatLessThanWellFounded
<1>2. \A m, n \in Nat : m < n => <<m, n>> \in R
  BY DEF OpToRel
<1> HIDE DEF R
<1>3. PICK n \in T : \A m \in T : ~ (<<m, n>> \in R)
  BY <1>1, WFMin, Zenon
<1>4. ASSUME NEW m \in T
      PROVE  n <= m
  <2>1. m \in Nat /\ n \in Nat /\ ~ (<<m, n>> \in R)
    BY <1>3
  <2>2. ~ (m < n)
    BY <2>1, <1>2
  <2> QED
    BY <2>1, <2>2
<1> QED
  BY <1>4

\* Min is that number.
LEMMA MinOf ==
  ASSUME NEW T, T \subseteq Nat, T # {}
  PROVE  Min(T) \in T /\ \A m \in T : Min(T) <= m
  BY Smallest DEF Min

\* Induction over the numbers, for sets of them.
LEMMA Induct ==
  ASSUME NEW S, 0 \in S, \A n \in Nat : n \in S => n + 1 \in S
  PROVE  Nat \subseteq S
<1> DEFINE T == Nat \ S
<1> SUFFICES ASSUME T # {} PROVE FALSE
  OBVIOUS
<1>1. PICK n \in T : \A m \in T : n <= m
  BY Smallest
<1>2. n # 0 /\ n - 1 \in Nat /\ n - 1 \notin T
  BY <1>1
<1> QED
  BY <1>1, <1>2

\* The two ends of a peering are its smaller and its larger one.
LEMMA PairEnds ==
  ASSUME NEW a \in Nat, NEW b \in Nat, a # b
  PROVE  {a, b} = {Min({a, b}), Max({a, b})}
<1>1. \E x \in {a, b} : \A y \in {a, b} : x =< y
  OBVIOUS
<1>2. \E x \in {a, b} : \A y \in {a, b} : x >= y
  OBVIOUS
<1>3. Min({a, b}) \in {a, b} /\ \A y \in {a, b} : Min({a, b}) =< y
  BY <1>1 DEF Min
<1>4. Max({a, b}) \in {a, b} /\ \A y \in {a, b} : Max({a, b}) >= y
  BY <1>2 DEF Max
<1> QED
  BY <1>3, <1>4

\* Among one number more than are taken, one is free.
LEMMA FreeNumber ==
  ASSUME NEW T, IsFiniteSet(T), NEW i \in Nat
  PROVE  LET free == {k \in i..(i + Cardinality(T)) : k \notin T}
         IN  Min(free) \in Nat /\ Min(free) \notin T
<1> DEFINE c == Cardinality(T)
           range == i..(i + c)
           free == {k \in range : k \notin T}
<1>1. c \in Nat
  BY FS_CardinalityType
<1>2. Cardinality(range) = c + 1
  BY <1>1, FS_Interval
<1>3. free # {}
  <2> SUFFICES ASSUME free = {} PROVE FALSE
    OBVIOUS
  <2>1. range \in SUBSET T
    OBVIOUS
  <2>2. Cardinality(range) <= c
    BY <2>1, FS_Subset
  <2> QED
    BY <1>1, <1>2, <2>2
<1>4. free \subseteq Nat
  BY <1>1
<1>5. Min(free) \in free
  BY <1>3, <1>4, MinOf
<1> QED
  BY <1>4, <1>5

-----------------------------------------------------------------------------
(* Choosing bundle numbers *)

Port == [router : FleetIds, peering : Nat, number : Nat]

\* The numbers of the bundles of a finite table are finitely many.
LEMMA FiniteNumbers ==
  ASSUME NEW ports, IsFiniteSet(ports), NEW r
  PROVE  IsFiniteSet({b.number : b \in {b \in ports : b.router = r}})
<1> DEFINE on == {b \in ports : b.router = r}
           T == {b.number : b \in on}
           f == [b \in on |-> b.number]
<1>1. IsFiniteSet(on)
  BY FS_Subset
<1>2. f \in Surjection(on, T)
  BY DEF Surjection
<1> HIDE DEF on, T, f
<1>3. IsFiniteSet(T)
  BY <1>1, <1>2, FS_Surjection
<1> QED
  BY <1>3 DEF on, T

\* ensure_bundles_for_peering: there is a bundle of the peering on the router, and if it
\* is a new one, its number is not taken.
LEMMA EnsureBundleAdds ==
  ASSUME NEW ports, IsFiniteSet(ports), NEW id, NEW r, NEW index \in Nat,
         ~ \E b \in ports : b.router = r /\ b.peering = id
  PROVE  \E k \in Nat :
           /\ EnsureBundle(ports, id, r, index) = ports \cup {[router |-> r, peering |-> id, number |-> k]}
           /\ \A b \in ports : b.router = r => b.number # k
<1> DEFINE taken == {b.number : b \in {b \in ports : b.router = r}}
           k == Min({k \in index..(index + Cardinality(taken)) : k \notin taken})
<1>1. IsFiniteSet(taken)
  BY FiniteNumbers
<1>2. k \in Nat /\ k \notin taken
  <2> HIDE DEF taken
  <2> QED
    BY <1>1, FreeNumber
<1>3. EnsureBundle(ports, id, r, index) = ports \cup {[router |-> r, peering |-> id, number |-> k]}
  BY DEF EnsureBundle
<1> HIDE DEF k
<1> QED
  BY <1>2, <1>3

-----------------------------------------------------------------------------
(* The transaction of seed_peerings *)

Span == [id : Nat \ {0}, ends : SUBSET FleetIds]

\* What the transaction has got to: tables that are sound, which differ from those of
\* the database by peerings with new ids and by the bundles of these.
TxSound(acc) ==
  /\ acc.next \in Nat /\ nextPeering <= acc.next
  /\ acc.links \subseteq Span /\ acc.ports \subseteq Port /\ IsFiniteSet(acc.ports)
  /\ \A p \in acc.links : p.id < acc.next
  /\ LinksSound(acc.links) /\ BundlesBelong(acc.links, acc.ports)
  /\ BundlesComplete(acc.links, acc.ports) /\ NumbersUnique(acc.ports)
  /\ peerings \subseteq acc.links /\ bundles \subseteq acc.ports
  /\ \A p \in acc.links \ peerings : nextPeering <= p.id /\ p.id \in acc.todo
  /\ \A b \in acc.ports \ bundles : \E p \in acc.links \ peerings : p.id = b.peering
  /\ acc.todo \subseteq {p.id : p \in acc.links}

\* A preferred number is a number.
LEMMA PeerIndexType ==
  ASSUME NEW batch \in Seq(Names \X Names), NEW n, NEW m
  PROVE  PeerIndex(batch, n, m) \in Nat
<1>1. \A i \in DOMAIN batch : batch[i][1] \in Names /\ batch[i][2] \in Names
  OBVIOUS
<1>2. PeersIn(batch, n) \subseteq Names
  BY <1>1 DEF PeersIn
<1>3. {k \in PeersIn(batch, n) : k < m} \in SUBSET Names
  BY <1>2
<1> HIDE <1>3
<1>4. IsFiniteSet({k \in PeersIn(batch, n) : k < m})
  BY <1>3, FleetAssumption, FS_Subset
<1> QED
  BY <1>4, FS_CardinalityType DEF PeerIndex

\* A pair whose peering is there already adds neither a peering nor a bundle.
LEMMA KnownPairKeeps ==
  ASSUME NEW acc, TxSound(acc), NEW a, NEW b, NEW p \in acc.links, p.ends = {a, b},
         NEW i \in Nat, NEW j \in Nat
  PROVE  /\ acc.links \cup {[id |-> p.id, ends |-> {a, b}]} = acc.links
         /\ EnsureBoth(acc.ports, p.id, a, b, i, j) = acc.ports
<1>1. p = [id |-> p.id, ends |-> {a, b}]
  BY DEF TxSound, Span
<1>2. \A r \in {a, b} : \E c \in acc.ports : c.router = r /\ c.peering = p.id
  BY DEF TxSound, BundlesComplete
<1>3. \A k \in Nat : \A r \in {a, b} : EnsureBundle(acc.ports, p.id, r, k) = acc.ports
  BY <1>2 DEF EnsureBundle
<1> QED
  BY <1>1, <1>3 DEF EnsureBoth

\* The bundles that a new peering of routers a and b gets.
TwoAdded(grown, ports, id, a, b) ==
  \E x, y \in Port :
    /\ grown = (ports \cup {x}) \cup {y}
    /\ x.router = a /\ y.router = b /\ x.peering = id /\ y.peering = id
    /\ \A c \in ports : c.router = a => c.number # x.number
    /\ \A c \in ports : c.router = b => c.number # y.number

\* ensure_bundles_for_peering on both sides of a peering that has no bundle yet.
LEMMA NewPairAdds ==
  ASSUME NEW ports, IsFiniteSet(ports), NEW id \in Nat, NEW a \in FleetIds, NEW b \in FleetIds, a # b,
         NEW i \in Nat, NEW j \in Nat, \A c \in ports : c.peering # id
  PROVE  TwoAdded(EnsureBoth(ports, id, a, b, i, j), ports, id, a, b)
<1>1. ~ \E c \in ports : c.router = a /\ c.peering = id
  OBVIOUS
<1>2. PICK k \in Nat :
        /\ EnsureBundle(ports, id, a, i) = ports \cup {[router |-> a, peering |-> id, number |-> k]}
        /\ \A c \in ports : c.router = a => c.number # k
  BY <1>1, EnsureBundleAdds
<1> DEFINE x == [router |-> a, peering |-> id, number |-> k]
           onA == ports \cup {x}
<1>3. IsFiniteSet(onA)
  BY FS_AddElement
<1>4. ~ \E c \in onA : c.router = b /\ c.peering = id
  OBVIOUS
<1>5. ports \subseteq onA
  OBVIOUS
<1> HIDE DEF onA
<1>6. PICK l \in Nat :
        /\ EnsureBundle(onA, id, b, j) = onA \cup {[router |-> b, peering |-> id, number |-> l]}
        /\ \A c \in onA : c.router = b => c.number # l
  BY <1>3, <1>4, EnsureBundleAdds
<1> DEFINE y == [router |-> b, peering |-> id, number |-> l]
<1>7. x \in Port /\ y \in Port
  BY DEF Port
<1>8. EnsureBoth(ports, id, a, b, i, j) = (ports \cup {x}) \cup {y}
  BY <1>2, <1>6 DEF onA, EnsureBoth
<1>9. /\ x.router = a /\ y.router = b /\ x.peering = id /\ y.peering = id
      /\ \A c \in ports : c.router = a => c.number # x.number
      /\ \A c \in ports : c.router = b => c.number # y.number
  BY <1>2, <1>5, <1>6
<1> HIDE DEF x, y
<1> QED
  BY <1>7, <1>8, <1>9 DEF TwoAdded

\* One pair of the request, between routers a and b, with preferred numbers i and j.
LEMMA SeedLinkSound ==
  ASSUME NEW acc, TxSound(acc), nextPeering \in 1..(MaxId + 1), NEW a \in 0..MaxId, NEW b \in 0..MaxId,
         NEW i \in Nat, NEW j \in Nat
  PROVE  TxSound(SeedLink(acc, a, b, i, j))
<1> DEFINE known == {p \in acc.links : p.ends = {a, b}}
           id == IF known = {} THEN acc.next ELSE (CHOOSE p \in known : TRUE).id
           link == [id |-> id, ends |-> {a, b}]
           next == IF known = {} THEN acc.next + 1 ELSE acc.next
           onto == EnsureBoth(acc.ports, id, a, b, i, j)
           grown == [links |-> acc.links \cup {link}, ports |-> onto, next |-> next,
                     todo |-> acc.todo \cup {id}]
           new == SeedLink(acc, a, b, i, j)
<1> SUFFICES TxSound(new)
  OBVIOUS
<1>2. new = IF a = 0 \/ b = 0 \/ a = b THEN acc ELSE grown
  BY Zenon DEF SeedLink
<1> HIDE DEF new
<1>3. CASE a = 0 \/ b = 0 \/ a = b
  BY <1>2, <1>3
<1> DEFINE fresh == a # 0 /\ b # 0 /\ a # b
<1>4. ASSUME fresh
      PROVE  new.links = acc.links \cup {link} /\ new.ports = onto /\ new.next = next
             /\ new.todo = acc.todo \cup {id}
  <2> HIDE DEF link, onto, next, id
  <2> QED
    BY <1>2, <1>4
<1>5. CASE fresh /\ known # {}
  <2>1. PICK p \in known : id = p.id
    BY <1>5
  <2>2. p \in acc.links /\ p.ends = {a, b} /\ next = acc.next
    BY <1>5
  <2> HIDE DEF known, id, next
  <2>3. /\ acc.links \cup {[id |-> p.id, ends |-> {a, b}]} = acc.links
        /\ EnsureBoth(acc.ports, p.id, a, b, i, j) = acc.ports
    <3> HIDE DEF link, onto
    <3> QED
      BY <2>2, KnownPairKeeps
  <2>4. acc.links \cup {link} = acc.links /\ onto = acc.ports
    BY <2>1, <2>3
  <2> HIDE DEF link, onto
  <2> QED
    BY <1>4, <1>5, <2>1, <2>2, <2>4 DEF TxSound
<1>6. CASE fresh /\ known = {}
  <2>1. id = acc.next /\ next = acc.next + 1
    BY <1>6
  <2>2. a \in FleetIds /\ b \in FleetIds /\ a # b
    BY <1>6 DEF FleetIds
  <2>3. id \in Nat \ {0} /\ nextPeering <= id /\ next \in Nat /\ id < next
    BY <2>1 DEF TxSound
  <2>4. \A p \in acc.links : p.id < id /\ p.ends # {a, b}
    BY <1>6, <2>1 DEF TxSound
  <2> HIDE DEF id, next, known
  <2>5. \A c \in acc.ports : c.peering # id
    <3> SUFFICES ASSUME NEW c \in acc.ports PROVE c.peering # id
      OBVIOUS
    <3>1. PICK p \in acc.links : p.id = c.peering
      BY DEF TxSound, BundlesBelong
    <3>2. p.id < id /\ id \in Nat
      BY <2>3, <2>4
    <3> QED
      BY <3>1, <3>2
  <2>6. PICK x, y \in Port :
          /\ onto = (acc.ports \cup {x}) \cup {y}
          /\ x.router = a /\ y.router = b /\ x.peering = id /\ y.peering = id
          /\ \A c \in acc.ports : c.router = a => c.number # x.number
          /\ \A c \in acc.ports : c.router = b => c.number # y.number
    <3>1. IsFiniteSet(acc.ports) /\ id \in Nat
      BY <2>3 DEF TxSound
    <3>2. TwoAdded(onto, acc.ports, id, a, b)
      BY <2>2, <2>5, <3>1, NewPairAdds
    <3> HIDE DEF link, onto
    <3> QED
      BY <3>2 DEF TwoAdded
  <2> HIDE DEF onto, link
  <2>7. link \in Span /\ link.id = id /\ link.ends = {a, b}
    BY <2>2, <2>3 DEF Span, link
  <2>9. new.links = acc.links \cup {link} /\ new.ports = (acc.ports \cup {x}) \cup {y}
        /\ new.next = next /\ new.todo = acc.todo \cup {id}
    BY <1>4, <1>6, <2>6
  <2>10. IsFiniteSet(new.ports)
    <3>1. IsFiniteSet(acc.ports \cup {x})
      BY FS_AddElement DEF TxSound
    <3> QED
      <4> HIDE DEF new
      <4>1. IsFiniteSet((acc.ports \cup {x}) \cup {y})
        BY <3>1, FS_AddElement
      <4> QED
        BY <2>9, <4>1
  <2>11. LinksSound(new.links)
    <3>1. \A p \in new.links : p = link \/ (p \in acc.links /\ p.id # id /\ p.ends # {a, b})
      BY <2>3, <2>4, <2>9 DEF TxSound, Span
    <3>2. IsPair({a, b})
      BY <2>2 DEF IsPair
    <3> QED
      BY <2>7, <3>1, <3>2 DEF TxSound, LinksSound
  <2>12. BundlesBelong(new.links, new.ports)
    BY <2>6, <2>7, <2>9 DEF TxSound, BundlesBelong
  <2>13. BundlesComplete(new.links, new.ports)
    BY <2>6, <2>7, <2>9 DEF TxSound, BundlesComplete
  <2>14. NumbersUnique(new.ports)
    BY <2>2, <2>6, <2>9 DEF TxSound, NumbersUnique
  <2>15. \A p \in new.links : p.id < new.next
    BY <2>3, <2>4, <2>7, <2>9 DEF TxSound, Span
  <2>16. link \notin peerings /\ x \notin bundles /\ y \notin bundles
    BY <2>4, <2>5, <2>6, <2>7 DEF TxSound
  <2> QED
    BY <2>3, <2>6, <2>7, <2>9, <2>10, <2>11, <2>12, <2>13, <2>14, <2>15, <2>16 DEF TxSound
<1> QED
  BY <1>3, <1>5, <1>6

\* One pair of the request.
LEMMA SeedPairSound ==
  ASSUME NEW acc, TxSound(acc), routerId \in [Names -> 0..MaxId], nextPeering \in 1..(MaxId + 1),
         NEW batch \in Seq(Names \X Names), NEW pair \in Names \X Names
  PROVE  TxSound(SeedPair(acc, batch, pair))
<1> DEFINE a == routerId[pair[1]]
           b == routerId[pair[2]]
           i == PeerIndex(batch, pair[1], pair[2])
           j == PeerIndex(batch, pair[2], pair[1])
<1>1. a \in 0..MaxId /\ b \in 0..MaxId /\ i \in Nat /\ j \in Nat
  BY PeerIndexType
<1> QED
  BY <1>1, SeedLinkSound, Zenon DEF SeedPair

\* A run through the first n pairs of a request.
SeedRun(run, batch, start, n) ==
  run = [i \in 0..n |-> IF i = 0 THEN start ELSE SeedPair(run[i - 1], batch, batch[i])]

\* The transaction is well defined: there is such a run.
LEMMA SeedRunExists ==
  ASSUME NEW batch, NEW start, NEW n \in Nat
  PROVE  \E run : SeedRun(run, batch, start, n)
<1> DEFINE Step(f, i) == IF i = 0 THEN start ELSE SeedPair(f[i - 1], batch, batch[i])
           IsRun(f, m) == f = [i \in 0..m |-> Step(f, i)]
           S == {m \in Nat : \E f : IsRun(f, m)}
<1>1. 0 \in S
  <2> DEFINE f == [i \in 0..0 |-> start]
  <2>1. IsRun(f, 0)
    OBVIOUS
  <2> QED
    BY <2>1, Zenon
<1>2. ASSUME NEW m \in Nat, m \in S
      PROVE  m + 1 \in S
  <2>1. PICK f : IsRun(f, m)
    BY <1>2
  <2> DEFINE h == [i \in 0..(m + 1) |-> IF i = m + 1 THEN SeedPair(f[m], batch, batch[m + 1]) ELSE f[i]]
  <2>2. \A i \in 0..(m + 1) : h[i] = Step(h, i)
    BY <2>1
  <2>3. IsRun(h, m + 1)
    BY <2>2
  <2> HIDE DEF h, IsRun
  <2> QED
    BY <2>3
<1> HIDE DEF S
<1>3. n \in S
  BY <1>1, <1>2, Induct
<1>4. PICK f : IsRun(f, n)
  BY <1>3 DEF S
<1>5. SeedRun(f, batch, start, n)
  BY <1>4 DEF SeedRun
<1> QED
  BY <1>5

\* What seed_peerings has got to when it has been through the request.
LEMMA SeedLinksSound ==
  ASSUME FleetTypes, TablesSound, ~ starting, NEW batch \in Seq(Names \X Names)
  PROVE  TxSound(SeedLinks(batch))
<1> DEFINE start == [links |-> peerings, ports |-> bundles, next |-> nextPeering, todo |-> {}]
           n == Len(batch)
           Run(f) == SeedRun(f, batch, start, n)
           run == CHOOSE f : Run(f)
           S == {i \in Nat : i <= n => TxSound(run[i])}
<1>1. n \in Nat
  OBVIOUS
<1>2. TxSound(start)
  <2> DEFINE st == start
  <2>1. st.links = peerings /\ st.ports = bundles /\ st.next = nextPeering /\ st.todo = {}
    OBVIOUS
  <2>2. peerings \subseteq Span /\ bundles \subseteq Port /\ IsFiniteSet(bundles)
    BY DEF FleetTypes, Link, Bundle, Span, Port, FleetIds
  <2>3. nextPeering \in Nat
    BY DEF FleetTypes
  <2> HIDE DEF st
  <2> QED
    BY <2>1, <2>2, <2>3 DEF TxSound, TablesSound
<1>3. Run(run)
  <2> HIDE DEF start, n
  <2>1. \E f : Run(f)
    BY <1>1, SeedRunExists
  <2> HIDE DEF Run
  <2> QED
    BY <2>1
<1>4. SeedLinks(batch) = run[n]
  BY DEF SeedLinks, SeedRun
<1> HIDE DEF run, start
<1>5. 0 \in S
  BY <1>2, <1>3 DEF SeedRun
<1>6. ASSUME NEW i \in Nat, i \in S
      PROVE  i + 1 \in S
  <2> SUFFICES ASSUME i + 1 <= n PROVE TxSound(run[i + 1])
    OBVIOUS
  <2>1. TxSound(run[i])
    BY <1>6, <1>1
  <2>2. run[i + 1] = SeedPair(run[i], batch, batch[i + 1])
    BY <1>1, <1>3 DEF SeedRun
  <2>3. batch[i + 1] \in Names \X Names
    BY <1>1
  <2>4. TxSound(SeedPair(run[i], batch, batch[i + 1]))
    BY <2>1, <2>3, SeedPairSound DEF FleetTypes
  <2> QED
    BY <2>2, <2>4
<1> HIDE DEF S
<1>7. n \in S
  BY <1>1, <1>5, <1>6, Induct
<1> QED
  BY <1>1, <1>4, <1>7 DEF S

-----------------------------------------------------------------------------
(* repair_peering_bundles *)

\* What the repair has got to: sound tables, with new bundles for peerings that lacked one.
RepairSound(ports) ==
  /\ IsFiniteSet(ports) /\ ports \subseteq Bundle /\ bundles \subseteq ports
  /\ NumbersUnique(ports) /\ BundlesBelong(peerings, ports)
  /\ \A b \in ports \ bundles : \E p \in Lacking : p.id = b.peering

HasBundle(ports, p, r) == \E b \in ports : b.router = r /\ b.peering = p.id

\* One side of one peering.
LEMMA RepairEndSound ==
  ASSUME FleetTypes, TablesSound, NEW ports, RepairSound(ports), NEW p \in Lacking, NEW r \in p.ends
  PROVE  LET onto == EnsureBundle(ports, p.id, r, 0)
         IN  RepairSound(onto) /\ ports \subseteq onto /\ HasBundle(onto, p, r)
<1> DEFINE onto == EnsureBundle(ports, p.id, r, 0)
<1> SUFFICES RepairSound(onto) /\ ports \subseteq onto /\ HasBundle(onto, p, r)
  OBVIOUS
<1>1. CASE \E b \in ports : b.router = r /\ b.peering = p.id
  <2>1. onto = ports
    BY <1>1 DEF EnsureBundle
  <2> HIDE DEF onto
  <2> QED
    BY <1>1, <2>1 DEF HasBundle
<1>2. CASE ~ \E b \in ports : b.router = r /\ b.peering = p.id
  <2>1. PICK k \in Nat :
          /\ onto = ports \cup {[router |-> r, peering |-> p.id, number |-> k]}
          /\ \A b \in ports : b.router = r => b.number # k
    BY <1>2, EnsureBundleAdds DEF RepairSound
  <2> DEFINE x == [router |-> r, peering |-> p.id, number |-> k]
  <2>2. p \in peerings /\ p \in Link /\ r \in FleetIds
    BY DEF FleetTypes, Lacking, Link
  <2>3. x \in Bundle /\ x.router = r /\ x.peering = p.id /\ x.number = k
    BY <2>2 DEF Link, Bundle
  <2> HIDE DEF onto
  <2>4. IsFiniteSet(ports \cup {x})
    BY FS_AddElement DEF RepairSound
  <2> HIDE DEF x
  <2>5. onto = ports \cup {x}
    BY <2>1 DEF x
  <2>6. NumbersUnique(onto)
    BY <2>1, <2>3, <2>5 DEF RepairSound, NumbersUnique
  <2>7. BundlesBelong(peerings, onto)
    BY <2>2, <2>3, <2>5 DEF RepairSound, BundlesBelong
  <2>8. HasBundle(onto, p, r)
    BY <2>3, <2>5 DEF HasBundle
  <2> QED
    BY <2>3, <2>4, <2>5, <2>6, <2>7, <2>8 DEF RepairSound
<1> QED
  BY <1>1, <1>2

\* One peering, or none.
LEMMA RepairLinkSound ==
  ASSUME FleetTypes, TablesSound, NEW ports, RepairSound(ports), NEW found, found \subseteq Lacking
  PROVE  LET onto == RepairLink(ports, found)
         IN  /\ RepairSound(onto) /\ ports \subseteq onto
             /\ \A p \in found : (\A o \in found : o = p) => \A r \in p.ends : HasBundle(onto, p, r)
<1> DEFINE onto == RepairLink(ports, found)
<1> SUFFICES /\ RepairSound(onto) /\ ports \subseteq onto
             /\ \A p \in found : (\A o \in found : o = p) => \A r \in p.ends : HasBundle(onto, p, r)
  OBVIOUS
<1>1. CASE found = {}
  <2>1. onto = ports
    BY <1>1 DEF RepairLink
  <2> HIDE DEF onto
  <2> QED
    BY <1>1, <2>1
<1>2. CASE found # {}
  <2> DEFINE p == CHOOSE p \in found : TRUE
             a == Min(p.ends)
             b == Max(p.ends)
             onA == EnsureBundle(ports, p.id, a, 0)
  <2>1. p \in found /\ p \in Lacking /\ p \in peerings
    BY <1>2 DEF Lacking
  <2>2. onto = EnsureBundle(onA, p.id, b, 0)
    BY <1>2 DEF RepairLink, EnsureBoth
  <2> HIDE DEF p
  <2>3. p.ends = {a, b}
    <3>1. PICK c, d \in FleetIds : c # d /\ p.ends = {c, d}
      BY <2>1 DEF TablesSound, LinksSound, IsPair
    <3>2. c \in Nat /\ d \in Nat
      BY DEF FleetIds
    <3>3. {c, d} = {Min({c, d}), Max({c, d})}
      BY <3>1, <3>2, PairEnds
    <3> QED
      BY <3>1, <3>3
  <2> HIDE DEF a, b, onto
  <2>4. RepairSound(onA) /\ ports \subseteq onA /\ HasBundle(onA, p, a)
    BY <2>1, <2>3, RepairEndSound
  <2> HIDE DEF onA
  <2>5. RepairSound(onto) /\ onA \subseteq onto /\ HasBundle(onto, p, b)
    BY <2>1, <2>2, <2>3, <2>4, RepairEndSound
  <2>6. HasBundle(onto, p, a)
    BY <2>4, <2>5 DEF HasBundle
  <2> QED
    BY <2>1, <2>3, <2>4, <2>5, <2>6
<1> QED
  BY <1>1, <1>2

\* A run through the ids up to n.
Found(i) == {p \in Lacking : p.id = i}
RepairRun(run, n) ==
  run = [i \in 0..n |-> IF i = 0 THEN bundles ELSE RepairLink(run[i - 1], Found(i))]

\* The repair is well defined.
LEMMA RepairRunExists ==
  ASSUME NEW n \in Nat
  PROVE  \E run : RepairRun(run, n)
<1> DEFINE Step(f, i) == IF i = 0 THEN bundles ELSE RepairLink(f[i - 1], Found(i))
           IsRun(f, m) == f = [i \in 0..m |-> Step(f, i)]
           S == {m \in Nat : \E f : IsRun(f, m)}
<1>1. 0 \in S
  <2> DEFINE f == [i \in 0..0 |-> bundles]
  <2>1. IsRun(f, 0)
    OBVIOUS
  <2> QED
    BY <2>1, Zenon
<1>2. ASSUME NEW m \in Nat, m \in S
      PROVE  m + 1 \in S
  <2>1. PICK f : IsRun(f, m)
    BY <1>2
  <2> DEFINE h == [i \in 0..(m + 1) |-> IF i = m + 1 THEN RepairLink(f[m], Found(m + 1)) ELSE f[i]]
  <2>2. \A i \in 0..(m + 1) : h[i] = Step(h, i)
    BY <2>1
  <2>3. IsRun(h, m + 1)
    BY <2>2
  <2> HIDE DEF h, IsRun
  <2> QED
    BY <2>3
<1> HIDE DEF S
<1>3. n \in S
  BY <1>1, <1>2, Induct
<1>4. PICK f : IsRun(f, n)
  BY <1>3 DEF S
<1>5. RepairRun(f, n)
  BY <1>4 DEF RepairRun
<1> QED
  BY <1>5

\* After the repair every peering has its bundles, and nothing else is new.
LEMMA RepairedSound ==
  ASSUME FleetTypes, TablesSound
  PROVE  RepairSound(Repaired) /\ BundlesComplete(peerings, Repaired)
<1> DEFINE run == CHOOSE f : RepairRun(f, MaxId)
           Done(i) == \A p \in Lacking : p.id <= i => \A r \in p.ends : HasBundle(run[i], p, r)
           S == {i \in Nat : i <= MaxId => bundles \subseteq run[i] /\ RepairSound(run[i]) /\ Done(i)}
<1>1. MaxId \in Nat
  BY FleetAssumption
<1>2. RepairRun(run, MaxId)
  BY <1>1, RepairRunExists
<1>3. Repaired = run[MaxId]
  BY DEF Repaired, RepairRun, Found
<1>4. \A p, o \in Lacking : /\ p \in peerings /\ p.id \in 1..MaxId
                            /\ p.id = o.id => p = o
  BY DEF FleetTypes, TablesSound, LinksSound, Lacking, Link, FleetIds
<1> HIDE DEF run
<1>5. 0 \in S
  <2>1. run[0] = bundles
    BY <1>1, <1>2 DEF RepairRun
  <2>2. RepairSound(bundles)
    BY DEF FleetTypes, TablesSound, RepairSound
  <2>3. Done(0)
    BY <1>4
  <2> QED
    BY <2>1, <2>2, <2>3
<1>6. ASSUME NEW i \in Nat, i \in S
      PROVE  i + 1 \in S
  <2> SUFFICES ASSUME i + 1 <= MaxId
               PROVE  bundles \subseteq run[i + 1] /\ RepairSound(run[i + 1]) /\ Done(i + 1)
    OBVIOUS
  <2> DEFINE found == Found(i + 1)
  <2>1. RepairSound(run[i]) /\ Done(i)
    BY <1>1, <1>6
  <2>2. run[i + 1] = RepairLink(run[i], found)
    BY <1>1, <1>2 DEF RepairRun
  <2>3. found \subseteq Lacking
    BY DEF Found
  <2>4. \A p \in found : \A o \in found : o = p
    BY <1>4 DEF Found
  <2> HIDE DEF found
  <2>5. /\ RepairSound(run[i + 1]) /\ run[i] \subseteq run[i + 1]
        /\ \A p \in found : \A r \in p.ends : HasBundle(run[i + 1], p, r)
    BY <2>1, <2>2, <2>3, <2>4, RepairLinkSound
  <2>6. ASSUME NEW p \in Lacking, p.id <= i + 1, NEW r \in p.ends
        PROVE  HasBundle(run[i + 1], p, r)
    <3>1. CASE p.id <= i
      BY <2>1, <2>5, <3>1 DEF HasBundle
    <3>2. CASE ~ (p.id <= i)
      BY <1>4, <2>5, <2>6, <3>2 DEF found, Found
    <3> QED
      BY <3>1, <3>2
  <2> QED
    BY <2>5, <2>6 DEF RepairSound
<1> HIDE DEF S
<1>7. MaxId \in S
  BY <1>1, <1>5, <1>6, Induct
<1>8. RepairSound(run[MaxId]) /\ Done(MaxId)
  BY <1>1, <1>7 DEF S
<1>9. ASSUME NEW p \in peerings, NEW r \in p.ends
      PROVE  \E b \in run[MaxId] : b.router = r /\ b.peering = p.id
  <2>1. CASE p \in Lacking
    BY <1>4, <1>8, <2>1 DEF HasBundle
  <2>2. CASE p \notin Lacking
    BY <1>8, <2>2 DEF Lacking, RepairSound
  <2> QED
    BY <2>1, <2>2
<1> QED
  BY <1>3, <1>8, <1>9 DEF BundlesComplete

-----------------------------------------------------------------------------
(* Steps of requests *)

\* No request is a request.
LEMMA NoOpType ==
  /\ NoOp \in FleetRequest /\ NoOp.does = "none" /\ NoOp.at = "none" /\ NoOp.todo = {}
  /\ NoOp.newLinks = {} /\ NoOp.newBundles = {}
<1>1. MaxId \in Nat
  BY FleetAssumption
<1> QED
  BY <1>1 DEF NoOp, FleetRequest

\* A request that goes on to the next phase, or that has one peering less to mirror.
LEMMA AtChanges ==
  ASSUME NEW u \in FleetRequest, NEW x, x = [u EXCEPT !.at = "syncing"]
  PROVE  /\ x \in FleetRequest /\ x.at = "syncing" /\ x.does = u.does /\ x.todo = u.todo
         /\ x.newLinks = u.newLinks /\ x.newBundles = u.newBundles
  BY DEF FleetRequest

\* A step that mirrors one peering of a request leaves the rest of it.
LEMMA TodoChanges ==
  ASSUME NEW u \in FleetRequest, NEW id, NEW x, x = [u EXCEPT !.todo = @ \ {id}]
  PROVE  /\ x \in FleetRequest /\ x.at = u.at /\ x.does = u.does /\ x.todo = u.todo \ {id}
         /\ x.newLinks = u.newLinks /\ x.newBundles = u.newBundles
  BY DEF FleetRequest

\* What such a step does to the requests.
LEMMA OpEnds ==
  ASSUME FleetTypes, NEW q \in Ops, op' = [op EXCEPT ![q] = NoOp]
  PROVE  op' \in [Ops -> FleetRequest] /\ op'[q] = NoOp /\ \A o \in Ops : o # q => op'[o] = op[o]
  BY NoOpType DEF FleetTypes

\* A commit only sends its request on to the mirror.
LEMMA OpCommits ==
  ASSUME FleetTypes, NEW q \in Ops, op' = [op EXCEPT ![q].at = "syncing"]
  PROVE  /\ op' \in [Ops -> FleetRequest] /\ \A o \in Ops : o # q => op'[o] = op[o]
         /\ op'[q].at = "syncing" /\ op'[q].does = op[q].does /\ op'[q].todo = op[q].todo
<1>1. op[q] \in FleetRequest /\ op \in [Ops -> FleetRequest]
  BY DEF FleetTypes
<1>2. /\ op'[q] \in FleetRequest /\ op'[q].at = "syncing" /\ op'[q].does = op[q].does
      /\ op'[q].todo = op[q].todo
  <2> DEFINE u == op[q]
             v == op'[q]
  <2>1. u \in FleetRequest /\ v = [u EXCEPT !.at = "syncing"]
    BY <1>1
  <2> HIDE DEF u, v
  <2>2. v \in FleetRequest /\ v.at = "syncing" /\ v.does = u.does /\ v.todo = u.todo
    BY <2>1, AtChanges
  <2> QED
    BY <2>2 DEF u, v
<1>3. \A o \in Ops : o # q => op'[o] = op[o]
  BY <1>1
<1> QED
  BY <1>1, <1>2, <1>3

\* Mirroring a peering takes it off its request's list, and touches no other request.
LEMMA OpMirrors ==
  ASSUME FleetTypes, NEW q \in Ops, NEW id, op' = [op EXCEPT ![q].todo = @ \ {id}]
  PROVE  /\ op' \in [Ops -> FleetRequest] /\ \A o \in Ops : o # q => op'[o] = op[o]
         /\ op'[q].at = op[q].at /\ op'[q].does = op[q].does /\ op'[q].todo = op[q].todo \ {id}
<1>1. op[q] \in FleetRequest /\ op \in [Ops -> FleetRequest]
  BY DEF FleetTypes
<1>2. /\ op'[q] \in FleetRequest /\ op'[q].at = op[q].at /\ op'[q].does = op[q].does
      /\ op'[q].todo = op[q].todo \ {id}
  <2> DEFINE u == op[q]
             v == op'[q]
  <2>1. u \in FleetRequest /\ v = [u EXCEPT !.todo = @ \ {id}]
    BY <1>1
  <2> HIDE DEF u, v
  <2>2. v \in FleetRequest /\ v.at = u.at /\ v.does = u.does /\ v.todo = u.todo \ {id}
    BY <2>1, TodoChanges
  <2> QED
    BY <2>2 DEF u, v
<1>3. \A o \in Ops : o # q => op'[o] = op[o]
  BY <1>1
<1> QED
  BY <1>1, <1>2, <1>3

\* The mirrors at risk are those of all requests that mirror at the commit.
LEMMA AtRiskType ==
  ASSUME FleetTypes, NEW q \in Ops
  PROVE  /\ AtRisk(q) \subseteq FleetIds
         /\ \A o \in Syncing : op[q].todo \cup op[o].todo \subseteq AtRisk(q)
<1>1. \A o \in Ops : op[o].todo \subseteq FleetIds
  BY DEF FleetTypes, FleetRequest
<1> QED
  BY <1>1 DEF AtRisk, Syncing

\* A step that leaves the tables of peerings and bundles alone, and takes no router away.
LEMMA TablesStay ==
  ASSUME TablesSound, UNCHANGED <<peerings, bundles>>, Present \subseteq Present',
         nextPeering \in Nat, nextPeering' \in Nat, nextPeering <= nextPeering',
         \A p \in peerings : p.id \in Nat, starting' \/ ~ starting
  PROVE  TablesSound'
<1>1. LinksSound(peerings)' /\ BundlesBelong(peerings, bundles)' /\ NumbersUnique(bundles)'
  BY DEF TablesSound, LinksSound, BundlesBelong, NumbersUnique
<1>2. (BundlesComplete(peerings, bundles) => BundlesComplete(peerings, bundles)')
  BY DEF BundlesComplete
<1>3. \A p \in peerings : p.id < nextPeering' /\ p.ends \subseteq Present'
  BY DEF TablesSound
<1> QED
  BY <1>1, <1>2, <1>3 DEF TablesSound

\* A step that prepares, or changes, no insertion.
LEMMA SeedsStay ==
  ASSUME FleetTypes, SeedsSound, \A q \in Ops : Prepared(q)' => op'[q] = op[q],
         LinkIds' \subseteq LinkIds, nextPeering' \in Nat, nextPeering <= nextPeering'
  PROVE  SeedsSound'
<1>1. ASSUME NEW q \in Ops, Prepared(q)'
      PROVE  SeedSound(q)'
  <2>1. op'[q] = op[q] /\ Prepared(q)
    BY <1>1 DEF Prepared
  <2>2. SeedSound(q)
    BY <2>1 DEF SeedsSound
  <2>3. \A p \in op[q].newLinks : p.id \in Nat /\ p.id < nextPeering
    BY <2>2 DEF SeedSound, FleetTypes, FleetRequest, Link, FleetIds
  <2>4. \A p \in op[q].newLinks : p.id < nextPeering' /\ p.id \notin LinkIds'
    BY <2>2, <2>3 DEF SeedSound, FleetTypes
  <2> QED
    BY <2>1, <2>2, <2>4
       DEF SeedSound, LinksSound, BundlesBelong, BundlesComplete, NumbersUnique
<1>2. \A q, o \in Ops : Prepared(q)' /\ Prepared(o)' /\ q # o =>
        \A p \in op'[q].newLinks, l \in op'[o].newLinks : p.id # l.id
  BY DEF SeedsSound, Prepared
<1> QED
  BY <1>1, <1>2 DEF SeedsSound

\* A step that changes neither the bundles nor the graph, and after which the mirrors
\* of a request that mirrors no longer are as good as torn.
LEMMA MirrorStays ==
  ASSUME MirrorSound, SyncsSound, UNCHANGED <<bundles, graph>>, torn \subseteq torn',
         reset' = "truncated" \/ reset # "truncated",
         \A q \in Ops : q \in Syncing' => op'[q] = op[q],
         \A q \in Syncing : q \notin Syncing' => op[q].todo \subseteq torn'
  PROVE  MirrorSound' /\ SyncsSound'
<1>1. \A q \in Syncing' : q \in Ops /\ q \in Syncing /\ op'[q] = op[q]
  BY DEF Syncing
<1>2. MirrorSound'
  BY <1>1 DEF MirrorSound, BundlesOf
<1>3. \A q \in Ops : (Mirroring(q)' => Mirroring(q) /\ op'[q] = op[q])
                     /\ (Unlinking(q)' => Unlinking(q) /\ op'[q] = op[q])
  BY DEF Mirroring, Unlinking, Syncing
<1>4. SyncsSound'
  BY <1>1, <1>3 DEF SyncsSound, BundlesOf
<1> QED
  BY <1>2, <1>4

\* A step after which every request is what it was, or has not begun or is over, in a
\* phase that allows it.
LEMMA PhasesStay ==
  ASSUME PhasesSound, UNCHANGED <<peerings, bundles, reset, starting>>,
         \A q \in Ops : op'[q] = op[q] \/ op'[q] = NoOp
  PROVE  PhasesSound'
  BY NoOpType DEF PhasesSound

-----------------------------------------------------------------------------
(* Each step keeps the invariant *)

\* seed_routers.
LEMMA SeedRoutersKeeps ==
  ASSUME FleetInv, NEW batch \in RouterBatches, SeedRouters(batch)
  PROVE  FleetInv'
<1> DEFINE new == {n \in Names : routerId[n] = 0 /\ n \in Range(batch)}
           First(n) == Min({i \in DOMAIN batch : batch[i] = n})
           Before(n) == {m \in new : First(m) < First(n)}
<1>1. IsFiniteSet(new)
  BY FleetAssumption, FS_Subset
<1>2. Cardinality(new) \in Nat
  BY <1>1, FS_CardinalityType
<1>3. \A n \in new : First(n) \in Nat
  <2> SUFFICES ASSUME NEW n \in new PROVE First(n) \in Nat
    OBVIOUS
  <2>1. DOMAIN batch \subseteq Nat
    BY FleetAssumption
  <2>2. {i \in DOMAIN batch : batch[i] = n} # {}
    BY DEF Range
  <2>3. {i \in DOMAIN batch : batch[i] = n} \subseteq Nat
    BY <2>1
  <2> QED
    BY <2>2, <2>3, MinOf
<1> HIDE DEF First
<1>4. ASSUME NEW n \in new
      PROVE  Cardinality(Before(n)) \in 0..(Cardinality(new) - 1)
  <2>1. Before(n) \in SUBSET new /\ n \notin Before(n)
    BY <1>3
  <2> HIDE DEF Before, new
  <2>2. Cardinality(Before(n)) \in Nat /\ Cardinality(Before(n)) <= Cardinality(new)
        /\ Cardinality(Before(n)) # Cardinality(new)
    BY <1>1, <2>1, FS_Subset, FS_CardinalityType
  <2> QED
    BY <1>2, <2>2
<1>5. /\ nextRouter + Cardinality(new) <= MaxId + 1 /\ LoopIsFree
      /\ routerId' = [n \in Names |-> IF n \in new THEN nextRouter + Cardinality(Before(n))
                                      ELSE routerId[n]]
      /\ nextRouter' = nextRouter + Cardinality(new)
      /\ UNCHANGED <<peerings, bundles, nextPeering, graph, op, readers, reset, starting, torn, faults>>
  BY DEF SeedRouters, First
<1> DEFINE u == routerId
<1>6. u \in [Names -> 0..MaxId] /\ nextRouter \in 1..(MaxId + 1) /\ MaxId \in Nat
  BY FleetAssumption DEF FleetInv, FleetTypes
<1>7. \A n \in new : u[n] = 0
  OBVIOUS
<1> HIDE DEF new, Before, u
<1>8. routerId' \in [Names -> 0..MaxId]
  <2>1. ASSUME NEW n \in Names
        PROVE  (IF n \in new THEN nextRouter + Cardinality(Before(n)) ELSE u[n]) \in 0..MaxId
    BY <1>2, <1>4, <1>5, <1>6
  <2> QED
    BY <1>5, <2>1 DEF u
<1>9. nextRouter' \in 1..(MaxId + 1)
  BY <1>2, <1>5, <1>6
<1>10. Present \subseteq Present'
  <2>1. \A n \in Names : u[n] # 0 => routerId'[n] = u[n]
    BY <1>5, <1>7 DEF u
  <2> QED
    BY <2>1 DEF Present, u
<1>11. FleetTypes'
  BY <1>5, <1>8, <1>9 DEF FleetInv, FleetTypes
<1>12. TablesSound'
  BY <1>5, <1>10, TablesStay DEF FleetInv, FleetTypes, Link, FleetIds
<1>13. PhasesSound'
  BY <1>5 DEF FleetInv, PhasesSound
<1>14. SeedsSound'
  BY <1>5, SeedsStay DEF FleetInv, FleetTypes, LinkIds
<1>15. MirrorSound' /\ SyncsSound'
  BY <1>5, MirrorStays DEF FleetInv, LoopIsFree, Syncing
<1> QED
  BY <1>11, <1>12, <1>13, <1>14, <1>15 DEF FleetInv

\* seed_peerings up to its commit: what it is about to insert is what TxSound says of
\* the transaction, less what the database has.
LEMMA SeedIsPrepared ==
  ASSUME FleetInv, ~ starting, NEW tx, TxSound(tx), tx.next <= MaxId + 1
  PROVE  LET links == tx.links \ peerings
             ports == tx.ports \ bundles
         IN  /\ links \subseteq Link /\ ports \subseteq Bundle /\ tx.todo \subseteq FleetIds
             /\ LinksSound(links) /\ IsFiniteSet(ports) /\ BundlesBelong(links, ports)
             /\ BundlesComplete(links, ports) /\ NumbersUnique(ports)
             /\ \A p \in links : p.id < tx.next /\ nextPeering <= p.id /\ p.id \in tx.todo
<1> DEFINE links == tx.links \ peerings
           ports == tx.ports \ bundles
<1>1. MaxId \in Nat /\ nextPeering \in 1..(MaxId + 1) /\ peerings \subseteq Link
      /\ BundlesComplete(peerings, bundles) /\ BundlesBelong(peerings, bundles)
  BY FleetAssumption DEF FleetInv, FleetTypes, TablesSound
<1>2. \A p \in tx.links : p \in Span /\ p.id \in FleetIds /\ p.id < tx.next
  BY <1>1 DEF TxSound, Span, FleetIds
<1>3. links \subseteq Link
  BY <1>2 DEF Link, Span
<1>4. \A b \in ports : b \in Port /\ \E p \in links : p.id = b.peering
  BY DEF TxSound
<1>5. ports \subseteq Bundle /\ tx.todo \subseteq FleetIds
  BY <1>2, <1>4 DEF TxSound, Port, Bundle
<1>6. LinksSound(links) /\ NumbersUnique(ports)
  BY DEF TxSound, LinksSound, NumbersUnique
<1>7. IsFiniteSet(ports)
  BY FS_Subset DEF TxSound
<1>8. \A b \in ports : \E p \in links : p.id = b.peering /\ b.router \in p.ends
  <2> SUFFICES ASSUME NEW b \in ports PROVE \E p \in links : p.id = b.peering /\ b.router \in p.ends
    OBVIOUS
  <2>1. PICK p \in links : p.id = b.peering
    BY <1>4
  <2>2. PICK o \in tx.links : o.id = b.peering /\ b.router \in o.ends
    BY DEF TxSound, BundlesBelong
  <2>3. o = p
    BY <2>1, <2>2 DEF TxSound, LinksSound
  <2> QED
    BY <2>1, <2>2, <2>3
<1>9. \A p \in links : \A o \in peerings : p.id # o.id
  BY DEF TxSound, LinksSound
<1>10. \A p \in links : \A r \in p.ends : \E b \in ports : b.router = r /\ b.peering = p.id
  BY <1>1, <1>9 DEF TxSound, BundlesComplete, BundlesBelong
<1>11. \A p \in links : p.id < tx.next /\ nextPeering <= p.id /\ p.id \in tx.todo
  BY DEF TxSound
<1> HIDE DEF links, ports
<1>12. BundlesBelong(links, ports) /\ BundlesComplete(links, ports)
  BY <1>8, <1>10 DEF BundlesBelong, BundlesComplete
<1> QED
  BY <1>3, <1>5, <1>6, <1>7, <1>11, <1>12 DEF links, ports

\* A seeding request, which is a request.
SeedRequest(links, ports, needs, todo) ==
  [NoOp EXCEPT !.does = "seed", !.at = "prepared", !.newLinks = links, !.newBundles = ports,
   !.needs = needs, !.todo = todo]

\* It has what it is given.
LEMMA SeedType ==
  ASSUME NEW links \in SUBSET Link, NEW ports \in SUBSET Bundle, NEW needs \in SUBSET FleetIds,
         NEW todo \in SUBSET FleetIds
  PROVE  LET x == SeedRequest(links, ports, needs, todo)
         IN  /\ x \in FleetRequest /\ x.does = "seed" /\ x.at = "prepared" /\ x.newLinks = links
             /\ x.newBundles = ports /\ x.todo = todo
<1> DEFINE a == [NoOp EXCEPT !.does = "seed", !.at = "prepared"]
           b == [a EXCEPT !.newLinks = links, !.newBundles = ports]
           c == [b EXCEPT !.needs = needs, !.todo = todo]
<1>1. NoOp \in FleetRequest
  BY NoOpType
<1>2. a \in FleetRequest /\ a.does = "seed" /\ a.at = "prepared"
  BY <1>1 DEF FleetRequest
<1>3. SeedRequest(links, ports, needs, todo) = c
  BY DEF SeedRequest
<1> HIDE DEF a
<1>4. b \in FleetRequest /\ b.does = "seed" /\ b.at = "prepared" /\ b.newLinks = links /\ b.newBundles = ports
  BY <1>2 DEF FleetRequest
<1> HIDE DEF b
<1>5. /\ c \in FleetRequest /\ c.does = "seed" /\ c.at = "prepared" /\ c.newLinks = links
      /\ c.newBundles = ports /\ c.todo = todo
  BY <1>4 DEF FleetRequest
<1> HIDE DEF c
<1> QED
  BY <1>3, <1>5

\* The step.
LEMMA PrepareSeedKeeps ==
  ASSUME FleetInv, NEW q \in Ops, NEW batch \in LinkBatches, PrepareSeed(q, batch)
  PROVE  FleetInv'
<1> DEFINE tx == SeedLinks(batch)
           links == tx.links \ peerings
           ports == tx.ports \ bundles
           new == SeedRequest(links, ports, tx.todo \cap LinkIds, tx.todo)
<1>1. /\ LoopIsFree /\ op[q] = NoOp /\ tx.next <= MaxId + 1
      /\ op' = [op EXCEPT ![q] = new] /\ nextPeering' = tx.next
      /\ UNCHANGED <<routerId, peerings, bundles, nextRouter, graph, readers, reset, starting, torn, faults>>
  BY DEF PrepareSeed, SeedRequest, fleetTables
<1>2. TxSound(tx)
  BY <1>1, SeedLinksSound, FleetAssumption DEF FleetInv, LoopIsFree
<1> HIDE DEF tx
<1>3. /\ links \subseteq Link /\ ports \subseteq Bundle /\ tx.todo \subseteq FleetIds
      /\ LinksSound(links) /\ IsFiniteSet(ports) /\ BundlesBelong(links, ports)
      /\ BundlesComplete(links, ports) /\ NumbersUnique(ports)
      /\ \A p \in links : p.id < tx.next /\ nextPeering <= p.id /\ p.id \in tx.todo
  BY <1>1, <1>2, SeedIsPrepared DEF LoopIsFree
<1>4. tx.next \in Nat /\ nextPeering <= tx.next
  BY <1>2 DEF TxSound
<1> HIDE DEF links, ports
<1>5. /\ new \in FleetRequest /\ new.does = "seed" /\ new.at = "prepared" /\ new.newLinks = links
      /\ new.newBundles = ports /\ new.todo = tx.todo
  BY <1>3, SeedType
<1> HIDE DEF new
<1>6. op \in [Ops -> FleetRequest] /\ nextPeering \in 1..(MaxId + 1) /\ MaxId \in Nat
  BY FleetAssumption DEF FleetInv, FleetTypes
<1>7. op' \in [Ops -> FleetRequest] /\ op'[q] = new /\ \A o \in Ops : o # q => op'[o] = op[o]
  BY <1>1, <1>5, <1>6
<1>8. nextPeering' \in 1..(MaxId + 1) /\ nextPeering <= nextPeering'
  BY <1>1, <1>4, <1>6
<1>9. FleetTypes'
  BY <1>1, <1>7, <1>8 DEF FleetInv, FleetTypes
<1>10. TablesSound'
  BY <1>1, <1>6, <1>8, TablesStay DEF FleetInv, FleetTypes, Link, FleetIds, Present
<1>11. PhasesSound'
  BY <1>1 DEF FleetInv, PhasesSound, LoopIsFree
<1>12. SeedSound(q)'
  <2>1. \A p \in links : p.id \notin LinkIds /\ p.id < nextPeering'
    <3>1. \A o \in peerings : o.id \in Nat /\ o.id < nextPeering
      BY DEF FleetInv, FleetTypes, TablesSound, Link, FleetIds
    <3>2. \A p \in links : p.id \in Nat /\ nextPeering <= p.id /\ p.id < tx.next
      BY <1>3 DEF Link, FleetIds
    <3> QED
      BY <1>1, <1>6, <3>1, <3>2 DEF LinkIds
  <2>2. LinkIds' = LinkIds
    BY <1>1 DEF LinkIds
  <2>3. op'[q].newLinks = links /\ op'[q].newBundles = ports /\ op'[q].todo = tx.todo
    BY <1>5, <1>7
  <2>4. LinksSound(op'[q].newLinks) /\ IsFiniteSet(op'[q].newBundles)
        /\ BundlesBelong(op'[q].newLinks, op'[q].newBundles)
        /\ BundlesComplete(op'[q].newLinks, op'[q].newBundles) /\ NumbersUnique(op'[q].newBundles)
    BY <1>3, <2>3
  <2> QED
    BY <1>3, <2>1, <2>2, <2>3, <2>4
       DEF SeedSound, LinksSound, BundlesBelong, BundlesComplete, NumbersUnique
<1>13. ASSUME NEW o \in Ops, o # q, Prepared(o)'
       PROVE  /\ SeedSound(o)'
              /\ \A p \in links, l \in op'[o].newLinks : p.id # l.id
  <2>1. op'[o] = op[o] /\ Prepared(o)
    BY <1>7, <1>13 DEF Prepared
  <2>2. SeedSound(o) /\ op[o] \in FleetRequest
    BY <1>6, <2>1 DEF FleetInv, SeedsSound
  <2>3. \A p \in op[o].newLinks : p.id \in Nat /\ p.id < nextPeering
    BY <2>2 DEF SeedSound, FleetRequest, Link, FleetIds
  <2>4. \A p \in op[o].newLinks : p.id < nextPeering' /\ p.id \notin LinkIds'
    BY <1>1, <1>6, <1>8, <2>2, <2>3 DEF SeedSound, LinkIds
  <2>5. \A p \in links : p.id \in Nat /\ nextPeering <= p.id
    BY <1>3 DEF Link, FleetIds
  <2>6. SeedSound(o)'
    BY <2>1, <2>2, <2>4 DEF SeedSound, LinksSound, BundlesBelong, BundlesComplete, NumbersUnique
  <2> QED
    BY <1>6, <2>1, <2>3, <2>5, <2>6
<1>14. SeedsSound'
  <2>1. \A o \in Ops : Prepared(o)' => SeedSound(o)'
    BY <1>12, <1>13
  <2>2. ASSUME NEW o \in Ops, NEW u \in Ops, Prepared(o)', Prepared(u)', o # u
        PROVE  \A p \in op'[o].newLinks, l \in op'[u].newLinks : p.id # l.id
    <3>1. CASE o # q /\ u # q
      BY <1>7, <2>2, <3>1 DEF FleetInv, SeedsSound, Prepared
    <3>2. CASE o = q
      BY <1>5, <1>7, <1>13, <2>2, <3>2
    <3>3. CASE u = q
      BY <1>5, <1>7, <1>13, <2>2, <3>3
    <3> QED
      BY <3>1, <3>2, <3>3
  <2> QED
    BY <2>1, <2>2 DEF SeedsSound
<1>15. MirrorSound' /\ SyncsSound'
  <2>1. \A o \in Ops : o \in Syncing' => op'[o] = op[o]
    BY <1>5, <1>7 DEF Syncing
  <2>2. \A o \in Syncing : o \in Syncing'
    BY <1>1, <1>7, NoOpType DEF Syncing
  <2> QED
    BY <1>1, <2>1, <2>2, MirrorStays DEF FleetInv, LoopIsFree
<1> QED
  BY <1>9, <1>10, <1>11, <1>14, <1>15 DEF FleetInv

\* delete_router up to its commit.
LEMMA PrepareDeleteKeeps ==
  ASSUME FleetInv, NEW q \in Ops, NEW n \in Names, PrepareDelete(q, n)
  PROVE  FleetInv'
<1> DEFINE doomed == {p \in peerings : routerId[n] \in p.ends}
           new == [NoOp EXCEPT !.does = "delete", !.at = "prepared",
                   !.router = routerId[n], !.todo = {p.id : p \in doomed}]
<1>1. /\ LoopIsFree /\ op[q] = NoOp /\ op' = [op EXCEPT ![q] = new]
      /\ UNCHANGED <<routerId, peerings, bundles, nextRouter, nextPeering, graph, readers, reset,
                     starting, torn, faults>>
  BY DEF PrepareDelete, fleetTables, sequences
<1>2. routerId[n] \in 0..MaxId /\ {p.id : p \in doomed} \subseteq FleetIds
  BY DEF FleetInv, FleetTypes, Link
<1>3. new \in FleetRequest /\ new.does = "delete" /\ new.at = "prepared"
  BY <1>2, FleetAssumption DEF NoOp, FleetRequest
<1> HIDE DEF new
<1>4. op' \in [Ops -> FleetRequest] /\ op'[q] = new /\ \A o \in Ops : o # q => op'[o] = op[o]
  BY <1>1, <1>3 DEF FleetInv, FleetTypes
<1>5. FleetTypes'
  BY <1>1, <1>4 DEF FleetInv, FleetTypes
<1>6. TablesSound'
  BY <1>1, TablesStay DEF FleetInv, FleetTypes, Link, FleetIds, Present
<1>7. PhasesSound'
  BY <1>1 DEF FleetInv, PhasesSound, LoopIsFree
<1>8. SeedsSound'
  <2>1. \A o \in Ops : Prepared(o)' => op'[o] = op[o]
    BY <1>3, <1>4 DEF Prepared
  <2> QED
    BY <1>1, <2>1, SeedsStay DEF FleetInv, FleetTypes, LinkIds
<1>9. MirrorSound' /\ SyncsSound'
  <2>1. \A o \in Ops : o \in Syncing' => op'[o] = op[o]
    BY <1>3, <1>4 DEF Syncing
  <2>2. \A o \in Syncing : o \in Syncing'
    BY <1>1, <1>4, NoOpType DEF Syncing
  <2> QED
    BY <1>1, <2>1, <2>2, MirrorStays DEF FleetInv, LoopIsFree
<1> QED
  BY <1>5, <1>6, <1>7, <1>8, <1>9 DEF FleetInv

\* A request that is prepared is so while the backend runs and its tables are full.
LEMMA PreparedPhase ==
  ASSUME FleetInv, NEW q \in Ops, op[q].at = "prepared"
  PROVE  ~ starting /\ reset # "truncated" /\ op[q] \in FleetRequest /\ q \notin Syncing
  BY NoOpType DEF FleetInv, FleetTypes, PhasesSound, Syncing

\* A commit: what other requests are mirroring is given up, and so is what this one will
\* mirror if there are such.
LEMMA CommitRisks ==
  ASSUME FleetInv, NEW q \in Ops, op[q].at = "prepared", op' = [op EXCEPT ![q].at = "syncing"],
         torn' = torn \cup AtRisk(q)
  PROVE  /\ op' \in [Ops -> FleetRequest] /\ torn' \subseteq FleetIds /\ torn \subseteq torn'
         /\ Syncing' = Syncing \cup {q}
         /\ op'[q].todo = op[q].todo /\ op'[q].does = op[q].does
         /\ \A o \in Ops : o # q => op'[o] = op[o]
         /\ \A o \in Syncing : op[o].todo \subseteq torn'
         /\ Syncing # {} => op[q].todo \subseteq torn'
         /\ \A o, u \in Ops : Mirroring(o)' /\ u \in Syncing' /\ o # u =>
              op'[o].todo \cup op'[u].todo \subseteq torn'
<1>1. /\ op' \in [Ops -> FleetRequest] /\ \A o \in Ops : o # q => op'[o] = op[o]
      /\ op'[q].at = "syncing" /\ op'[q].does = op[q].does /\ op'[q].todo = op[q].todo
  BY OpCommits DEF FleetInv
<1>2. /\ AtRisk(q) \subseteq FleetIds
      /\ \A o \in Syncing : op[q].todo \cup op[o].todo \subseteq AtRisk(q)
  BY AtRiskType DEF FleetInv
<1>3. torn' \subseteq FleetIds /\ torn \subseteq torn'
  BY <1>2 DEF FleetInv, FleetTypes
<1>4. Syncing' = Syncing \cup {q}
  BY <1>1 DEF Syncing
<1>5. \A o \in Syncing : op[o].todo \subseteq torn' /\ op[q].todo \subseteq torn'
  BY <1>2
<1>6. ASSUME NEW o \in Ops, NEW u \in Ops, Mirroring(o)', u \in Syncing', o # u
      PROVE  op'[o].todo \cup op'[u].todo \subseteq torn'
  <2>1. o \in Syncing' /\ q \notin Syncing
    BY <1>6, PreparedPhase DEF Mirroring, Syncing
  <2>2. CASE o # q
    BY <1>1, <1>4, <1>5, <1>6, <2>1, <2>2
  <2>3. CASE o = q
    BY <1>1, <1>4, <1>5, <1>6, <2>3
  <2> QED
    BY <2>2, <2>3
<1> QED
  BY <1>1, <1>3, <1>4, <1>5, <1>6

\* The commit of seed_peerings.
LEMMA CommitSeedKeeps ==
  ASSUME FleetInv, NEW q \in Ops, CommitSeed(q)
  PROVE  FleetInv'
<1> DEFINE links == op[q].newLinks
           ports == op[q].newBundles
<1>1. /\ Prepared(q) /\ op[q].at = "prepared" /\ op[q].does = "seed" /\ ~ SeedConflict(q)
      /\ peerings' = peerings \cup links /\ bundles' = bundles \cup ports
      /\ op' = [op EXCEPT ![q].at = "syncing"] /\ torn' = torn \cup AtRisk(q)
      /\ UNCHANGED <<routerId, nextRouter, nextPeering, graph, readers, reset, starting, faults>>
  BY DEF CommitSeed, Prepared, sequences
<1>2. SeedSound(q)
  BY <1>1 DEF FleetInv, SeedsSound
<1>3. ~ starting /\ reset # "truncated" /\ op[q] \in FleetRequest
  BY <1>1, PreparedPhase
<1>4. /\ op' \in [Ops -> FleetRequest] /\ torn' \subseteq FleetIds /\ torn \subseteq torn'
      /\ Syncing' = Syncing \cup {q}
      /\ op'[q].todo = op[q].todo /\ op'[q].does = op[q].does
      /\ \A o \in Ops : o # q => op'[o] = op[o]
      /\ \A o \in Syncing : op[o].todo \subseteq torn'
      /\ Syncing # {} => op[q].todo \subseteq torn'
      /\ \A o, u \in Ops : Mirroring(o)' /\ u \in Syncing' /\ o # u =>
           op'[o].todo \cup op'[u].todo \subseteq torn'
  BY <1>1, CommitRisks
<1>5. /\ links \subseteq Link /\ ports \subseteq Bundle /\ IsFiniteSet(ports)
      /\ LinksSound(links) /\ BundlesBelong(links, ports) /\ BundlesComplete(links, ports)
      /\ NumbersUnique(ports)
      /\ \A p \in links : p.id < nextPeering /\ p.id \notin LinkIds /\ p.id \in op[q].todo
  BY <1>2, <1>3 DEF SeedSound, FleetRequest
<1>6. /\ \A p \in links : p.ends \subseteq Present /\ \A o \in peerings : o.ends # p.ends /\ o.id # p.id
      /\ \A b \in ports : \A c \in bundles : ~ (c.router = b.router /\ c.number = b.number)
  BY <1>1, <1>5 DEF SeedConflict, LinkIds
<1>7. FleetTypes'
  <2>1. IsFiniteSet(bundles')
    BY <1>1, <1>5, FS_Union DEF FleetInv, FleetTypes
  <2> QED
    BY <1>1, <1>4, <1>5, <2>1 DEF FleetInv, FleetTypes
<1> HIDE DEF links, ports
<1>8. TablesSound'
  <2>1. LinksSound(peerings')
    BY <1>1, <1>5, <1>6 DEF FleetInv, TablesSound, LinksSound
  <2>2. BundlesBelong(peerings', bundles') /\ BundlesComplete(peerings', bundles')
    BY <1>1, <1>3, <1>5 DEF FleetInv, TablesSound, BundlesBelong, BundlesComplete
  <2>3. NumbersUnique(bundles')
    BY <1>1, <1>5, <1>6 DEF FleetInv, TablesSound, NumbersUnique
  <2>4. \A p \in peerings' : p.id < nextPeering' /\ p.ends \subseteq Present'
    BY <1>1, <1>5, <1>6 DEF FleetInv, TablesSound, Present
  <2> QED
    BY <2>1, <2>2, <2>3, <2>4
       DEF TablesSound, LinksSound, BundlesBelong, BundlesComplete, NumbersUnique
<1>9. PhasesSound'
  BY <1>1, <1>3 DEF PhasesSound
<1>10. SeedsSound'
  <2>1. ASSUME NEW o \in Ops, Prepared(o)'
        PROVE  o # q /\ op'[o] = op[o] /\ Prepared(o) /\ SeedSound(o)'
    <3>1. o # q
      BY <1>4, <2>1 DEF Prepared, Syncing
    <3>2. op'[o] = op[o] /\ Prepared(o)
      BY <1>4, <2>1, <3>1 DEF Prepared
    <3>3. SeedSound(o) /\ \A p \in op[o].newLinks, l \in links : p.id # l.id
      BY <1>1, <3>1, <3>2 DEF FleetInv, SeedsSound, links
    <3>4. \A p \in op[o].newLinks : p.id \notin LinkIds'
      BY <1>1, <3>3 DEF SeedSound, LinkIds
    <3> QED
      BY <1>1, <3>1, <3>2, <3>3, <3>4
         DEF SeedSound, LinksSound, BundlesBelong, BundlesComplete, NumbersUnique
  <2> QED
    BY <2>1 DEF FleetInv, SeedsSound
<1>11. MirrorSound'
  <2> SUFFICES ASSUME NEW id \in FleetIds, id \notin torn', \A o \in Syncing' : id \notin op'[o].todo
               PROVE  BundlesOf(id, graph)' = BundlesOf(id, bundles)'
    BY DEF MirrorSound
  <2>1. id \notin torn /\ id \notin op[q].todo /\ \A o \in Syncing : id \notin op[o].todo
    BY <1>4
  <2>2. BundlesOf(id, graph) = BundlesOf(id, bundles)
    BY <1>3, <2>1 DEF FleetInv, MirrorSound
  <2>3. \A b \in ports : b.peering # id
    BY <1>5, <2>1 DEF BundlesBelong
  <2> QED
    BY <1>1, <2>2, <2>3 DEF BundlesOf
<1>12. SyncsSound'
  <2>1. ASSUME NEW o \in Ops, Mirroring(o)', NEW id \in op'[o].todo \ torn'
        PROVE  BundlesOf(id, graph)' \subseteq BundlesOf(id, bundles)'
    <3>1. o = q /\ Syncing = {}
      BY <1>4, <2>1 DEF Mirroring, Syncing
    <3>2. id \in FleetIds \ torn
      BY <1>3, <1>4, <2>1, <3>1 DEF FleetRequest
    <3>3. BundlesOf(id, graph) = BundlesOf(id, bundles)
      BY <1>3, <3>1, <3>2 DEF FleetInv, MirrorSound
    <3> QED
      BY <1>1, <3>3 DEF BundlesOf
  <2>2. \A o \in Ops : Unlinking(o)' => op'[o].todo \subseteq torn'
    BY <1>1, <1>4 DEF Unlinking, Syncing
  <2> QED
    BY <1>4, <2>1, <2>2 DEF SyncsSound
<1> QED
  BY <1>7, <1>8, <1>9, <1>10, <1>11, <1>12 DEF FleetInv

\* The commit of delete_router.
LEMMA CommitRemovalKeeps ==
  ASSUME FleetInv, NEW q \in Ops, CommitRemoval(q)
  PROVE  FleetInv'
<1> DEFINE r == op[q].router
           todo == op[q].todo
<1>1. /\ op[q].at = "prepared" /\ op[q].does = "delete"
      /\ \A p \in peerings : r \in p.ends => p.id \in todo
      /\ routerId' = [n \in Names |-> IF routerId[n] = r THEN 0 ELSE routerId[n]]
      /\ peerings' = {p \in peerings : p.id \notin todo}
      /\ bundles' = {b \in bundles : b.peering \notin todo}
      /\ op' = [op EXCEPT ![q].at = "syncing"] /\ torn' = torn \cup AtRisk(q)
      /\ UNCHANGED <<nextRouter, nextPeering, graph, readers, reset, starting, faults>>
  BY DEF CommitRemoval, sequences
<1>2. ~ starting /\ reset # "truncated" /\ op[q] \in FleetRequest
  BY <1>1, PreparedPhase
<1>3. /\ op' \in [Ops -> FleetRequest] /\ torn' \subseteq FleetIds /\ torn \subseteq torn'
      /\ Syncing' = Syncing \cup {q}
      /\ op'[q].todo = op[q].todo /\ op'[q].does = op[q].does
      /\ \A o \in Ops : o # q => op'[o] = op[o]
      /\ \A o \in Syncing : op[o].todo \subseteq torn'
      /\ Syncing # {} => op[q].todo \subseteq torn'
      /\ \A o, u \in Ops : Mirroring(o)' /\ u \in Syncing' /\ o # u =>
           op'[o].todo \cup op'[u].todo \subseteq torn'
  BY <1>1, CommitRisks
<1> HIDE DEF r, todo
<1>4. FleetTypes'
  <2>1. IsFiniteSet(bundles')
    BY <1>1, FS_Subset DEF FleetInv, FleetTypes
  <2>2. routerId' \in [Names -> 0..MaxId]
    BY <1>1, FleetAssumption DEF FleetInv, FleetTypes
  <2> QED
    BY <1>1, <1>3, <2>1, <2>2 DEF FleetInv, FleetTypes
<1>5. TablesSound'
  <2>1. LinksSound(peerings') /\ NumbersUnique(bundles') /\ BundlesBelong(peerings', bundles')
    BY <1>1 DEF FleetInv, TablesSound, LinksSound, NumbersUnique, BundlesBelong
  <2>2. BundlesComplete(peerings', bundles')
    BY <1>1, <1>2 DEF FleetInv, TablesSound, BundlesComplete
  <2>3. \A p \in peerings' : p.id < nextPeering' /\ p.ends \subseteq Present'
    <3> SUFFICES ASSUME NEW p \in peerings' PROVE p.id < nextPeering' /\ p.ends \subseteq Present'
      OBVIOUS
    <3>1. p \in peerings /\ r \notin p.ends /\ p.ends \subseteq Present /\ p.id < nextPeering
      BY <1>1 DEF FleetInv, TablesSound
    <3>2. Present \ {r} \subseteq Present'
      BY <1>1 DEF Present
    <3> QED
      BY <1>1, <3>1, <3>2
  <2> QED
    BY <2>1, <2>2, <2>3
       DEF TablesSound, LinksSound, BundlesBelong, BundlesComplete, NumbersUnique
<1>6. PhasesSound'
  BY <1>1, <1>2 DEF PhasesSound
<1>7. SeedsSound'
  <2>1. \A o \in Ops : Prepared(o)' => op'[o] = op[o]
    BY <1>1, <1>3 DEF Prepared
  <2>2. LinkIds' \subseteq LinkIds
    BY <1>1 DEF LinkIds
  <2> QED
    BY <1>1, <2>1, <2>2, SeedsStay DEF FleetInv, FleetTypes
<1>8. MirrorSound'
  <2> SUFFICES ASSUME NEW id \in FleetIds, id \notin torn', \A o \in Syncing' : id \notin op'[o].todo
               PROVE  BundlesOf(id, graph)' = BundlesOf(id, bundles)'
    BY DEF MirrorSound
  <2>1. id \notin torn /\ id \notin todo /\ \A o \in Syncing : id \notin op[o].todo
    BY <1>3 DEF todo
  <2>2. BundlesOf(id, graph) = BundlesOf(id, bundles)
    BY <1>2, <2>1 DEF FleetInv, MirrorSound
  <2> QED
    BY <1>1, <2>1, <2>2 DEF BundlesOf
<1>9. SyncsSound'
  <2>1. ASSUME NEW o \in Ops, Unlinking(o)', NEW id \in op'[o].todo \ torn'
        PROVE  /\ BundlesOf(id, bundles)' = {}
               /\ \A e \in BundlesOf(id, graph)', b \in bundles' :
                    ~ (e.router = b.router /\ e.number = b.number)
    <3>1. o = q /\ Syncing = {}
      BY <1>3, <2>1 DEF Unlinking, Syncing
    <3>2. id \in FleetIds \ torn /\ id \in todo
      BY <1>2, <1>3, <2>1, <3>1 DEF FleetRequest, todo
    <3>3. BundlesOf(id, graph) = BundlesOf(id, bundles)
      BY <1>2, <3>1, <3>2 DEF FleetInv, MirrorSound
    <3>4. BundlesOf(id, bundles)' = {}
      BY <1>1, <3>2 DEF BundlesOf
    <3>5. ASSUME NEW e \in BundlesOf(id, graph)', NEW b \in bundles',
                 e.router = b.router, e.number = b.number
          PROVE  FALSE
      <4>1. e \in bundles /\ e.peering = id /\ b \in bundles /\ b.peering # id
        BY <1>1, <3>2, <3>3 DEF BundlesOf
      <4> QED
        BY <3>5, <4>1 DEF FleetInv, TablesSound, NumbersUnique
    <3> QED
      BY <3>4, <3>5
  <2>2. \A o \in Ops : Mirroring(o)' => op'[o].todo \subseteq torn'
    BY <1>1, <1>3 DEF Mirroring, Syncing
  <2> QED
    BY <1>3, <2>1, <2>2 DEF SyncsSound
<1> QED
  BY <1>4, <1>5, <1>6, <1>7, <1>8, <1>9 DEF FleetInv

\* A request that ends with nothing left to mirror, or with what is left given up.
LEMMA EndKeeps ==
  ASSUME FleetInv, NEW q \in Ops, op' = [op EXCEPT ![q] = NoOp],
         UNCHANGED <<routerId, peerings, bundles, nextRouter, nextPeering, graph, readers, reset, starting>>,
         faults' \in 0..Faults, torn' \subseteq FleetIds, torn \subseteq torn',
         op[q].at = "syncing" => op[q].todo \subseteq torn'
  PROVE  FleetInv'
<1>1. op' \in [Ops -> FleetRequest] /\ op'[q] = NoOp /\ \A o \in Ops : o # q => op'[o] = op[o]
  BY OpEnds DEF FleetInv
<1>2. FleetTypes'
  BY <1>1 DEF FleetInv, FleetTypes
<1>3. TablesSound'
  BY TablesStay DEF FleetInv, FleetTypes, Link, FleetIds, Present
<1>4. PhasesSound'
  BY <1>1, PhasesStay DEF FleetInv
<1>5. SeedsSound'
  <2>1. \A o \in Ops : Prepared(o)' => op'[o] = op[o]
    BY <1>1, NoOpType DEF Prepared
  <2> QED
    BY <2>1, SeedsStay DEF FleetInv, FleetTypes, LinkIds
<1>6. MirrorSound' /\ SyncsSound'
  <2>1. \A o \in Ops : o \in Syncing' => op'[o] = op[o]
    BY <1>1, NoOpType DEF Syncing
  <2>2. \A o \in Syncing : o \notin Syncing' => op[o].todo \subseteq torn'
    BY <1>1 DEF Syncing
  <2>3. reset' = "truncated" \/ reset # "truncated"
    OBVIOUS
  <2> QED
    BY <2>1, <2>2, <2>3, MirrorStays DEF FleetInv
<1> QED
  BY <1>2, <1>3, <1>4, <1>5, <1>6 DEF FleetInv

\* A transaction that a constraint fails, a request that is answered, one whose mirroring fails.
LEMMA RollBackKeeps ==
  ASSUME FleetInv, NEW q \in Ops, RollBack(q)
  PROVE  FleetInv'
  BY EndKeeps DEF RollBack, FleetInv, FleetTypes, fleetTables, sequences

\* A request with nothing left to mirror ends.
LEMMA FinishOpKeeps ==
  ASSUME FleetInv, NEW q \in Ops, FinishOp(q)
  PROVE  FleetInv'
  BY EndKeeps DEF FinishOp, FleetInv, FleetTypes, fleetTables, sequences

\* A mirror that fails ends its request: what it had left to do is torn.
LEMMA SyncFailsKeeps ==
  ASSUME FleetInv, NEW q \in Ops, SyncFails(q)
  PROVE  FleetInv'
<1>1. op[q].todo \subseteq FleetIds
  BY DEF FleetInv, FleetTypes, FleetRequest
<1>2. faults' \in 0..Faults
  BY FleetAssumption DEF SyncFails, FleetInv, FleetTypes
<1> QED
  BY <1>1, <1>2, EndKeeps DEF SyncFails, FleetInv, FleetTypes, fleetTables, sequences

\* A step of the mirroring of one peering: the tables stay, the graph and torn change.
LEMMA MirrorStep ==
  ASSUME FleetInv, NEW q \in Ops, NEW id \in FleetIds, op[q].at = "syncing",
         op' = [op EXCEPT ![q].todo = @ \ {id}],
         UNCHANGED <<routerId, peerings, bundles, nextRouter, nextPeering, readers, reset, starting, faults>>
  PROVE  /\ op' \in [Ops -> FleetRequest] /\ Syncing' = Syncing
         /\ \A o \in Ops : o # q => op'[o] = op[o]
         /\ op'[q].does = op[q].does /\ op'[q].todo = op[q].todo \ {id}
         /\ \A o \in Ops : op'[o].todo \subseteq op[o].todo
         /\ TablesSound' /\ PhasesSound' /\ SeedsSound'
<1>1. /\ op' \in [Ops -> FleetRequest] /\ \A o \in Ops : o # q => op'[o] = op[o]
      /\ op'[q].at = op[q].at /\ op'[q].does = op[q].does /\ op'[q].todo = op[q].todo \ {id}
  BY OpMirrors DEF FleetInv
<1>2. Syncing' = Syncing /\ \A o \in Ops : op'[o].todo \subseteq op[o].todo
  BY <1>1 DEF Syncing
<1>3. TablesSound'
  BY TablesStay DEF FleetInv, FleetTypes, Link, FleetIds, Present
<1>4. op[q] # NoOp
  BY NoOpType
<1>5. PhasesSound'
  BY <1>1, <1>4 DEF FleetInv, PhasesSound
<1>6. SeedsSound'
  <2>1. \A o \in Ops : Prepared(o)' => op'[o] = op[o]
    BY <1>1 DEF Prepared
  <2> QED
    BY <2>1, SeedsStay DEF FleetInv, FleetTypes, LinkIds
<1> QED
  BY <1>1, <1>2, <1>3, <1>5, <1>6

\* sync_peering_to_neo4j.
LEMMA SyncPeeringKeeps ==
  ASSUME FleetInv, NEW q \in Ops, NEW id \in FleetIds, SyncPeering(q, id)
  PROVE  FleetInv'
<1>1. /\ Mirroring(q) /\ q \in Syncing /\ op[q].at = "syncing" /\ id \in op[q].todo
      /\ graph' = graph \cup BundlesOf(id, bundles)
      /\ op' = [op EXCEPT ![q].todo = @ \ {id}] /\ torn' = torn
      /\ UNCHANGED <<routerId, peerings, bundles, nextRouter, nextPeering, readers, reset, starting, faults>>
  BY DEF SyncPeering, Mirroring, Syncing, fleetTables, sequences
<1>2. /\ op' \in [Ops -> FleetRequest] /\ Syncing' = Syncing
      /\ \A o \in Ops : o # q => op'[o] = op[o]
      /\ op'[q].does = op[q].does /\ op'[q].todo = op[q].todo \ {id}
      /\ \A o \in Ops : op'[o].todo \subseteq op[o].todo
      /\ TablesSound' /\ PhasesSound' /\ SeedsSound'
  BY <1>1, MirrorStep
<1>3. FleetTypes'
  BY <1>1, <1>2 DEF FleetInv, FleetTypes, BundlesOf
<1>4. \A i \in FleetIds : i # id => BundlesOf(i, graph') = BundlesOf(i, graph)
  BY <1>1 DEF BundlesOf
<1>5. \A o \in Syncing : o # q => op[q].todo \cup op[o].todo \subseteq torn
  BY <1>1 DEF FleetInv, SyncsSound, Syncing
<1>6. MirrorSound'
  <2> SUFFICES ASSUME reset # "truncated", NEW i \in FleetIds, i \notin torn,
                      \A o \in Syncing : i \notin op'[o].todo
               PROVE  BundlesOf(i, graph') = BundlesOf(i, bundles)
    BY <1>1, <1>2 DEF MirrorSound, BundlesOf
  <2>1. CASE i = id
    <3>1. BundlesOf(id, graph) \subseteq BundlesOf(id, bundles)
      BY <1>1, <2>1 DEF FleetInv, SyncsSound
    <3> QED
      BY <1>1, <2>1, <3>1 DEF BundlesOf
  <2>2. CASE i # id
    <3>1. \A o \in Syncing : i \notin op[o].todo
      BY <1>2, <2>2 DEF Syncing
    <3>2. BundlesOf(i, graph) = BundlesOf(i, bundles)
      BY <3>1 DEF FleetInv, MirrorSound
    <3> QED
      BY <1>4, <2>2, <3>2
  <2> QED
    BY <2>1, <2>2
<1>7. SyncsSound'
  <2>1. \A o \in Ops : (Mirroring(o)' => Mirroring(o)) /\ (Unlinking(o)' => Unlinking(o) /\ o # q)
    BY <1>1, <1>2 DEF Mirroring, Unlinking, Syncing
  <2>2. ASSUME NEW o \in Ops, Mirroring(o)', NEW i \in op'[o].todo \ torn'
        PROVE  BundlesOf(i, graph)' \subseteq BundlesOf(i, bundles)'
    <3>1. o = q
      BY <1>1, <1>2, <1>5, <2>1, <2>2 DEF Mirroring, Syncing
    <3>2. i # id /\ i \in op[q].todo \ torn /\ i \in FleetIds
      BY <1>1, <1>2, <2>2, <3>1 DEF FleetInv, FleetTypes, FleetRequest
    <3>3. BundlesOf(i, graph) \subseteq BundlesOf(i, bundles)
      BY <1>1, <3>2 DEF FleetInv, SyncsSound
    <3> QED
      BY <1>1, <1>4, <3>2, <3>3 DEF BundlesOf
  <2>3. \A o \in Ops : Unlinking(o)' => op'[o].todo \subseteq torn'
    BY <1>1, <1>2, <1>5, <2>1 DEF Unlinking, Syncing
  <2>4. \A o, u \in Ops : Mirroring(o)' /\ u \in Syncing' /\ o # u =>
          op'[o].todo \cup op'[u].todo \subseteq torn'
    BY <1>1, <1>2, <2>1 DEF FleetInv, SyncsSound
  <2> QED
    BY <2>2, <2>3, <2>4 DEF SyncsSound
<1> QED
  BY <1>2, <1>3, <1>6, <1>7 DEF FleetInv

\* delete_peering_from_neo4j.
LEMMA UnlinkPeeringKeeps ==
  ASSUME FleetInv, NEW q \in Ops, NEW id \in FleetIds, UnlinkPeering(q, id)
  PROVE  FleetInv'
<1> DEFINE Gone(e) == \E s \in BundlesOf(id, graph) : s.router = e.router /\ s.number = e.number
           lost == IF id \in torn THEN {e.peering : e \in {e \in graph : Gone(e)}} ELSE {}
<1>1. /\ Unlinking(q) /\ q \in Syncing /\ op[q].at = "syncing" /\ id \in op[q].todo
      /\ graph' = {e \in graph : ~ Gone(e)} /\ torn' = torn \cup lost
      /\ op' = [op EXCEPT ![q].todo = @ \ {id}]
      /\ UNCHANGED <<routerId, peerings, bundles, nextRouter, nextPeering, readers, reset, starting, faults>>
  BY DEF UnlinkPeering, Unlinking, Syncing, fleetTables, sequences
<1>2. /\ op' \in [Ops -> FleetRequest] /\ Syncing' = Syncing
      /\ \A o \in Ops : o # q => op'[o] = op[o]
      /\ op'[q].does = op[q].does /\ op'[q].todo = op[q].todo \ {id}
      /\ \A o \in Ops : op'[o].todo \subseteq op[o].todo
      /\ TablesSound' /\ PhasesSound' /\ SeedsSound'
  BY <1>1, MirrorStep
<1>3. lost \subseteq FleetIds /\ graph' \subseteq graph /\ torn \subseteq torn'
  BY <1>1 DEF FleetInv, FleetTypes, Bundle
<1>4. FleetTypes'
  BY <1>1, <1>2, <1>3 DEF FleetInv, FleetTypes
<1>5. \A o \in Ops : Mirroring(o) => op[o].todo \subseteq torn
  BY <1>1 DEF FleetInv, SyncsSound, Mirroring, Unlinking
<1>6. \A o \in Ops : (Mirroring(o)' => Mirroring(o) /\ o # q) /\ (Unlinking(o)' => Unlinking(o))
  BY <1>1, <1>2 DEF Mirroring, Unlinking, Syncing
<1>7. BundlesOf(id, graph') = {}
  BY <1>1 DEF BundlesOf
<1>8. id \notin torn =>
        /\ BundlesOf(id, bundles) = {}
        /\ \A e \in BundlesOf(id, graph), b \in bundles : ~ (e.router = b.router /\ e.number = b.number)
  BY <1>1 DEF FleetInv, SyncsSound
<1>9. MirrorSound'
  <2> SUFFICES ASSUME reset # "truncated", NEW i \in FleetIds, i \notin torn',
                      \A o \in Syncing : i \notin op'[o].todo
               PROVE  BundlesOf(i, graph') = BundlesOf(i, bundles)
    BY <1>1, <1>2 DEF MirrorSound, BundlesOf
  <2>1. CASE i = id
    BY <1>3, <1>7, <1>8, <2>1
  <2>2. CASE i # id
    <3>1. \A o \in Syncing : i \notin op[o].todo
      BY <1>2, <2>2 DEF Syncing
    <3>2. BundlesOf(i, graph) = BundlesOf(i, bundles)
      BY <1>3, <3>1 DEF FleetInv, MirrorSound
    <3>3. \A e \in BundlesOf(i, graph) : ~ Gone(e)
      <4>1. CASE id \in torn
        BY <1>1, <4>1 DEF BundlesOf
      <4>2. CASE id \notin torn
        BY <1>8, <3>2, <4>2 DEF BundlesOf
      <4> QED
        BY <4>1, <4>2
    <3>4. BundlesOf(i, graph') = BundlesOf(i, graph)
      BY <1>1, <3>3 DEF BundlesOf
    <3> QED
      BY <3>2, <3>4
  <2> QED
    BY <2>1, <2>2
<1>10. SyncsSound'
  <2>1. \A o \in Ops : Mirroring(o)' => op'[o].todo \subseteq torn'
    BY <1>2, <1>3, <1>5, <1>6
  <2>2. ASSUME NEW o \in Ops, Unlinking(o)', NEW i \in op'[o].todo \ torn'
        PROVE  /\ BundlesOf(i, bundles)' = {}
               /\ \A e \in BundlesOf(i, graph)', b \in bundles' :
                    ~ (e.router = b.router /\ e.number = b.number)
    <3>1. Unlinking(o) /\ i \in op[o].todo \ torn
      BY <1>2, <1>3, <1>6, <2>2
    <3>2. /\ BundlesOf(i, bundles) = {}
          /\ \A e \in BundlesOf(i, graph), b \in bundles : ~ (e.router = b.router /\ e.number = b.number)
      BY <3>1 DEF FleetInv, SyncsSound
    <3> QED
      BY <1>1, <1>3, <3>2 DEF BundlesOf
  <2>3. \A o, u \in Ops : Mirroring(o)' /\ u \in Syncing' /\ o # u =>
          op'[o].todo \cup op'[u].todo \subseteq torn'
    BY <1>2, <1>3, <1>6 DEF FleetInv, SyncsSound
  <2> QED
    BY <2>1, <2>2, <2>3 DEF SyncsSound
<1> QED
  BY <1>2, <1>4, <1>9, <1>10 DEF FleetInv

\* A step that only counts: sessions of readers, failures, and who asks for a reset.
LEMMA CountingKeeps ==
  ASSUME FleetInv, UNCHANGED <<routerId, peerings, bundles, nextRouter, nextPeering, graph, op, starting, torn>>,
         readers' \in 0..Readers, faults' \in 0..Faults,
         reset' = reset \/ (reset' = "asked" /\ ~ starting /\ reset = "idle")
  PROVE  FleetInv'
<1>1. FleetTypes'
  BY DEF FleetInv, FleetTypes
<1>2. TablesSound'
  BY TablesStay DEF FleetInv, FleetTypes, Link, FleetIds, Present
<1>3. PhasesSound'
  BY DEF FleetInv, PhasesSound
<1>4. SeedsSound'
  BY SeedsStay DEF FleetInv, FleetTypes, LinkIds
<1>5. MirrorSound' /\ SyncsSound'
  BY MirrorStays DEF FleetInv, Syncing
<1> QED
  BY <1>1, <1>2, <1>3, <1>4, <1>5 DEF FleetInv

\* A request that reads begins or ends, and changes no table.
LEMMA ReadBeginsKeeps == FleetInv /\ ReadBegins => FleetInv'
<1> SUFFICES ASSUME FleetInv, ReadBegins PROVE FleetInv'
  OBVIOUS
<1>1. readers' \in 0..Readers /\ faults' \in 0..Faults
  BY FleetAssumption DEF ReadBegins, FleetInv, FleetTypes
<1> QED
  BY <1>1, CountingKeeps DEF ReadBegins, fleetTables, sequences

\* As one that begins.
LEMMA ReadEndsKeeps == FleetInv /\ ReadEnds => FleetInv'
<1> SUFFICES ASSUME FleetInv, ReadEnds PROVE FleetInv'
  OBVIOUS
<1>1. readers' \in 0..Readers /\ faults' \in 0..Faults
  BY FleetAssumption DEF ReadEnds, FleetInv, FleetTypes
<1> QED
  BY <1>1, CountingKeeps DEF ReadEnds, fleetTables, sequences

\* A reset that is asked for only waits.
LEMMA AskResetKeeps == FleetInv /\ AskReset => FleetInv'
<1> SUFFICES ASSUME FleetInv, AskReset PROVE FleetInv'
  OBVIOUS
<1>1. readers' \in 0..Readers /\ faults' \in 0..Faults
  BY FleetAssumption DEF AskReset, FleetInv, FleetTypes
<1> QED
  BY <1>1, CountingKeeps DEF AskReset, LoopIsFree, fleetTables, sequences

\* TRUNCATE: there is nothing left to be wrong about but the graph.
LEMMA TruncateFleetKeeps == FleetInv /\ TruncateFleet => FleetInv'
<1> SUFFICES ASSUME FleetInv, TruncateFleet PROVE FleetInv'
  OBVIOUS
<1>1. /\ reset = "asked" /\ routerId' = [n \in Names |-> 0] /\ peerings' = {} /\ bundles' = {}
      /\ nextRouter' = 1 /\ nextPeering' = 1 /\ reset' = "truncated"
      /\ UNCHANGED <<graph, op, readers, starting, torn, faults>>
      /\ \A q \in Ops : op[q].at = "none" \/ (op[q].does = "delete" /\ op[q].at = "syncing")
  BY DEF TruncateFleet, TablesAreFree
<1>2. ~ starting
  BY <1>1 DEF FleetInv, PhasesSound
<1>3. FleetTypes'
  BY <1>1, FleetAssumption, FS_EmptySet DEF FleetInv, FleetTypes
<1>4. TablesSound'
  BY <1>1 DEF TablesSound, LinksSound, BundlesBelong, BundlesComplete, NumbersUnique
<1>5. PhasesSound'
  BY <1>1, <1>2 DEF PhasesSound
<1>6. SeedsSound'
  BY <1>1 DEF SeedsSound, Prepared
<1>7. MirrorSound'
  BY <1>1 DEF MirrorSound
<1>8. SyncsSound'
  BY <1>1 DEF SyncsSound, Mirroring, Unlinking, BundlesOf
<1> QED
  BY <1>3, <1>4, <1>5, <1>6, <1>7, <1>8 DEF FleetInv

\* clear_topology: the graph is empty, or what it still has is torn.
LEMMA ClearGraphKeeps == FleetInv /\ ClearGraph => FleetInv'
<1> SUFFICES ASSUME FleetInv, ClearGraph PROVE FleetInv'
  OBVIOUS
<1>1. /\ reset = "truncated" /\ reset' = "idle"
      /\ UNCHANGED <<routerId, peerings, bundles, nextRouter, nextPeering, op, readers, starting>>
      /\ faults' \in 0..Faults
  BY FleetAssumption DEF ClearGraph, fleetTables, sequences, FleetInv, FleetTypes
<1>2. /\ peerings = {} /\ bundles = {} /\ ~ starting
      /\ \A q \in Ops : op[q].at = "none" \/ (op[q].does = "delete" /\ op[q].at = "syncing")
  BY <1>1 DEF FleetInv, PhasesSound
<1>3. /\ graph' \subseteq Bundle /\ torn' \subseteq FleetIds
      /\ \A e \in graph' : e.peering \in torn'
  BY DEF ClearGraph, FleetInv, FleetTypes, Bundle
<1>4. FleetTypes'
  BY <1>1, <1>3 DEF FleetInv, FleetTypes
<1>5. TablesSound'
  BY <1>1, TablesStay DEF FleetInv, FleetTypes, Link, FleetIds, Present
<1>6. PhasesSound'
  BY <1>1, <1>2 DEF PhasesSound
<1>7. SeedsSound'
  BY <1>1, <1>2 DEF SeedsSound, Prepared
<1>8. MirrorSound'
  BY <1>1, <1>2, <1>3 DEF MirrorSound, BundlesOf
<1>9. SyncsSound'
  BY <1>1, <1>2, <1>3 DEF SyncsSound, Mirroring, Unlinking, BundlesOf
<1> QED
  BY <1>4, <1>5, <1>6, <1>7, <1>8, <1>9 DEF FleetInv

\* The backend ends; what was being mirrored is torn.
LEMMA RestartFleetKeeps == FleetInv /\ RestartFleet => FleetInv'
<1> SUFFICES ASSUME FleetInv, RestartFleet PROVE FleetInv'
  OBVIOUS
<1> DEFINE given == UNION {op[q].todo : q \in Syncing}
           left == IF reset = "truncated" THEN {e.peering : e \in graph} ELSE {}
<1>1. /\ starting' = TRUE /\ reset' = "idle" /\ readers' = 0
      /\ op' = [q \in Ops |-> NoOp] /\ torn' = torn \cup given \cup left
      /\ UNCHANGED <<routerId, peerings, bundles, nextRouter, nextPeering, graph>>
      /\ faults < Faults /\ faults' = faults + 1
  BY DEF RestartFleet, fleetTables, sequences
<1>2. given \subseteq FleetIds
  BY DEF FleetInv, FleetTypes, FleetRequest, Syncing
<1>3. left \subseteq FleetIds
  BY DEF FleetInv, FleetTypes, Bundle
<1>4. \A q \in Syncing : op[q].todo \subseteq torn'
  BY <1>1
<1>5. reset = "truncated" => bundles = {} /\ \A e \in graph : e.peering \in torn'
  BY <1>1 DEF FleetInv, PhasesSound
<1>6. torn \subseteq torn' /\ torn' \subseteq FleetIds
  BY <1>1, <1>2, <1>3 DEF FleetInv, FleetTypes
<1> HIDE DEF given, left
<1>7. FleetTypes'
  <2>1. readers' \in 0..Readers /\ faults' \in 0..Faults
    BY <1>1, FleetAssumption DEF FleetInv, FleetTypes
  <2> QED
    BY <1>1, <1>6, <2>1, NoOpType DEF FleetInv, FleetTypes
<1>8. TablesSound'
  BY <1>1, TablesStay DEF FleetInv, FleetTypes, Link, FleetIds, Present
<1>9. PhasesSound'
  BY <1>1 DEF PhasesSound
<1>10. SeedsSound'
  BY <1>1, NoOpType DEF SeedsSound, Prepared
<1>11. MirrorSound'
  BY <1>1, <1>4, <1>5, <1>6 DEF FleetInv, MirrorSound, BundlesOf
<1>12. SyncsSound'
  BY <1>1, NoOpType DEF SyncsSound, Mirroring, Unlinking
<1> QED
  BY <1>7, <1>8, <1>9, <1>10, <1>11, <1>12 DEF FleetInv

\* repair_peering_bundles.
LEMMA RepairBundlesKeeps == FleetInv /\ RepairBundles => FleetInv'
<1> SUFFICES ASSUME FleetInv, RepairBundles PROVE FleetInv'
  OBVIOUS
<1> DEFINE ids == {p.id : p \in Lacking}
<1>1. starting /\ reset = "idle" /\ \A q \in Ops : op[q] = NoOp
  BY DEF RepairBundles, FleetInv, PhasesSound
<1>2. PICK done \in SUBSET ids :
        /\ graph' = {e \in graph : e.peering \notin done} \cup {b \in Repaired : b.peering \in done}
        /\ torn' = (torn \ done) \cup (ids \ done)
        /\ IF done = ids THEN faults' = faults ELSE faults < Faults /\ faults' = faults + 1
  BY DEF RepairBundles
<1>3. /\ starting' = FALSE /\ bundles' = Repaired
      /\ UNCHANGED <<routerId, peerings, nextRouter, nextPeering, op, readers, reset>>
  BY DEF RepairBundles, sequences
<1>4. RepairSound(Repaired) /\ BundlesComplete(peerings, Repaired)
  BY RepairedSound DEF FleetInv
<1>5. ids \subseteq FleetIds
  BY DEF FleetInv, FleetTypes, Lacking, Link
<1>6. \A b \in Repaired \ bundles : b.peering \in ids
  BY <1>4 DEF RepairSound
<1> HIDE DEF ids
<1>7. FleetTypes'
  <2>1. graph' \subseteq Bundle /\ torn' \subseteq FleetIds
    BY <1>2, <1>4, <1>5 DEF FleetInv, FleetTypes, RepairSound
  <2>2. faults' \in 0..Faults
    BY <1>2, FleetAssumption DEF FleetInv, FleetTypes
  <2> QED
    BY <1>3, <1>4, <2>1, <2>2 DEF FleetInv, FleetTypes, RepairSound
<1>8. TablesSound'
  <2>1. LinksSound(peerings)'
    BY <1>3 DEF FleetInv, TablesSound, LinksSound
  <2>2. BundlesBelong(peerings, bundles)' /\ NumbersUnique(bundles)' /\ BundlesComplete(peerings, bundles)'
    BY <1>3, <1>4 DEF RepairSound, BundlesBelong, NumbersUnique, BundlesComplete
  <2>3. \A p \in peerings' : p.id < nextPeering' /\ p.ends \subseteq Present'
    BY <1>3 DEF FleetInv, TablesSound, Present
  <2> QED
    BY <2>1, <2>2, <2>3 DEF TablesSound
<1>9. PhasesSound'
  BY <1>1, <1>3 DEF PhasesSound
<1>10. SeedsSound'
  BY <1>1, <1>3, NoOpType DEF SeedsSound, Prepared
<1>11. MirrorSound'
  <2> SUFFICES ASSUME NEW id \in FleetIds, id \notin torn'
               PROVE  BundlesOf(id, graph') = BundlesOf(id, Repaired)
    BY <1>3 DEF MirrorSound, BundlesOf
  <2>1. CASE id \in done
    BY <1>2, <2>1 DEF BundlesOf
  <2>2. CASE id \notin done
    <3>1. id \notin ids /\ id \notin torn
      BY <1>2, <2>2
    <3>2. Syncing = {}
      BY <1>1, NoOpType DEF Syncing
    <3>3. BundlesOf(id, graph) = BundlesOf(id, bundles)
      BY <1>1, <3>1, <3>2 DEF FleetInv, MirrorSound
    <3>4. BundlesOf(id, Repaired) = BundlesOf(id, bundles)
      BY <1>4, <1>6, <3>1 DEF BundlesOf, RepairSound
    <3>5. BundlesOf(id, graph') = BundlesOf(id, graph)
      BY <1>2, <2>2 DEF BundlesOf
    <3> QED
      BY <3>3, <3>4, <3>5
  <2> QED
    BY <2>1, <2>2
<1>12. SyncsSound'
  BY <1>1, <1>3, NoOpType DEF SyncsSound, Mirroring, Unlinking
<1> QED
  BY <1>7, <1>8, <1>9, <1>10, <1>11, <1>12 DEF FleetInv

-----------------------------------------------------------------------------
(* The theorems *)

\* The places of the routers of an earlier version.
LEMMA PlaceType ==
  ASSUME NEW n \in Names
  PROVE  Cardinality({m \in Names : m <= n}) \in 1..Cardinality(Names)
<1> DEFINE upTo == {m \in Names : m <= n}
<1>1. upTo \in SUBSET Names /\ n \in upTo /\ IsFiniteSet(Names)
  BY FleetAssumption
<1> HIDE DEF upTo
<1>2. /\ Cardinality(upTo) \in Nat /\ Cardinality(Names) \in Nat
      /\ Cardinality(upTo) <= Cardinality(Names) /\ Cardinality(upTo) # 0
  BY <1>1, FS_Subset, FS_CardinalityType, FS_EmptySet
<1>3. Cardinality(upTo) \in 1..Cardinality(Names)
  BY <1>2
<1> QED
  BY <1>3 DEF upTo

\* A set of two is a pair, and a pair is a set of two.
LEMMA PairOfTwo ==
  ASSUME NEW ends, ends \subseteq FleetIds, Cardinality(ends) = 2
  PROVE  IsPair(ends)
<1>1. MaxId \in Nat
  BY FleetAssumption
<1>2. IsFiniteSet(ends)
  <2>1. IsFiniteSet(1..MaxId)
    BY <1>1, FS_Interval
  <2> QED
    BY <2>1, FS_Subset DEF FleetIds
<1>3. PICK a : a \in ends
  BY <1>2, FS_EmptySet
<1>4. IsFiniteSet(ends \ {a}) /\ Cardinality(ends \ {a}) = 1
  BY <1>2, <1>3, FS_RemoveElement
<1>5. PICK b : ends \ {a} = {b}
  BY <1>4, FS_Singleton
<1>6. a # b /\ ends = {a, b} /\ a \in FleetIds /\ b \in FleetIds
  BY <1>3, <1>5
<1> QED
  BY <1>6 DEF IsPair

\* A pair has two members.
LEMMA TwoOfPair ==
  ASSUME NEW ends, IsPair(ends)
  PROVE  Cardinality(ends) = 2
<1>1. PICK a, b \in FleetIds : a # b /\ ends = {a, b}
  BY DEF IsPair
<1>2. IsFiniteSet({a}) /\ Cardinality({a}) = 1
  BY FS_Singleton
<1>3. Cardinality({a} \cup {b}) = 2
  BY <1>1, <1>2, FS_AddElement
<1>4. {a} \cup {b} = {a, b}
  OBVIOUS
<1> QED
  BY <1>1, <1>3, <1>4

\* The initial states satisfy the invariant.
LEMMA FleetInitSound == FleetInit => FleetInv
<1> SUFFICES ASSUME FleetInit PROVE FleetInv
  OBVIOUS
<1>1. /\ op = [q \in Ops |-> NoOp] /\ readers = 0 /\ reset = "idle" /\ starting = TRUE /\ faults = 0
      /\ op \in [Ops -> FleetRequest] /\ readers \in 0..Readers /\ faults \in 0..Faults
      /\ \A q \in Ops : op[q] = NoOp
  BY FleetAssumption, NoOpType DEF FleetInit
<1>2. PhasesSound /\ SeedsSound /\ SyncsSound
  BY <1>1, NoOpType DEF PhasesSound, SeedsSound, SyncsSound, Prepared, Mirroring, Unlinking
<1>3. CASE /\ routerId = [n \in Names |-> 0] /\ nextRouter = 1
           /\ peerings = {} /\ bundles = {} /\ graph = {} /\ nextPeering = 1 /\ torn = {}
  <2>1. FleetTypes
    BY <1>1, <1>3, FleetAssumption, FS_EmptySet DEF FleetTypes
  <2>2. TablesSound
    BY <1>3 DEF TablesSound, LinksSound, BundlesBelong, BundlesComplete, NumbersUnique
  <2>3. MirrorSound
    BY <1>3 DEF MirrorSound, BundlesOf
  <2> QED
    BY <1>2, <2>1, <2>2, <2>3 DEF FleetInv
<1> DEFINE place(n) == Cardinality({m \in Names : m <= n})
           places == {place(n) : n \in Names}
           ids == {p.id : p \in LegacyLinks}
<1>4. CASE /\ routerId = [n \in Names |-> place(n)] /\ nextRouter = Cardinality(Names) + 1
           /\ peerings = LegacyLinks /\ bundles = LegacyBundles /\ graph = LegacyGraph
           /\ nextPeering = Cardinality(LegacyLinks) + 1 /\ torn = LinkIds
  <2>1. /\ Cardinality(Names) \in Nat /\ Cardinality(Names) <= MaxId /\ MaxId \in Nat
        /\ Cardinality(LegacyLinks) \in Nat /\ Cardinality(LegacyLinks) <= MaxId
    BY FleetAssumption, LegacyAssumption, FS_CardinalityType
  <2>2. \A n \in Names : place(n) \in 1..Cardinality(Names)
    BY PlaceType
  <2> HIDE DEF place
  <2>3. places \subseteq FleetIds
    BY <2>1, <2>2 DEF FleetIds
  <2>4. Present = places
    BY <1>4, <2>1, <2>2 DEF Present
  <2>5. /\ \A p \in LegacyLinks :
             /\ p = [id |-> p.id, ends |-> p.ends] /\ p.id \in 1..Cardinality(LegacyLinks)
             /\ p.ends \subseteq places /\ Cardinality(p.ends) = 2
        /\ \A p, o \in LegacyLinks : p.id = o.id \/ p.ends = o.ends => p = o
        /\ IsFiniteSet(LegacyBundles)
        /\ \A b \in LegacyBundles \cup LegacyGraph :
             /\ b = [router |-> b.router, peering |-> b.peering, number |-> b.number]
             /\ b.router \in places /\ b.peering \in ids /\ b.number \in Nat
        /\ \A b \in LegacyBundles : \E p \in LegacyLinks : p.id = b.peering /\ b.router \in p.ends
        /\ \A b, c \in LegacyBundles : b.router = c.router /\ b.number = c.number => b = c
    BY LegacyAssumption DEF place
  <2> HIDE DEF places
  <2>6. LegacyLinks \subseteq Link
    BY <2>1, <2>3, <2>5 DEF Link, FleetIds
  <2>7. ids \subseteq FleetIds
    BY <2>6 DEF Link
  <2>8. LegacyBundles \subseteq Bundle /\ LegacyGraph \subseteq Bundle
    BY <2>3, <2>5, <2>7 DEF Bundle
  <2>9. routerId \in [Names -> 0..MaxId]
    BY <1>4, <2>1, <2>2
  <2>10. FleetTypes
    BY <1>1, <1>4, <2>1, <2>5, <2>6, <2>7, <2>8, <2>9 DEF FleetTypes, LinkIds
  <2>11. \A p \in LegacyLinks : IsPair(p.ends)
    <3> SUFFICES ASSUME NEW p \in LegacyLinks PROVE IsPair(p.ends)
      OBVIOUS
    <3>1. p.ends \subseteq FleetIds /\ Cardinality(p.ends) = 2
      BY <2>3, <2>5
    <3> QED
      BY <3>1, PairOfTwo
  <2>12. TablesSound
    <3>1. LinksSound(peerings) /\ BundlesBelong(peerings, bundles) /\ NumbersUnique(bundles)
      BY <1>4, <2>5, <2>11 DEF LinksSound, BundlesBelong, NumbersUnique
    <3>2. \A p \in peerings : p.id < nextPeering /\ p.ends \subseteq Present
      BY <1>4, <2>1, <2>4, <2>5
    <3> QED
      BY <1>1, <3>1, <3>2 DEF TablesSound
  <2>13. MirrorSound
    BY <1>4, <2>5 DEF MirrorSound, BundlesOf, LinkIds
  <2> QED
    BY <1>2, <2>10, <2>12, <2>13 DEF FleetInv
<1> QED
  BY <1>3, <1>4 DEF FleetInit

\* Every step keeps the invariant.
LEMMA FleetInvKept == FleetInv /\ [FleetNext]_fleetVars => FleetInv'
<1> SUFFICES ASSUME FleetInv, [FleetNext]_fleetVars PROVE FleetInv'
  OBVIOUS
<1>1. CASE \E batch \in RouterBatches : SeedRouters(batch)
  BY <1>1, SeedRoutersKeeps
<1>2. ASSUME NEW q \in Ops, \E batch \in LinkBatches : PrepareSeed(q, batch)
      PROVE  FleetInv'
  BY <1>2, PrepareSeedKeeps
<1>3. ASSUME NEW q \in Ops, \E n \in Names : PrepareDelete(q, n)
      PROVE  FleetInv'
  BY <1>3, PrepareDeleteKeeps
<1>4. ASSUME NEW q \in Ops, SyncFails(q)
      PROVE  FleetInv'
  BY <1>4, SyncFailsKeeps
<1>5. ASSUME NEW q \in Ops, FleetStep(q)
      PROVE  FleetInv'
  BY <1>5, CommitSeedKeeps, CommitRemovalKeeps, RollBackKeeps, FinishOpKeeps, SyncPeeringKeeps,
     UnlinkPeeringKeeps DEF FleetStep
<1>6. CASE ReadBegins \/ ReadEnds \/ AskReset
  BY <1>6, ReadBeginsKeeps, ReadEndsKeeps, AskResetKeeps
<1>7. CASE TruncateFleet \/ ClearGraph \/ RestartFleet \/ RepairBundles
  BY <1>7, TruncateFleetKeeps, ClearGraphKeeps, RestartFleetKeeps, RepairBundlesKeeps
<1>8. CASE UNCHANGED fleetVars
  <2>1. readers' \in 0..Readers /\ faults' \in 0..Faults
    BY <1>8 DEF fleetVars, FleetInv, FleetTypes
  <2> QED
    BY <1>8, <2>1, CountingKeeps DEF fleetVars, fleetTables, sequences
<1> QED
  BY <1>1, <1>2, <1>3, <1>4, <1>5, <1>6, <1>7, <1>8 DEF FleetNext

\* The invariant holds in every behaviour, whatever fairness is assumed.
THEOREM FleetInductive == FleetSpec => []FleetInv
<1>1. FleetInit => FleetInv
  BY FleetInitSound
<1>2. FleetInv /\ [FleetNext]_fleetVars => FleetInv'
  BY FleetInvKept
<1> QED
  BY <1>1, <1>2, PTL DEF FleetSpec

\* Their invariant holds the types.
LEMMA FleetInvTypes == FleetInv => FleetTypeOK
<1> SUFFICES ASSUME FleetInv PROVE FleetTypeOK
  OBVIOUS
<1>1. \A p \in peerings : Cardinality(p.ends) = 2
  BY TwoOfPair DEF FleetInv, TablesSound, LinksSound
<1>2. \A q \in Ops : op[q] \in FleetRequest
  BY DEF FleetInv, FleetTypes
<1> QED
  BY <1>1, <1>2 DEF FleetInv, FleetTypes, FleetTypeOK, FleetRequest

\* All state has its type.
THEOREM FleetTypesHold == FleetSpec => []FleetTypeOK
  BY FleetInvTypes, FleetInductive, PTL

\* What the invariant says of the graph.
LEMMA FleetInvMirrors == FleetInv => TopologyIsMirrored
<1> SUFFICES ASSUME FleetInv, ~ starting PROVE TopologyIsMirrored
  BY DEF TopologyIsMirrored
<1>1. ASSUME NEW p \in peerings
      PROVE  p.ends \subseteq Present /\ {b.router : b \in BundlesOf(p.id, bundles)} = p.ends
  <2>1. \A b \in BundlesOf(p.id, bundles) : b.router \in p.ends
    BY DEF FleetInv, TablesSound, LinksSound, BundlesBelong, BundlesOf
  <2>2. \A r \in p.ends : \E b \in BundlesOf(p.id, bundles) : b.router = r
    BY DEF FleetInv, TablesSound, BundlesComplete, BundlesOf
  <2> QED
    BY <2>1, <2>2 DEF FleetInv, TablesSound
<1>2. \A b, c \in bundles : b.router = c.router /\ b.number = c.number => b = c
  BY DEF FleetInv, TablesSound, NumbersUnique
<1>3. reset # "truncated" =>
        \A id \in FleetIds \ (torn \cup UNION {op[q].todo : q \in Syncing}) :
          BundlesOf(id, graph) = BundlesOf(id, bundles)
  BY DEF FleetInv, MirrorSound
<1> QED
  BY <1>1, <1>2, <1>3 DEF TopologyIsMirrored

\* The graph leads from exactly the bundles of each peering to its span, with the
\* exceptions TopologyIsMirrored names: what correlation reads is what there is.
THEOREM TopologyIsMirroredHolds == FleetSpec => []TopologyIsMirrored
  BY FleetInvMirrors, FleetInductive, PTL

-----------------------------------------------------------------------------
(* NetworkImpact *)

(* Runs of a step *)

Runs(D, step, s, n) == {f \in [0..n -> D] : f[0] = s /\ \A i \in 1..n : f[i] = step[f[i - 1]]}

\* A step can be taken any number of times, from anywhere.
LEMMA RunExists ==
  ASSUME NEW D, NEW step \in [D -> D], NEW s \in D, NEW n \in Nat
  PROVE  Runs(D, step, s, n) # {}
<1> DEFINE IsRun(f, m) == f \in [0..m -> D] /\ f[0] = s /\ \A i \in 1..m : f[i] = step[f[i - 1]]
           S == {m \in Nat : \E f : IsRun(f, m)}
<1>1. 0 \in S
  <2>1. IsRun([i \in 0..0 |-> s], 0)
    OBVIOUS
  <2> QED
    BY <2>1, Zenon
<1>2. ASSUME NEW m \in Nat, m \in S
      PROVE  m + 1 \in S
  <2>1. PICK f : IsRun(f, m)
    BY <1>2
  <2> DEFINE h == [i \in 0..(m + 1) |-> IF i = m + 1 THEN step[f[m]] ELSE f[i]]
  <2>2. h \in [0..(m + 1) -> D] /\ h[0] = s
    BY <2>1
  <2>3. ASSUME NEW i \in 1..(m + 1) PROVE h[i] = step[h[i - 1]]
    <3>1. CASE i = m + 1
      BY <2>1, <3>1
    <3>2. CASE i \in 1..m
      BY <2>1, <3>2
    <3> QED
      BY <3>1, <3>2
  <2>4. IsRun(h, m + 1)
    BY <2>2, <2>3
  <2> HIDE DEF h, IsRun
  <2> QED
    BY <2>4
<1> HIDE DEF S
<1>3. n \in S
  BY <1>1, <1>2, Induct
<1> QED
  BY <1>3 DEF S, Runs

-----------------------------------------------------------------------------
(* The primaries around one *)

Size == Cardinality(Primaries)

\* The mesh has finitely many primaries.
LEMMA SizeType == Size \in Nat /\ IsFiniteSet(Primaries)
  BY ImpactTopologyAssumption, FS_CardinalityType DEF Size

\* Sessions have no direction.
LEMMA Undirected ==
  ASSUME NEW sessions, NEW n \in Primaries, NEW m \in build_established_adjacency(sessions, n)
  PROVE  m \in Primaries /\ n \in build_established_adjacency(sessions, m)
<1>1. {n, m} = {m, n}
  OBVIOUS
<1> QED
  BY <1>1 DEF build_established_adjacency

\* One more session away.
LEMMA WiderIs ==
  ASSUME NEW sessions, NEW ball \in SUBSET Primaries
  PROVE  /\ Wider(sessions, ball) \in SUBSET Primaries
         /\ ball \subseteq Wider(sessions, ball)
         /\ \A n \in ball : build_established_adjacency(sessions, n) \subseteq Wider(sessions, ball)
         /\ \A m \in Wider(sessions, ball) \ ball :
              \E n \in ball : m \in build_established_adjacency(sessions, n)
  BY DEF Wider, build_established_adjacency

\* What the recursion of Around gives.
LEMMA AroundRuns ==
  ASSUME NEW sessions, NEW n \in Primaries
  PROVE  /\ Around(sessions, n) \in [0..Size -> SUBSET Primaries]
         /\ Around(sessions, n)[0] = {n}
         /\ \A k \in 1..Size : Around(sessions, n)[k] = Wider(sessions, Around(sessions, n)[k - 1])
<1> DEFINE step == [ball \in SUBSET Primaries |-> Wider(sessions, ball)]
           Is(g) == g = [k \in 0..Size |-> IF k = 0 THEN {n} ELSE Wider(sessions, g[k - 1])]
<1>1. step \in [SUBSET Primaries -> SUBSET Primaries]
  BY WiderIs
<1>2. PICK f \in [0..Size -> SUBSET Primaries] :
        f[0] = {n} /\ \A i \in 1..Size : f[i] = step[f[i - 1]]
  <2>1. {n} \in SUBSET Primaries /\ Size \in Nat
    BY SizeType
  <2> HIDE DEF step
  <2>2. Runs(SUBSET Primaries, step, {n}, Size) # {}
    BY <1>1, <2>1, RunExists
  <2> QED
    BY <2>2 DEF Runs
<1>3. \A i \in 1..Size : f[i] = Wider(sessions, f[i - 1])
  <2> TAKE i \in 1..Size
  <2>1. f[i - 1] \in SUBSET Primaries
    BY SizeType
  <2> QED
    BY <1>2, <2>1
<1>4. Is(f)
  BY <1>2, <1>3, SizeType
<1>5. Around(sessions, n) = CHOOSE g : Is(g)
  BY DEF Around, Size
<1>6. Is(Around(sessions, n))
  <2> HIDE DEF Is
  <2> QED
    BY <1>4, <1>5
<1> DEFINE g == Around(sessions, n)
<1>7. DOMAIN g = 0..Size /\ g[0] = {n} /\ \A k \in 1..Size : g[k] = Wider(sessions, g[k - 1])
  <2> HIDE DEF g
  <2>1. g = [k \in 0..Size |-> IF k = 0 THEN {n} ELSE Wider(sessions, g[k - 1])]
    BY <1>6 DEF g
  <2>2. DOMAIN g = 0..Size /\ 0 \in 0..Size /\ \A k \in 1..Size : k \in 0..Size /\ k # 0
    BY <2>1, SizeType
  <2>3. \A k \in 0..Size : g[k] = IF k = 0 THEN {n} ELSE Wider(sessions, g[k - 1])
    BY <2>1, Zenon
  <2> QED
    BY <2>2, <2>3
<1> DEFINE S == {k \in Nat : k <= Size => g[k] \in SUBSET Primaries}
<1> HIDE DEF g
<1>8. 0 \in S
  BY <1>7
<1>9. ASSUME NEW k \in Nat, k \in S PROVE k + 1 \in S
  BY <1>7, <1>9, WiderIs, SizeType
<1> HIDE DEF S
<1>10. Nat \subseteq S
  BY <1>8, <1>9, Induct
<1>11. \A k \in 0..Size : g[k] \in SUBSET Primaries
  BY <1>10, SizeType DEF S
<1>12. g \in [0..Size -> SUBSET Primaries]
  <2>1. g = [k \in 0..Size |-> g[k]]
    BY <1>6 DEF g
  <2> QED
    BY <2>1, <1>11
<1> QED
  BY <1>7, <1>12 DEF g

\* A ball holds those before it.
LEMMA BallsGrow ==
  ASSUME NEW sessions, NEW n \in Primaries, NEW i \in 0..Size, NEW j \in 0..Size, i <= j
  PROVE  Around(sessions, n)[i] \subseteq Around(sessions, n)[j]
<1> DEFINE ball == Around(sessions, n)
           S == {k \in Nat : i <= k /\ k <= Size => ball[i] \subseteq ball[k]}
<1>1. /\ ball \in [0..Size -> SUBSET Primaries] /\ Size \in Nat
      /\ \A k \in 1..Size : ball[k] = Wider(sessions, ball[k - 1])
  BY AroundRuns, SizeType
<1> HIDE DEF ball
<1>2. 0 \in S
  BY <1>1
<1>3. ASSUME NEW k \in Nat, k \in S PROVE k + 1 \in S
  <2> SUFFICES ASSUME i <= k + 1, k + 1 <= Size PROVE ball[i] \subseteq ball[k + 1]
    OBVIOUS
  <2>1. CASE i = k + 1
    BY <2>1
  <2>2. CASE i <= k
    <3>1. ball[k + 1] = Wider(sessions, ball[k]) /\ ball[k] \in SUBSET Primaries
      BY <1>1
    <3>2. ball[i] \subseteq ball[k]
      BY <1>1, <1>3, <2>2
    <3> QED
      BY <3>1, <3>2, WiderIs
  <2> QED
    BY <2>1, <2>2
<1> HIDE DEF S
<1>4. Nat \subseteq S
  BY <1>2, <1>3, Induct
<1> QED
  BY <1>1, <1>4 DEF S, ball

\* Where no session leads out of.
Closed(sessions, S) == \A n \in S : build_established_adjacency(sessions, n) \subseteq S

\* A ball is of more primaries than sessions away, or has stopped to grow.
LEMMA BallsFill ==
  ASSUME NEW sessions, NEW n \in Primaries
  PROVE  \A k \in 0..Size :
           LET ball == Around(sessions, n)[k]
           IN  Cardinality(ball) >= k + 1 \/ Wider(sessions, ball) = ball
<1> DEFINE ball == Around(sessions, n)
           Full(k) == Cardinality(ball[k]) >= k + 1 \/ Wider(sessions, ball[k]) = ball[k]
           S == {k \in Nat : k <= Size => Full(k)}
<1> SUFFICES \A k \in 0..Size : Full(k)
  OBVIOUS
<1>1. /\ ball \in [0..Size -> SUBSET Primaries] /\ Size \in Nat /\ ball[0] = {n}
      /\ \A k \in 1..Size : ball[k] = Wider(sessions, ball[k - 1])
  BY AroundRuns, SizeType
<1> HIDE DEF ball
<1>2. \A k \in 0..Size : IsFiniteSet(ball[k]) /\ Cardinality(ball[k]) \in Nat
  <2> TAKE k \in 0..Size
  <2>1. ball[k] \in SUBSET Primaries /\ IsFiniteSet(Primaries)
    BY <1>1, SizeType
  <2>2. IsFiniteSet(ball[k])
    BY <2>1, FS_Subset
  <2> QED
    BY <2>2, FS_CardinalityType
<1>3. 0 \in S
  <2>1. Cardinality(ball[0]) = 1
    BY <1>1, FS_Singleton
  <2> QED
    BY <2>1
<1>4. ASSUME NEW k \in Nat, k \in S PROVE k + 1 \in S
  <2> SUFFICES ASSUME k + 1 <= Size PROVE Full(k + 1)
    OBVIOUS
  <2>1. ball[k + 1] = Wider(sessions, ball[k]) /\ ball[k] \in SUBSET Primaries /\ Full(k)
    BY <1>1, <1>4
  <2>2. CASE Wider(sessions, ball[k]) = ball[k]
    BY <2>1, <2>2
  <2>3. CASE Wider(sessions, ball[k]) # ball[k] /\ Cardinality(ball[k]) >= k + 1
    <3>1. ball[k] \subseteq ball[k + 1] /\ ball[k] # ball[k + 1]
      BY <2>1, <2>3, WiderIs
    <3>2. k \in 0..Size /\ k + 1 \in 0..Size
      BY <1>1
    <3>3. IsFiniteSet(ball[k + 1]) /\ Cardinality(ball[k]) \in Nat /\ Cardinality(ball[k + 1]) \in Nat
      BY <1>2, <3>2
    <3>4. Cardinality(ball[k]) < Cardinality(ball[k + 1])
      BY <3>1, <3>3, FS_Subset
    <3> QED
      BY <2>3, <3>3, <3>4
  <2> QED
    BY <2>1, <2>2, <2>3
<1> HIDE DEF S
<1>5. Nat \subseteq S
  BY <1>3, <1>4, Induct
<1> QED
  BY <1>1, <1>5 DEF S

\* The primaries reached from one are the least closed set it is in.
LEMMA ReachIsLeast ==
  ASSUME NEW sessions, NEW n \in Primaries
  PROVE  /\ ReachedFrom(sessions, n) \in SUBSET Primaries /\ n \in ReachedFrom(sessions, n)
         /\ Closed(sessions, ReachedFrom(sessions, n))
         /\ \A T \in SUBSET Primaries :
              n \in T /\ Closed(sessions, T) => ReachedFrom(sessions, n) \subseteq T
<1> DEFINE ball == Around(sessions, n)
<1>1. /\ ball \in [0..Size -> SUBSET Primaries] /\ Size \in Nat /\ ball[0] = {n}
      /\ \A k \in 1..Size : ball[k] = Wider(sessions, ball[k - 1])
  BY AroundRuns, SizeType
<1>2. ReachedFrom(sessions, n) = ball[Size]
  BY DEF ReachedFrom, Size
<1>3. ball[0] \subseteq ball[Size]
  BY <1>1, BallsGrow
<1>4. Wider(sessions, ball[Size]) = ball[Size]
  <2>1. Cardinality(ball[Size]) \in Nat /\ Cardinality(ball[Size]) <= Size
    BY <1>1, SizeType, FS_Subset, FS_CardinalityType DEF Size
  <2>2. Cardinality(ball[Size]) >= Size + 1 \/ Wider(sessions, ball[Size]) = ball[Size]
    BY <1>1, BallsFill
  <2> QED
    BY <1>1, <2>1, <2>2
<1>5. Closed(sessions, ball[Size])
  BY <1>1, <1>4, WiderIs DEF Closed
<1>6. ASSUME NEW T \in SUBSET Primaries, n \in T, Closed(sessions, T)
      PROVE  ball[Size] \subseteq T
  <2> DEFINE S == {k \in Nat : k <= Size => ball[k] \subseteq T}
  <2> HIDE DEF ball
  <2>1. 0 \in S
    BY <1>1, <1>6
  <2>2. ASSUME NEW k \in Nat, k \in S PROVE k + 1 \in S
    <3> SUFFICES ASSUME k + 1 <= Size PROVE ball[k + 1] \subseteq T
      OBVIOUS
    <3>1. ball[k + 1] = Wider(sessions, ball[k]) /\ ball[k] \in SUBSET Primaries /\ ball[k] \subseteq T
      BY <1>1, <2>2
    <3>2. \A m \in ball[k + 1] \ ball[k] : \E j \in T : m \in build_established_adjacency(sessions, j)
      BY <3>1, WiderIs
    <3> QED
      BY <1>6, <3>1, <3>2 DEF Closed
  <2> HIDE DEF S
  <2>3. Nat \subseteq S
    BY <2>1, <2>2, Induct
  <2> QED
    BY <1>1, <2>3 DEF S
<1> QED
  BY <1>1, <1>2, <1>3, <1>5, <1>6

\* Who is reached reaches the same.
LEMMA ReachIsMutual ==
  ASSUME NEW sessions, NEW n \in Primaries, NEW m \in ReachedFrom(sessions, n)
  PROVE  ReachedFrom(sessions, m) = ReachedFrom(sessions, n)
<1> DEFINE near == ReachedFrom(sessions, n)
           far == ReachedFrom(sessions, m)
<1>1. m \in Primaries /\ near \in SUBSET Primaries /\ n \in near /\ Closed(sessions, near)
  BY ReachIsLeast
<1>2. /\ far \in SUBSET Primaries /\ m \in far /\ Closed(sessions, far) /\ far \subseteq near
  BY <1>1, ReachIsLeast
<1>3. n \in far
  <2> SUFFICES ASSUME n \notin far PROVE FALSE
    OBVIOUS
  <2>1. Closed(sessions, Primaries \ far)
    BY <1>2, Undirected DEF Closed
  <2>2. near \subseteq Primaries \ far
    BY <2>1, ReachIsLeast
  <2> QED
    BY <1>2, <2>2
<1>4. near \subseteq far
  BY <1>2, <1>3, ReachIsLeast
<1> QED
  BY <1>2, <1>4

-----------------------------------------------------------------------------
(* The stack search *)

StackSearch == [stack : SUBSET Primaries, component : SUBSET Primaries]

\* A step of the search takes a node off the stack and puts its new neighbours on it.
LEMMA PopIs ==
  ASSUME NEW sessions, NEW search \in StackSearch
  PROVE  /\ PopNode(sessions, search) \in StackSearch
         /\ search.stack = {} => PopNode(sessions, search) = search
         /\ search.stack # {} =>
              \E node \in search.stack :
                LET beside == build_established_adjacency(sessions, node)
                IN  /\ PopNode(sessions, search).stack
                         = (search.stack \ {node}) \cup (beside \ search.component)
                    /\ PopNode(sessions, search).component = search.component \cup beside
<1>1. CASE search.stack = {}
  BY <1>1 DEF PopNode
<1>2. CASE search.stack # {}
  <2> DEFINE node == CHOOSE n \in search.stack : TRUE
             beside == build_established_adjacency(sessions, node)
             next == [stack |-> (search.stack \ {node}) \cup (beside \ search.component),
                      component |-> search.component \cup (beside \ search.component)]
  <2>1. node \in search.stack /\ beside \subseteq Primaries
    BY <1>2 DEF build_established_adjacency
  <2>2. PopNode(sessions, search) = next
    BY <1>2 DEF PopNode
  <2> HIDE DEF node
  <2>3. next \in StackSearch /\ next.component = search.component \cup beside
    BY <2>1 DEF StackSearch
  <2> QED
    BY <1>2, <2>1, <2>2, <2>3
<1> QED
  BY <1>1, <1>2

\* What the recursion of Component gives.
StackRun(sessions, n, run) ==
  /\ run \in [0..Size -> StackSearch]
  /\ run[0] = [stack |-> {n}, component |-> {n}]
  /\ \A k \in 1..Size : run[k] = PopNode(sessions, run[k - 1])

\* Component is the end of such a run.
LEMMA ComponentRuns ==
  ASSUME NEW sessions, NEW n \in Primaries
  PROVE  \E run : StackRun(sessions, n, run) /\ Component(sessions, n) = run[Size].component
<1> DEFINE start == [stack |-> {n}, component |-> {n}]
           step == [search \in StackSearch |-> PopNode(sessions, search)]
           Is(g) == g = [k \in 0..Size |-> IF k = 0 THEN start ELSE PopNode(sessions, g[k - 1])]
           run == CHOOSE g : Is(g)
<1>1. start \in StackSearch /\ step \in [StackSearch -> StackSearch]
  BY PopIs DEF StackSearch
<1>2. PICK f \in [0..Size -> StackSearch] :
        f[0] = start /\ \A i \in 1..Size : f[i] = step[f[i - 1]]
  <2> HIDE DEF step, start
  <2>1. Runs(StackSearch, step, start, Size) # {}
    BY <1>1, SizeType, RunExists
  <2> QED
    BY <2>1 DEF Runs
<1>3. \A i \in 1..Size : f[i] = PopNode(sessions, f[i - 1])
  <2> TAKE i \in 1..Size
  <2>1. f[i - 1] \in StackSearch
    BY SizeType
  <2> QED
    BY <1>2, <2>1
<1>4. Is(f)
  <2> HIDE DEF start
  <2> QED
    BY <1>2, <1>3, SizeType
<1>5. Component(sessions, n) = run[Size].component
  BY DEF Component, Size
<1>6. Is(run)
  <2> HIDE DEF Is
  <2> QED
    BY <1>4
<1> HIDE DEF run, start
<1>7. DOMAIN run = 0..Size /\ run[0] = start /\ \A k \in 1..Size : run[k] = PopNode(sessions, run[k - 1])
  <2>1. \A k \in 0..Size : run[k] = IF k = 0 THEN start ELSE PopNode(sessions, run[k - 1])
    BY <1>6, Zenon
  <2>2. 0 \in 0..Size /\ \A k \in 1..Size : k \in 0..Size /\ k # 0
    BY SizeType
  <2> QED
    BY <1>6, <2>1, <2>2
<1> DEFINE S == {k \in Nat : k <= Size => run[k] \in StackSearch}
<1>8. 0 \in S
  BY <1>1, <1>7
<1>9. ASSUME NEW k \in Nat, k \in S PROVE k + 1 \in S
  BY <1>7, <1>9, PopIs, SizeType
<1> HIDE DEF S
<1>10. Nat \subseteq S
  BY <1>8, <1>9, Induct
<1>11. \A k \in 0..Size : run[k] \in StackSearch
  BY <1>10, SizeType DEF S
<1>12. run \in [0..Size -> StackSearch]
  BY <1>6, <1>11
<1> QED
  BY <1>5, <1>7, <1>12 DEF StackRun, start

\* What holds of the search when k nodes have been taken off its stack.
StackSound(sessions, n, search, k) ==
  /\ n \in search.component /\ search.component \subseteq ReachedFrom(sessions, n)
  /\ search.stack \subseteq search.component
  /\ \A m \in search.component \ search.stack :
       build_established_adjacency(sessions, m) \subseteq search.component
  /\ search.stack = {} \/ Cardinality(search.component \ search.stack) >= k

\* The search keeps it.
LEMMA PopKeeps ==
  ASSUME NEW sessions, NEW n \in Primaries, NEW k \in Nat, NEW search \in StackSearch,
         StackSound(sessions, n, search, k)
  PROVE  StackSound(sessions, n, PopNode(sessions, search), k + 1)
<1>1. CASE search.stack = {}
  BY <1>1, PopIs DEF StackSound
<1>2. CASE search.stack # {}
  <2> DEFINE Beside(m) == build_established_adjacency(sessions, m)
             next == PopNode(sessions, search)
             done == search.component \ search.stack
  <2>1. PICK node \in search.stack :
          /\ next.stack = (search.stack \ {node}) \cup (Beside(node) \ search.component)
          /\ next.component = search.component \cup Beside(node)
    BY <1>2, PopIs
  <2>2. next \in StackSearch
    BY PopIs
  <2> HIDE DEF next
  <2>3. /\ node \in search.component /\ search.component \subseteq ReachedFrom(sessions, n)
        /\ n \in search.component /\ search.stack \subseteq search.component
        /\ \A m \in done : Beside(m) \subseteq search.component
    BY DEF StackSound
  <2>4. Beside(node) \subseteq ReachedFrom(sessions, n)
    BY <2>3, ReachIsLeast DEF Closed
  <2>5. next.component \ next.stack = done \cup {node}
    BY <2>1, <2>3
  <2>6. Cardinality(done \cup {node}) >= k + 1
    <3>1. done \in SUBSET Primaries /\ node \notin done
      BY DEF StackSearch
    <3>2. IsFiniteSet(done)
      BY <3>1, SizeType, FS_Subset
    <3>3. Cardinality(done) \in Nat /\ Cardinality(done) >= k
      BY <1>2, <3>2, FS_CardinalityType DEF StackSound
    <3> HIDE DEF done
    <3>4. Cardinality(done \cup {node}) = Cardinality(done) + 1
      BY <3>1, <3>2, FS_AddElement
    <3> QED
      BY <3>3, <3>4
  <2>7. \A m \in done \cup {node} : Beside(m) \subseteq next.component
    BY <2>1, <2>3
  <2>8. next.stack \subseteq next.component
    BY <2>1, <2>3
  <2>9. StackSound(sessions, n, next, k + 1)
    <3>1. n \in next.component /\ next.component \subseteq ReachedFrom(sessions, n)
      BY <2>1, <2>3, <2>4
    <3> HIDE DEF done
    <3> QED
      BY <2>5, <2>6, <2>7, <2>8, <3>1 DEF StackSound
  <2> QED
    BY <2>9 DEF next
<1> QED
  BY <1>1, <1>2

\* The component collected from a primary is what it reaches, in whatever order the
\* neighbours of a node are looked at.
LEMMA ComponentIsReach ==
  ASSUME NEW sessions, NEW n \in Primaries
  PROVE  Component(sessions, n) = ReachedFrom(sessions, n)
<1>1. PICK run : StackRun(sessions, n, run) /\ Component(sessions, n) = run[Size].component
  BY ComponentRuns
<1> DEFINE S == {k \in Nat : k <= Size => StackSound(sessions, n, run[k], k)}
<1>2. 0 \in S
  <2>1. IsFiniteSet({}) /\ Cardinality({}) = 0 /\ {n} \ {n} = {}
    BY FS_EmptySet
  <2>2. run[0].component = {n} /\ run[0].stack = {n}
    BY <1>1 DEF StackRun
  <2>3. StackSound(sessions, n, run[0], 0)
    BY <2>1, <2>2, ReachIsLeast DEF StackSound
  <2> QED
    BY <2>3
<1>3. ASSUME NEW k \in Nat, k \in S PROVE k + 1 \in S
  <2> SUFFICES ASSUME k + 1 <= Size PROVE StackSound(sessions, n, run[k + 1], k + 1)
    OBVIOUS
  <2>1. run[k] \in StackSearch /\ run[k + 1] = PopNode(sessions, run[k])
    BY <1>1, SizeType DEF StackRun
  <2>2. StackSound(sessions, n, run[k], k)
    BY <1>3, SizeType
  <2> QED
    BY <2>1, <2>2, PopKeeps
<1> HIDE DEF S
<1>4. Nat \subseteq S
  BY <1>2, <1>3, Induct
<1> DEFINE end == run[Size]
<1>5. StackSound(sessions, n, end, Size) /\ end \in StackSearch
  BY <1>1, <1>4, SizeType DEF S, StackRun
<1> HIDE DEF end
<1>6. end.stack = {}
  <2> SUFFICES ASSUME end.stack # {} PROVE FALSE
    OBVIOUS
  <2> DEFINE done == end.component \ end.stack
  <2>1. done \in SUBSET Primaries /\ Cardinality(done) >= Size /\ end.stack \subseteq Primaries
    BY <1>5 DEF StackSound, StackSearch
  <2> HIDE DEF done
  <2>2. Cardinality(done) \in Nat /\ Cardinality(done) <= Size /\ (Cardinality(done) = Size => done = Primaries)
    <3>1. IsFiniteSet(done)
      BY <2>1, SizeType, FS_Subset
    <3> QED
      BY <2>1, <3>1, SizeType, FS_Subset, FS_CardinalityType DEF Size
  <2>3. done = Primaries
    BY <2>1, <2>2, SizeType
  <2> QED
    BY <2>1, <2>3 DEF done
<1>7. Closed(sessions, end.component) /\ n \in end.component /\ end.component \in SUBSET Primaries
  BY <1>5, <1>6 DEF StackSound, Closed, StackSearch
<1>8. ReachedFrom(sessions, n) \subseteq end.component
  BY <1>7, ReachIsLeast
<1> QED
  BY <1>1, <1>5, <1>8 DEF StackSound, end

-----------------------------------------------------------------------------
(* Isolation *)

\* Sessions of the mesh: between two of its primaries.
LEMMA MeshedIs ==
  ASSUME NEW sessions \in SUBSET Mesh
  PROVE  /\ Meshed \subseteq Primaries /\ Linked(sessions) \subseteq Meshed
         /\ IsFiniteSet(Meshed) /\ Cardinality(Meshed) \in Nat
<1>1. Meshed \in SUBSET Primaries
  BY ImpactTopologyAssumption DEF Meshed
<1>2. IsFiniteSet(Meshed) /\ Cardinality(Meshed) \in Nat
  BY <1>1, SizeType, FS_Subset, FS_CardinalityType
<1>3. ASSUME NEW n \in Linked(sessions) PROVE n \in Meshed
  <2>1. PICK m \in Primaries : {n, m} \in sessions
    BY <1>3 DEF Linked, build_established_adjacency
  <2> QED
    BY <2>1 DEF Meshed
<1> QED
  BY <1>1, <1>2, <1>3

\* From a primary with a session, one reaches only those that have one; from one
\* without, none.
LEMMA LinkedReachLinked ==
  ASSUME NEW sessions, NEW n \in Primaries
  PROVE  /\ n \in Linked(sessions) => ReachedFrom(sessions, n) \subseteq Linked(sessions)
         /\ n \notin Linked(sessions) => ReachedFrom(sessions, n) = {n}
<1>1. Closed(sessions, Linked(sessions)) /\ Linked(sessions) \in SUBSET Primaries
  BY Undirected DEF Closed, Linked
<1>2. CASE n \in Linked(sessions)
  BY <1>1, <1>2, ReachIsLeast
<1>3. CASE n \notin Linked(sessions)
  <2>1. Closed(sessions, {n}) /\ {n} \in SUBSET Primaries
    BY <1>3 DEF Closed, Linked
  <2> QED
    BY <1>3, <2>1, ReachIsLeast
<1> QED
  BY <1>2, <1>3

\* The components are what the primaries with a session reach.
LEMMA ComponentsAre ==
  ASSUME NEW sessions \in SUBSET Mesh
  PROVE  /\ \A n \in Linked(sessions) : ReachedFrom(sessions, n) \in Components(sessions)
         /\ \A c \in Components(sessions) :
              /\ c \subseteq Linked(sessions) /\ c \in SUBSET Meshed
              /\ \A n \in c : ReachedFrom(sessions, n) = c
<1>1. Linked(sessions) \subseteq Primaries
  BY DEF Linked
<1>2. ASSUME NEW n \in Linked(sessions) PROVE ReachedFrom(sessions, n) \in Components(sessions)
  <2>1. Component(sessions, n) = ReachedFrom(sessions, n)
    BY <1>1, ComponentIsReach
  <2> QED
    BY <2>1 DEF Components
<1>3. ASSUME NEW c \in Components(sessions)
      PROVE  /\ c \subseteq Linked(sessions) /\ c \in SUBSET Meshed
             /\ \A n \in c : ReachedFrom(sessions, n) = c
  <2>1. PICK n \in Linked(sessions) : c = Component(sessions, n)
    BY <1>3 DEF Components
  <2>2. c = ReachedFrom(sessions, n) /\ n \in Primaries
    BY <1>1, <2>1, ComponentIsReach
  <2> QED
    BY <2>1, <2>2, LinkedReachLinked, MeshedIs, ReachIsMutual
<1> QED
  BY <1>2, <1>3

\* The backbone is a component no other is larger than, or there is none.
LEMMA LargestIs ==
  ASSUME NEW sessions \in SUBSET Mesh, NEW largest \in LargestComponents(sessions)
  PROVE  \/ largest = {} /\ Linked(sessions) = {}
         \/ /\ largest \in Components(sessions)
            /\ \A d \in Components(sessions) : Cardinality(d) <= Cardinality(largest)
  BY DEF LargestComponents, Components

\* A primary is cut off exactly if it cannot reach the backbone, from any mesh.
LEMMA IsolationFollows == ImpactTypeOK => IsolationIsReachability
<1> SUFFICES ASSUME ImpactTypeOK, NEW largest \in LargestComponents(established)
             PROVE  LET isolated == _isolated_primary_ids(largest)
                    IN  /\ isolated \subseteq Meshed
                        /\ \A n \in Meshed \ isolated :
                             ReachedFrom(established, n) = Meshed \ isolated
                        /\ \A n \in isolated \cap Linked(established) :
                             Cardinality(ReachedFrom(established, n)) <= Cardinality(Meshed \ isolated)
  BY DEF IsolationIsReachability
<1> DEFINE isolated == _isolated_primary_ids(largest)
<1>1. established \in SUBSET Mesh
  BY DEF ImpactTypeOK
<1>2. CASE largest = {} /\ Linked(established) = {}
  <2>1. isolated = Meshed
    BY <1>2 DEF _isolated_primary_ids
  <2> QED
    BY <1>2, <2>1
<1>3. CASE /\ largest \in Components(established)
           /\ \A d \in Components(established) : Cardinality(d) <= Cardinality(largest)
  <2>1. largest \subseteq Meshed /\ \A n \in largest : ReachedFrom(established, n) = largest
    BY <1>1, <1>3, ComponentsAre
  <2>2. isolated \subseteq Meshed /\ Meshed \ isolated = largest
    BY <2>1 DEF _isolated_primary_ids
  <2>3. \A n \in Linked(established) :
          Cardinality(ReachedFrom(established, n)) <= Cardinality(largest)
    BY <1>1, <1>3, ComponentsAre
  <2> HIDE DEF isolated
  <2>4. /\ \A n \in Meshed \ isolated : ReachedFrom(established, n) = Meshed \ isolated
        /\ \A n \in isolated \cap Linked(established) :
             Cardinality(ReachedFrom(established, n)) <= Cardinality(Meshed \ isolated)
    BY <2>1, <2>2, <2>3
  <2> QED
    BY <2>2, <2>4 DEF isolated
<1> QED
  BY <1>1, <1>2, <1>3, LargestIs

\* A component of more than half of the mesh is the backbone: two that differ are disjoint.
LEMMA MajorityIsBackbone ==
  ASSUME NEW sessions \in SUBSET Mesh, NEW c \in Components(sessions),
         2 * Cardinality(c) > Cardinality(Meshed)
  PROVE  LargestComponents(sessions) = {c}
<1>1. \A d \in Components(sessions) : d \in SUBSET Meshed /\ IsFiniteSet(d) /\ Cardinality(d) \in Nat
  <2> TAKE d \in Components(sessions)
  <2>1. d \in SUBSET Meshed
    BY ComponentsAre
  <2>2. IsFiniteSet(d)
    BY <2>1, MeshedIs, FS_Subset
  <2> QED
    BY <2>1, <2>2, FS_CardinalityType
<1>2. ASSUME NEW d \in Components(sessions), d # c
      PROVE  Cardinality(d) < Cardinality(c)
  <2>1. c \cap d = {}
    <3> SUFFICES ASSUME NEW n \in c \cap d PROVE FALSE
      OBVIOUS
    <3>1. ReachedFrom(sessions, n) = c /\ ReachedFrom(sessions, n) = d
      BY ComponentsAre
    <3> QED
      BY <1>2, <3>1
  <2>2. Cardinality(c \cup d) = Cardinality(c) + Cardinality(d)
    <3>1. Cardinality(c \cup d) = Cardinality(c) + Cardinality(d) - Cardinality(c \cap d)
      BY <1>1, FS_Union
    <3>2. Cardinality(c \cap d) = 0
      BY <2>1, FS_EmptySet
    <3> QED
      BY <1>1, <3>1, <3>2
  <2>3. c \cup d \in SUBSET Meshed
    BY <1>1
  <2>4. Cardinality(c \cup d) <= Cardinality(Meshed)
    BY <2>3, MeshedIs, FS_Subset
  <2> QED
    BY <1>1, <2>2, <2>4, MeshedIs
<1>3. \A d \in Components(sessions) : Cardinality(d) <= Cardinality(c)
  BY <1>1, <1>2
<1>4. ASSUME NEW d \in Components(sessions), \A e \in Components(sessions) : Cardinality(e) <= Cardinality(d)
      PROVE  d = c
  BY <1>1, <1>2, <1>4
<1> QED
  BY <1>3, <1>4 DEF LargestComponents

\* With fewer sessions, no primary reaches more.
LEMMA FewerReachLess ==
  ASSUME NEW sessions, NEW fewer \in SUBSET sessions, NEW n \in Primaries
  PROVE  ReachedFrom(fewer, n) \subseteq ReachedFrom(sessions, n)
<1>1. Closed(fewer, ReachedFrom(sessions, n))
  BY ReachIsLeast DEF Closed, build_established_adjacency
<1> QED
  BY <1>1, ReachIsLeast

\* A smaller backbone leaves more customers without service.
LEMMA SmallerBackboneCutsMore ==
  ASSUME NEW large, NEW small \in SUBSET large
  PROVE  DownOf(large) \subseteq DownOf(small)
<1>1. cut_off(large) \subseteq cut_off(small)
  BY DEF cut_off, _isolated_primary_ids
<1>2. \A i \in candidates : DownCustomersOf(i, large) \subseteq DownCustomersOf(i, small)
  BY <1>1 DEF DownCustomersOf
<1> QED
  BY <1>2 DEF DownOf

\* While a component of more than half of the mesh is left, a session that fails only
\* adds to the customers that are down.
LEMMA ImpactFollows == ImpactTypeOK => ImpactFollowsSessions
<1> SUFFICES ASSUME ImpactTypeOK, NEW p \in established, HasMajority(established \ {p})
             PROVE  ShownDown(established) \subseteq ShownDown(established \ {p})
  BY DEF ImpactFollowsSessions
<1> DEFINE fewer == established \ {p}
<1>1. established \in SUBSET Mesh /\ fewer \in SUBSET Mesh /\ fewer \in SUBSET established
  BY DEF ImpactTypeOK
<1>2. PICK small \in Components(fewer) : 2 * Cardinality(small) > Cardinality(Meshed)
  BY DEF HasMajority
<1> HIDE DEF fewer
<1>3. LargestComponents(fewer) = {small}
  BY <1>1, <1>2, MajorityIsBackbone
<1>4. small # {} /\ small \subseteq Linked(fewer) /\ \A n \in small : ReachedFrom(fewer, n) = small
  <2>1. Cardinality(small) # 0
    <3>1. Cardinality(Meshed) \in Nat
      BY <1>1, MeshedIs
    <3> QED
      BY <1>2, <3>1
  <2> QED
    BY <1>1, <2>1, FS_EmptySet, ComponentsAre
<1>5. PICK n : n \in small
  BY <1>4
<1>6. n \in Primaries /\ n \in Linked(established)
  BY <1>1, <1>4, <1>5 DEF Linked, build_established_adjacency
<1> DEFINE large == ReachedFrom(established, n)
<1>7. large \in Components(established) /\ small \in SUBSET large
  BY <1>1, <1>4, <1>5, <1>6, ComponentsAre, FewerReachLess
<1>8. 2 * Cardinality(large) > Cardinality(Meshed)
  <2>1. large \in SUBSET Meshed
    BY <1>1, <1>7, ComponentsAre
  <2> HIDE DEF large
  <2>2. IsFiniteSet(large)
    BY <1>1, <2>1, MeshedIs, FS_Subset
  <2>3. Cardinality(small) <= Cardinality(large) /\ Cardinality(large) \in Nat
    BY <1>7, <2>2, FS_Subset, FS_CardinalityType
  <2>4. IsFiniteSet(small)
    BY <1>7, <2>2, FS_Subset
  <2>5. Cardinality(small) \in Nat /\ Cardinality(Meshed) \in Nat
    BY <1>1, <2>4, FS_CardinalityType, MeshedIs
  <2> QED
    BY <1>2, <2>3, <2>5
<1> HIDE DEF large
<1>9. LargestComponents(established) = {large}
  BY <1>1, <1>7, <1>8, MajorityIsBackbone
<1>10. DownOf(large) \subseteq DownOf(small)
  BY <1>7, SmallerBackboneCutsMore
<1>11. ShownDown(established) = DownOf(large) /\ ShownDown(fewer) = DownOf(small)
  BY <1>3, <1>9 DEF ShownDown
<1> QED
  BY <1>10, <1>11 DEF fewer

-----------------------------------------------------------------------------
(* The breadth-first search *)

\* The paths from a of k sessions.
IsPath(sessions, a, path, k) ==
  /\ path \in Seq(Primaries) /\ Len(path) = k + 1 /\ path[1] = a
  /\ \A i \in 1..k : {path[i], path[i + 1]} \in sessions

\* The last router of a path.
End(path) == path[Len(path)]

\* A path goes on over a session of its last router.
LEMMA PathGoesOn ==
  ASSUME NEW sessions, NEW a, NEW k \in Nat, NEW path, IsPath(sessions, a, path, k),
         NEW m \in build_established_adjacency(sessions, path[Len(path)])
  PROVE  IsPath(sessions, a, Append(path, m), k + 1) /\ End(Append(path, m)) = m
<1>1. m \in Primaries /\ {path[Len(path)], m} \in sessions
  BY DEF build_established_adjacency
<1>2. path \in Seq(Primaries) /\ Len(path) = k + 1
  BY DEF IsPath
<1> DEFINE longer == Append(path, m)
<1>3. /\ longer \in Seq(Primaries) /\ Len(longer) = k + 2 /\ longer[k + 2] = m
      /\ \A i \in 1..(k + 1) : longer[i] = path[i]
  BY <1>1, <1>2
<1> HIDE DEF longer
<1>4. longer[1] = a
  BY <1>3 DEF IsPath
<1>5. \A i \in 1..(k + 1) : {longer[i], longer[i + 1]} \in sessions
  <2> TAKE i \in 1..(k + 1)
  <2>1. CASE i = k + 1
    <3>1. longer[i] = path[Len(path)] /\ longer[i + 1] = m
      BY <1>2, <1>3, <2>1
    <3> QED
      BY <1>1, <3>1
  <2>2. CASE i \in 1..k
    <3>1. longer[i] = path[i] /\ longer[i + 1] = path[i + 1]
      BY <1>3, <2>2
    <3> QED
      BY <2>2, <3>1 DEF IsPath
  <2> QED
    BY <2>1, <2>2
<1> QED
  BY <1>3, <1>4, <1>5 DEF IsPath, End, longer

PathSearch == [queue : SUBSET Seq(Primaries), visited : SUBSET Primaries]

\* A level of the search is made of paths that go on to routers not visited.
LEMMA DeeperIs ==
  ASSUME NEW sessions, NEW search \in PathSearch
  PROVE  /\ Deeper(sessions, search) \in PathSearch
         /\ \A path : path \in Deeper(sessions, search).queue <=>
              \E q \in search.queue : \E m \in build_established_adjacency(sessions, q[Len(q)]) :
                m \notin search.visited /\ path = Append(q, m)
         /\ \A m : m \in Deeper(sessions, search).visited <=>
              \/ m \in search.visited
              \/ \E q \in search.queue : m \in build_established_adjacency(sessions, q[Len(q)])
<1> DEFINE Beside(path) == build_established_adjacency(sessions, path[Len(path)])
           fresh == (UNION {Beside(path) : path \in search.queue}) \ search.visited
           queue == UNION {{Append(path, n) : n \in fresh \cap Beside(path)} : path \in search.queue}
           next == [queue |-> queue, visited |-> search.visited \cup fresh]
<1>1. Deeper(sessions, search) = next
  BY DEF Deeper
<1>2. \A path : Beside(path) \subseteq Primaries
  BY DEF build_established_adjacency
<1>3. fresh \subseteq Primaries
  BY <1>2
<1>4. \A path : path \in queue <=>
        \E q \in search.queue : \E m \in Beside(q) : m \notin search.visited /\ path = Append(q, m)
  <2>1. \A q \in search.queue : \A m :
          m \in fresh \cap Beside(q) <=> m \in Beside(q) /\ m \notin search.visited
    OBVIOUS
  <2> HIDE DEF fresh, Beside
  <2> QED
    BY <2>1
<1>5. queue \subseteq Seq(Primaries)
  <2>1. \A q \in search.queue : q \in Seq(Primaries)
    BY DEF PathSearch
  <2> HIDE DEF queue
  <2> QED
    BY <1>2, <1>4, <2>1
<1>6. \A m : m \in search.visited \cup fresh <=>
        m \in search.visited \/ \E q \in search.queue : m \in Beside(q)
  <2> HIDE DEF Beside
  <2> QED
    OBVIOUS
<1> HIDE DEF queue, fresh
<1>7. next \in PathSearch
  BY <1>3, <1>5 DEF PathSearch
<1> QED
  BY <1>1, <1>4, <1>6, <1>7

\* Search is a run of such steps.
LEMMA SearchRuns ==
  ASSUME NEW sessions, NEW n \in Primaries
  PROVE  /\ Search(sessions, n) \in [0..Size -> PathSearch]
         /\ Search(sessions, n)[0] = [queue |-> {<<n>>}, visited |-> {n}]
         /\ \A k \in 1..Size : Search(sessions, n)[k] = Deeper(sessions, Search(sessions, n)[k - 1])
<1> DEFINE start == [queue |-> {<<n>>}, visited |-> {n}]
           step == [search \in PathSearch |-> Deeper(sessions, search)]
           Is(g) == g = [k \in 0..Size |-> IF k = 0 THEN start ELSE Deeper(sessions, g[k - 1])]
           run == Search(sessions, n)
<1>1. start \in PathSearch /\ step \in [PathSearch -> PathSearch]
  <2>1. <<n>> \in Seq(Primaries)
    OBVIOUS
  <2> QED
    BY <2>1, DeeperIs DEF PathSearch
<1>2. PICK f \in [0..Size -> PathSearch] :
        f[0] = start /\ \A i \in 1..Size : f[i] = step[f[i - 1]]
  <2> HIDE DEF step, start
  <2>1. Runs(PathSearch, step, start, Size) # {}
    BY <1>1, SizeType, RunExists
  <2> QED
    BY <2>1 DEF Runs
<1>3. \A i \in 1..Size : f[i] = Deeper(sessions, f[i - 1])
  <2> TAKE i \in 1..Size
  <2>1. f[i - 1] \in PathSearch
    BY SizeType
  <2> QED
    BY <1>2, <2>1
<1>4. Is(f)
  <2> HIDE DEF start
  <2> QED
    BY <1>2, <1>3, SizeType
<1>5. Search(sessions, n) = CHOOSE g : Is(g)
  BY DEF Search, Size
<1>6. Is(run)
  <2> HIDE DEF Is
  <2> QED
    BY <1>4, <1>5
<1> HIDE DEF run, start
<1>7. DOMAIN run = 0..Size /\ run[0] = start /\ \A k \in 1..Size : run[k] = Deeper(sessions, run[k - 1])
  <2>1. \A k \in 0..Size : run[k] = IF k = 0 THEN start ELSE Deeper(sessions, run[k - 1])
    BY <1>6, Zenon
  <2>2. 0 \in 0..Size /\ \A k \in 1..Size : k \in 0..Size /\ k # 0
    BY SizeType
  <2> QED
    BY <1>6, <2>1, <2>2
<1> DEFINE S == {k \in Nat : k <= Size => run[k] \in PathSearch}
<1>8. 0 \in S
  BY <1>1, <1>7
<1>9. ASSUME NEW k \in Nat, k \in S PROVE k + 1 \in S
  BY <1>7, <1>9, DeeperIs, SizeType
<1> HIDE DEF S
<1>10. Nat \subseteq S
  BY <1>8, <1>9, Induct
<1>11. \A k \in 0..Size : run[k] \in PathSearch
  BY <1>10, SizeType DEF S
<1>12. run \in [0..Size -> PathSearch]
  BY <1>6, <1>11
<1> QED
  BY <1>7, <1>12 DEF run, start

\* After k levels the search has visited what is within k sessions, its queue holds paths
\* of k sessions, and one of these leads to each router that is first reached by k.
LevelSound(sessions, a, k) ==
  LET ball == Around(sessions, a)
      search == Search(sessions, a)[k]
  IN  /\ search.visited = ball[k]
      /\ \A q \in search.queue : IsPath(sessions, a, q, k) /\ End(q) \in ball[k]
      /\ \A m \in ball[k] : k = 0 \/ m \notin ball[k - 1] => \E q \in search.queue : End(q) = m

\* A router that is first reached one session on is beside one at the end of a path.
LEMMA FreshIsBesideEnd ==
  ASSUME NEW sessions, NEW a \in Primaries, NEW k \in 0..Size, LevelSound(sessions, a, k),
         NEW m \in Wider(sessions, Around(sessions, a)[k]) \ Around(sessions, a)[k]
  PROVE  \E q \in Search(sessions, a)[k].queue : m \in build_established_adjacency(sessions, q[Len(q)])
<1> DEFINE ball == Around(sessions, a)
<1>1. /\ ball \in [0..Size -> SUBSET Primaries] /\ Size \in Nat
      /\ \A i \in 1..Size : ball[i] = Wider(sessions, ball[i - 1])
  BY AroundRuns, SizeType
<1>2. PICK n \in ball[k] : m \in build_established_adjacency(sessions, n)
  <2>1. ball[k] \in SUBSET Primaries
    BY <1>1
  <2> QED
    BY <2>1, WiderIs
<1>3. k = 0 \/ n \notin ball[k - 1]
  <2> SUFFICES ASSUME k # 0, n \in ball[k - 1] PROVE FALSE
    OBVIOUS
  <2>1. ball[k] = Wider(sessions, ball[k - 1]) /\ ball[k - 1] \in SUBSET Primaries
    BY <1>1
  <2>2. m \in ball[k]
    BY <1>2, <2>1, WiderIs
  <2> QED
    BY <2>2
<1>4. PICK q \in Search(sessions, a)[k].queue : End(q) = n
  BY <1>3 DEF LevelSound
<1> QED
  BY <1>2, <1>4 DEF End

\* Every level of the search is such.
LEMMA SearchSound ==
  ASSUME NEW sessions, NEW a \in Primaries
  PROVE  \A k \in 0..Size : LevelSound(sessions, a, k)
<1> DEFINE ball == Around(sessions, a)
           search == Search(sessions, a)
           Beside(n) == build_established_adjacency(sessions, n)
           S == {k \in Nat : k <= Size => LevelSound(sessions, a, k)}
<1>1. /\ ball \in [0..Size -> SUBSET Primaries] /\ Size \in Nat /\ ball[0] = {a}
      /\ \A k \in 1..Size : ball[k] = Wider(sessions, ball[k - 1])
  BY AroundRuns, SizeType
<1>2. /\ search \in [0..Size -> PathSearch] /\ search[0] = [queue |-> {<<a>>}, visited |-> {a}]
      /\ \A k \in 1..Size : search[k] = Deeper(sessions, search[k - 1])
  BY SearchRuns
<1>3. 0 \in S
  <2>1. search[0].queue = {<<a>>} /\ search[0].visited = {a}
    BY <1>2
  <2>2. IsPath(sessions, a, <<a>>, 0) /\ End(<<a>>) = a
    BY DEF IsPath, End
  <2> QED
    BY <1>1, <2>1, <2>2 DEF LevelSound
<1>4. ASSUME NEW k \in Nat, k \in S PROVE k + 1 \in S
  <2> SUFFICES ASSUME k + 1 <= Size PROVE LevelSound(sessions, a, k + 1)
    OBVIOUS
  <2>1. k \in 0..Size /\ k + 1 \in 1..Size /\ LevelSound(sessions, a, k)
    BY <1>1, <1>4
  <2>2. /\ search[k] \in PathSearch /\ search[k + 1] = Deeper(sessions, search[k])
        /\ ball[k] \in SUBSET Primaries /\ ball[k + 1] = Wider(sessions, ball[k])
    BY <1>1, <1>2, <2>1
  <2>3. /\ search[k].visited = ball[k]
        /\ \A q \in search[k].queue : IsPath(sessions, a, q, k) /\ q[Len(q)] \in ball[k]
    BY <2>1 DEF LevelSound, End
  <2>4. \A m \in ball[k + 1] \ ball[k] : \E q \in search[k].queue : m \in Beside(q[Len(q)])
    BY <2>1, <2>2, FreshIsBesideEnd
  <2>5. \A q \in search[k].queue : Beside(q[Len(q)]) \subseteq ball[k + 1]
    BY <2>2, <2>3, WiderIs
  <2>6. ball[k] \subseteq ball[k + 1]
    BY <2>2, WiderIs
  <2> HIDE DEF ball, search
  <2>7. search[k + 1].visited = ball[k + 1]
    <3>1. \A m : m \in search[k + 1].visited <=>
            m \in search[k].visited \/ \E q \in search[k].queue : m \in Beside(q[Len(q)])
      BY <2>2, DeeperIs
    <3> HIDE DEF Beside
    <3> QED
      BY <2>3, <2>4, <2>5, <2>6, <3>1
  <2>8. \A path : path \in search[k + 1].queue <=>
          \E q \in search[k].queue : \E m \in Beside(q[Len(q)]) : m \notin ball[k] /\ path = Append(q, m)
    BY <2>2, <2>3, DeeperIs
  <2>9. ASSUME NEW path \in search[k + 1].queue
        PROVE  IsPath(sessions, a, path, k + 1) /\ End(path) \in ball[k + 1]
    <3>1. PICK q \in search[k].queue : \E m \in Beside(q[Len(q)]) : path = Append(q, m)
      BY <2>8
    <3>2. PICK m \in Beside(q[Len(q)]) : path = Append(q, m)
      BY <3>1
    <3>3. IsPath(sessions, a, path, k + 1) /\ End(path) = m
      BY <2>3, <3>1, <3>2, PathGoesOn
    <3> QED
      BY <2>5, <3>2, <3>3
  <2>10. ASSUME NEW m \in ball[k + 1], m \notin ball[k]
         PROVE  \E path \in search[k + 1].queue : End(path) = m
    <3>1. PICK q \in search[k].queue : m \in Beside(q[Len(q)])
      BY <2>4, <2>10
    <3>2. Append(q, m) \in search[k + 1].queue
      BY <2>8, <2>10, <3>1
    <3>3. IsPath(sessions, a, q, k) /\ m \in build_established_adjacency(sessions, q[Len(q)])
      BY <2>3, <3>1
    <3>4. IsPath(sessions, a, Append(q, m), k + 1) /\ End(Append(q, m)) = m
      BY <3>3, PathGoesOn
    <3> QED
      BY <3>2, <3>4
  <2>11. k + 1 # 0 /\ (k + 1) - 1 = k
    OBVIOUS
  <2> QED
    BY <2>7, <2>9, <2>10, <2>11 DEF LevelSound, ball, search
<1> HIDE DEF S
<1>5. Nat \subseteq S
  BY <1>3, <1>4, Induct
<1> QED
  BY <1>1, <1>5 DEF S

\* What the search returns from a level.
ArrivalsSound(sessions, a, b, k, paths, ball) ==
  /\ \A path \in paths : IsPath(sessions, a, path, k + 1) /\ End(path) = b
  /\ paths # {} => b \in Wider(sessions, ball)
  /\ b \in Wider(sessions, ball) \ ball => paths # {}

\* The search arrives as it should, by paths of one session more.
LEMMA ArrivalsAre ==
  ASSUME NEW sessions, NEW a \in Primaries, NEW b \in Primaries, NEW k \in 0..Size
  PROVE  ArrivalsSound(sessions, a, b, k, Arrivals(sessions, Search(sessions, a)[k], b),
                       Around(sessions, a)[k])
<1> DEFINE ball == Around(sessions, a)[k]
           search == Search(sessions, a)[k]
           paths == Arrivals(sessions, search, b)
           Beside(n) == build_established_adjacency(sessions, n)
<1> SUFFICES ArrivalsSound(sessions, a, b, k, paths, ball)
  OBVIOUS
<1>1. LevelSound(sessions, a, k) /\ k \in Nat
  BY SearchSound, SizeType
<1>2. ball \in SUBSET Primaries
  <2>1. Around(sessions, a) \in [0..Size -> SUBSET Primaries]
    BY AroundRuns
  <2> QED
    BY <2>1
<1>3. \A q \in search.queue : IsPath(sessions, a, q, k) /\ q[Len(q)] \in ball
  BY <1>1 DEF LevelSound, End
<1>4. \A path : path \in paths <=>
        \E q \in search.queue : b \in Beside(q[Len(q)]) /\ path = Append(q, b)
  BY DEF Arrivals
<1>5. b \in Wider(sessions, ball) \ ball => \E q \in search.queue : b \in Beside(q[Len(q)])
  BY <1>1, FreshIsBesideEnd
<1> HIDE DEF ball, search, paths
<1>6. ASSUME NEW path \in paths PROVE IsPath(sessions, a, path, k + 1) /\ End(path) = b
  <2>1. PICK q \in search.queue : b \in Beside(q[Len(q)]) /\ path = Append(q, b)
    BY <1>4
  <2>2. IsPath(sessions, a, q, k) /\ b \in build_established_adjacency(sessions, q[Len(q)])
    BY <1>3, <2>1
  <2> QED
    BY <1>1, <2>1, <2>2, PathGoesOn
<1>7. paths # {} => b \in Wider(sessions, ball)
  BY <1>2, <1>3, <1>4, WiderIs
<1>8. b \in Wider(sessions, ball) \ ball => paths # {}
  BY <1>4, <1>5
<1> QED
  BY <1>6, <1>7, <1>8 DEF ArrivalsSound

\* A router next to one that is reached is reached, by one session more.
LEMMA NextBall ==
  ASSUME NEW sessions, NEW a \in Primaries, NEW k \in 0..Size
  PROVE  LET ball == Around(sessions, a)
         IN  /\ Wider(sessions, ball[k]) \subseteq ReachedFrom(sessions, a)
             /\ ball[k] \subseteq ReachedFrom(sessions, a)
             /\ k < Size => Wider(sessions, ball[k]) = ball[k + 1]
<1> DEFINE ball == Around(sessions, a)
<1>1. /\ ball \in [0..Size -> SUBSET Primaries] /\ Size \in Nat
      /\ \A i \in 1..Size : ball[i] = Wider(sessions, ball[i - 1])
  BY AroundRuns, SizeType
<1>2. ball[k] \subseteq ReachedFrom(sessions, a)
  BY <1>1, BallsGrow DEF ReachedFrom, Size
<1>3. Wider(sessions, ball[k]) \subseteq ReachedFrom(sessions, a)
  BY <1>1, <1>2, WiderIs, ReachIsLeast DEF Closed
<1>4. k < Size => Wider(sessions, ball[k]) = ball[k + 1]
  BY <1>1
<1> QED
  BY <1>2, <1>3, <1>4

\* The distance to a router that is reached is the first ball it is in.
LEMMA DistanceIs ==
  ASSUME NEW sessions, NEW a \in Primaries, NEW b \in ReachedFrom(sessions, a)
  PROVE  /\ Distance(sessions, a, b) \in 0..Size
         /\ b \in Around(sessions, a)[Distance(sessions, a, b)]
         /\ \A k \in 0..Size : b \in Around(sessions, a)[k] => Distance(sessions, a, b) <= k
<1> DEFINE ball == Around(sessions, a)
           K == {k \in DOMAIN ball : b \in ball[k]}
<1>1. DOMAIN ball = 0..Size /\ Size \in Nat
  BY AroundRuns, SizeType
<1>2. Size \in K /\ K \subseteq Nat
  BY <1>1 DEF ReachedFrom, Size
<1>3. Distance(sessions, a, b) = Min(K)
  BY DEF Distance
<1> HIDE DEF K
<1>4. Min(K) \in K /\ \A k \in K : Min(K) <= k
  BY <1>2, MinOf
<1> QED
  BY <1>1, <1>3, <1>4 DEF K

\* The search returns paths of the least number of sessions, and none if there is none.
LEMMA RerouteSound ==
  ASSUME NEW sessions, NEW a \in Primaries, NEW b \in Primaries, a # b
  PROVE  LET paths == shortest_reroute_path(sessions, a, b)
         IN  /\ paths # {} <=> b \in ReachedFrom(sessions, a)
             /\ \A path \in paths :
                  IsPath(sessions, a, path, Distance(sessions, a, b)) /\ End(path) = b
<1> DEFINE ball == Around(sessions, a)
           search == Search(sessions, a)
           Paths(k) == Arrivals(sessions, search[k], b)
           found == {k \in DOMAIN search : Paths(k) # {}}
           paths == shortest_reroute_path(sessions, a, b)
<1> SUFFICES /\ paths # {} <=> b \in ReachedFrom(sessions, a)
             /\ \A path \in paths : IsPath(sessions, a, path, Distance(sessions, a, b)) /\ End(path) = b
  OBVIOUS
<1>1. paths = IF {a, b} \subseteq Linked(sessions) /\ found # {} THEN Paths(Min(found)) ELSE {}
  BY DEF shortest_reroute_path
<1>2. DOMAIN search = 0..Size /\ Size \in Nat
  BY SearchRuns, SizeType
<1>3. \A k \in 0..Size :
        /\ \A path \in Paths(k) : IsPath(sessions, a, path, k + 1) /\ End(path) = b
        /\ Paths(k) # {} => b \in Wider(sessions, ball[k])
        /\ b \in Wider(sessions, ball[k]) \ ball[k] => Paths(k) # {}
  <2> TAKE k \in 0..Size
  <2>1. ArrivalsSound(sessions, a, b, k, Paths(k), ball[k])
    BY ArrivalsAre
  <2> HIDE DEF Paths, ball
  <2> QED
    BY <2>1 DEF ArrivalsSound
<1>4. ball[0] = {a}
  BY AroundRuns
<1> HIDE DEF paths, search, Paths, ball
<1>5. CASE b \notin ReachedFrom(sessions, a)
  <2>1. \A k \in 0..Size : Paths(k) = {}
    BY <1>3, <1>5, NextBall DEF ball
  <2>2. found = {}
    BY <1>2, <2>1
  <2> QED
    BY <1>1, <1>5, <2>2
<1>6. CASE b \in ReachedFrom(sessions, a)
  <2> DEFINE d == Distance(sessions, a, b)
  <2>1. d \in 0..Size /\ b \in ball[d] /\ \A k \in 0..Size : b \in ball[k] => d <= k
    BY <1>6, DistanceIs DEF ball
  <2> HIDE DEF d
  <2>2. d # 0 /\ d - 1 \in 0..Size /\ d - 1 < Size
    BY <1>2, <1>4, <2>1
  <2>3. b \in Wider(sessions, ball[d - 1]) \ ball[d - 1]
    <3>1. Wider(sessions, ball[d - 1]) = ball[d]
      BY <1>2, <2>1, <2>2, NextBall DEF ball
    <3> QED
      BY <1>2, <2>1, <2>2, <3>1
  <2>4. d - 1 \in found
    BY <1>2, <1>3, <2>2, <2>3
  <2>5. \A k \in found : d - 1 <= k
    <3> SUFFICES ASSUME NEW k \in 0..Size, Paths(k) # {}, k < Size PROVE d - 1 <= k
      BY <1>2, <2>2
    <3>1. b \in ball[k + 1]
      BY <1>3, NextBall DEF ball
    <3> QED
      BY <1>2, <2>1, <3>1
  <2>6. Min(found) = d - 1
    <3>1. found \subseteq Nat /\ found # {}
      BY <1>2, <2>4
    <3> HIDE DEF found
    <3>2. Min(found) \in found /\ \A k \in found : Min(found) <= k
      BY <3>1, MinOf
    <3>3. Min(found) \in Nat
      BY <3>1, <3>2
    <3>4. d \in Nat
      BY <1>2, <2>1
    <3>5. Min(found) <= d - 1 /\ d - 1 <= Min(found)
      BY <2>4, <2>5, <3>2
    <3> QED
      BY <3>3, <3>4, <3>5
  <2>7. {a, b} \subseteq Linked(sessions)
    <3>1. ReachedFrom(sessions, b) = ReachedFrom(sessions, a) /\ a \in ReachedFrom(sessions, a)
      BY <1>6, ReachIsMutual, ReachIsLeast
    <3>2. a \in Linked(sessions)
      BY <1>6, LinkedReachLinked
    <3>3. b \in Linked(sessions)
      BY <3>1, LinkedReachLinked
    <3> QED
      BY <3>2, <3>3
  <2>8. paths = Paths(d - 1) /\ Paths(d - 1) # {}
    BY <1>1, <2>4, <2>6, <2>7
  <2>9. \A path \in paths : IsPath(sessions, a, path, d) /\ End(path) = b
    BY <1>2, <1>3, <2>1, <2>2, <2>8
  <2> QED
    BY <1>6, <2>8, <2>9 DEF d
<1> QED
  BY <1>5, <1>6

\* No path of sessions between two routers is shorter than their distance.
LEMMA NoPathIsShorter ==
  ASSUME NEW sessions, NEW a \in Primaries, NEW j \in Nat, NEW walk, IsPath(sessions, a, walk, j)
  PROVE  Distance(sessions, a, End(walk)) <= j
<1> DEFINE ball == Around(sessions, a)
           b == End(walk)
           S == {i \in Nat : i <= j => walk[i + 1] \in ReachedFrom(sessions, a)
                                       /\ (i <= Size => walk[i + 1] \in ball[i])}
<1>1. /\ walk \in Seq(Primaries) /\ Len(walk) = j + 1 /\ walk[1] = a /\ b = walk[j + 1]
      /\ \A i \in 1..j : {walk[i], walk[i + 1]} \in sessions
  BY DEF IsPath, End
<1>2. Size \in Nat /\ ball[0] = {a} /\ a \in ReachedFrom(sessions, a)
      /\ \A k \in 0..Size : ball[k] \in SUBSET Primaries
  BY SizeType, AroundRuns, ReachIsLeast
<1> HIDE DEF ball, b
<1>3. 0 \in S
  BY <1>1, <1>2
<1>4. ASSUME NEW i \in Nat, i \in S PROVE i + 1 \in S
  <2> SUFFICES ASSUME i + 1 <= j
               PROVE  /\ walk[i + 2] \in ReachedFrom(sessions, a)
                      /\ i + 1 <= Size => walk[i + 2] \in ball[i + 1]
    OBVIOUS
  <2>1. walk[i + 2] \in build_established_adjacency(sessions, walk[i + 1])
    BY <1>1 DEF build_established_adjacency
  <2>2. walk[i + 1] \in ReachedFrom(sessions, a) /\ (i <= Size => walk[i + 1] \in ball[i])
    BY <1>4
  <2>3. walk[i + 2] \in ReachedFrom(sessions, a)
    BY <2>1, <2>2, ReachIsLeast DEF Closed
  <2>4. ASSUME i + 1 <= Size PROVE walk[i + 2] \in ball[i + 1]
    <3>1. i \in 0..Size /\ i < Size /\ walk[i + 1] \in ball[i]
      BY <1>2, <2>2, <2>4
    <3>2. walk[i + 2] \in Wider(sessions, ball[i])
      BY <1>2, <2>1, <3>1, WiderIs
    <3> QED
      BY <3>1, <3>2, NextBall DEF ball
  <2> QED
    BY <2>3, <2>4
<1> HIDE DEF S
<1>5. j \in S
  BY <1>3, <1>4, Induct
<1>6. b \in ReachedFrom(sessions, a) /\ (j <= Size => b \in ball[j])
  BY <1>1, <1>5 DEF S
<1>7. Distance(sessions, a, b) \in 0..Size /\ \A k \in 0..Size : b \in ball[k] => Distance(sessions, a, b) <= k
  BY <1>6, DistanceIs DEF ball
<1> QED
  BY <1>2, <1>6, <1>7 DEF b

\* The path shown for a session that is down is a shortest one, in any mesh.
LEMMA RerouteFollows == ImpactTypeOK => RerouteIsShortest
<1> SUFFICES ASSUME ImpactTypeOK, NEW p \in Mesh \ established, NEW a \in p, NEW b \in p, a # b
             PROVE  LET paths == shortest_reroute_path(established, a, b)
                    IN  /\ (paths # {}) <=> b \in ReachedFrom(established, a)
                        /\ \A path \in paths :
                             /\ path[1] = a /\ path[Len(path)] = b
                             /\ \A k \in 1 .. Len(path) - 1 : {path[k], path[k + 1]} \in established
                             /\ Len(path) = Distance(established, a, b) + 1
  BY DEF RerouteIsShortest
<1> DEFINE paths == shortest_reroute_path(established, a, b)
<1>1. a \in Primaries /\ b \in Primaries
  BY ImpactTopologyAssumption
<1>2. /\ paths # {} <=> b \in ReachedFrom(established, a)
      /\ \A path \in paths :
           IsPath(established, a, path, Distance(established, a, b)) /\ End(path) = b
  BY <1>1, RerouteSound
<1> HIDE DEF paths
<1>3. ASSUME NEW path \in paths
      PROVE  /\ path[1] = a /\ path[Len(path)] = b
             /\ \A k \in 1 .. Len(path) - 1 : {path[k], path[k + 1]} \in established
             /\ Len(path) = Distance(established, a, b) + 1
  <2> DEFINE d == Distance(established, a, b)
  <2>1. IsPath(established, a, path, d) /\ End(path) = b
    BY <1>2
  <2>2. d \in Nat
    BY <1>1, <1>2, DistanceIs, SizeType
  <2> HIDE DEF d
  <2>3. Len(path) = d + 1 /\ Len(path) - 1 = d
    BY <2>1, <2>2 DEF IsPath
  <2> QED
    BY <2>1, <2>3 DEF IsPath, End, d
<1> QED
  BY <1>2, <1>3 DEF paths

-----------------------------------------------------------------------------
(* The theorems *)

\* The types hold at first, and each step keeps them.
LEMMA ImpactTypesKept ==
  /\ ImpactInit => ImpactTypeOK
  /\ ImpactTypeOK /\ [ImpactNext]_impactVars => ImpactTypeOK'
<1>1. ImpactInit => ImpactTypeOK
  BY DEF ImpactInit, ImpactTypeOK
<1>2. ImpactTypeOK /\ [ImpactNext]_impactVars => ImpactTypeOK'
  <2> SUFFICES ASSUME ImpactTypeOK, [ImpactNext]_impactVars PROVE ImpactTypeOK'
    OBVIOUS
  <2>1. CASE \E p \in Mesh : SessionGoesDown(p) \/ SessionComesUp(p)
    BY <2>1 DEF ImpactTypeOK, SessionGoesDown, SessionComesUp
  <2>2. CASE \E r \in Failing : RouterChanges(r)
    BY <2>2, ImpactTopologyAssumption DEF ImpactTypeOK, RouterChanges
  <2>3. CASE \E i \in Alarms, to \in {"none", "open", "cleared"} : AlarmChanges(i, to)
    BY <2>3 DEF ImpactTypeOK, AlarmChanges
  <2>4. CASE UNCHANGED impactVars
    BY <2>4 DEF ImpactTypeOK, impactVars
  <2> QED
    BY <2>1, <2>2, <2>3, <2>4 DEF ImpactNext
<1> QED
  BY <1>1, <1>2

\* The rows the answers are computed from have their types.
THEOREM ImpactTypesHold == ImpactSpec => []ImpactTypeOK
  BY ImpactTypesKept, PTL DEF ImpactSpec

\* The path shown for a session that is down (shortest_reroute_path) is a shortest one over
\* established sessions, and missing exactly when there is none, in any mesh.
THEOREM RerouteIsShortestHolds == ImpactSpec => []RerouteIsShortest
  BY ImpactTypesHold, RerouteFollows, PTL

\* A primary counts as cut off (_isolated_primary_ids) exactly if it is in the mesh and
\* cannot reach the backbone, in any mesh.
THEOREM IsolationIsReachabilityHolds == ImpactSpec => []IsolationIsReachability
  BY ImpactTypesHold, IsolationFollows, PTL

\* While one component holds more than half of the mesh, a session that fails only adds to
\* the customers that are down (compute_impacts), in any mesh.
THEOREM ImpactFollowsSessionsHolds == ImpactSpec => []ImpactFollowsSessions
  BY ImpactTypesHold, ImpactFollows, PTL

\* No way from one end of a session to the other over established ones is shorter than the
\* path shown.
NoWayIsShorter ==
  \A p \in Mesh \ established : \A a, b \in p : a # b =>
    \A path \in shortest_reroute_path(established, a, b), way \in Seq(Primaries) :
      /\ Len(way) > 0 /\ way[1] = a /\ way[Len(way)] = b
      /\ \A k \in 1 .. Len(way) - 1 : {way[k], way[k + 1]} \in established
      => Len(path) <= Len(way)

\* Distance is the measure it is taken for: among all sequences of routers joined by
\* established sessions, however long, none is shorter than what is shown.
THEOREM NoWayIsShorterHolds == ImpactSpec => []NoWayIsShorter
<1>1. ImpactTypeOK => NoWayIsShorter
  <2> SUFFICES ASSUME ImpactTypeOK, NEW p \in Mesh \ established, NEW a \in p, NEW b \in p, a # b,
                      NEW path \in shortest_reroute_path(established, a, b), NEW way \in Seq(Primaries),
                      Len(way) > 0, way[1] = a, way[Len(way)] = b,
                      \A k \in 1 .. Len(way) - 1 : {way[k], way[k + 1]} \in established
               PROVE  Len(path) <= Len(way)
    BY DEF NoWayIsShorter
  <2>1. a \in Primaries /\ b \in Primaries
    BY ImpactTopologyAssumption
  <2>2. b \in ReachedFrom(established, a) /\ IsPath(established, a, path, Distance(established, a, b))
    BY <2>1, RerouteSound
  <2> DEFINE j == Len(way) - 1
  <2>3. j \in Nat /\ Len(way) = j + 1 /\ Len(way) \in Nat
    OBVIOUS
  <2> HIDE DEF j
  <2>4. IsPath(established, a, way, j) /\ End(way) = b
    BY <2>3 DEF IsPath, End
  <2>5. Distance(established, a, b) <= j
    BY <2>1, <2>3, <2>4, NoPathIsShorter
  <2>6. Len(path) = Distance(established, a, b) + 1 /\ Distance(established, a, b) \in Nat
    BY <2>1, <2>2, DistanceIs, SizeType DEF IsPath
  <2> QED
    BY <2>3, <2>5, <2>6
<1> QED
  BY <1>1, ImpactTypesHold, PTL
=============================================================================

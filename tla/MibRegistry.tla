---------------------------- MODULE MibRegistry -----------------------------
(***************************************************************************)
(* Uploaded MIB modules, the traps they define, and the custom trap rules: *)
(* the resolver of mib_parser.py, the imports of mib_registry.py and       *)
(* api/mibs.py, and the cache the classifier reads both through.           *)
(*                                                                         *)
(* Every import and every deletion resolves all stored modules anew and    *)
(* rewrites the table of traps, in one transaction at READ COMMITTED.  The *)
(* handlers run in a thread pool: two of them may be under way at once,    *)
(* each resolving the modules it could see.                                *)
(*                                                                         *)
(* A file is what parse_module makes of it: which symbols it defines under *)
(* which parents, and which traps.  OIDs are sequences of numbers.         *)
(***************************************************************************)
EXTENDS Integers, FiniteSets, FiniteSetsExt, Sequences, SequencesExt

CONSTANTS
  Files,          \* the modules uploaded: [name, defs, notifications, traps]
  Batches,        \* the uploads: sequences of files
  Base,           \* BASE_SYMBOLS: [symbol -> OID]
  NoSymbol,       \* no parent: the OID is spelt out
  NoFile,         \* no module is stored under an id
  MaxDepth,       \* how many parents resolve follows
  MaxModules,     \* bound: modules ever stored
  Uploads,        \* bound: imports and deletions under way at once
  RuleBodies,     \* the custom rules written: [oid, action, enabled]
  BuiltIn,        \* TRAP_OID_MAP: the OIDs no rule may take over
  CacheTtl        \* CACHE_TTL_SECONDS, in ticks

Unresolved == <<>>
Ids == 1..MaxModules

Symbols == UNION {DOMAIN f.defs \cup {f.defs[s].parent : s \in DOMAIN f.defs}
                    \cup {t.enterprise : t \in ToSet(f.traps)} : f \in Files}
TrapNames == UNION {ToSet(f.notifications) \cup {t.name : t \in ToSet(f.traps)} : f \in Files}

ASSUME MibAssumption ==
  /\ MaxDepth \in Nat /\ MaxModules \in Nat /\ CacheTtl \in Nat \ {0}
  /\ Uploads # {}
  /\ Batches \subseteq Seq(Files) /\ NoFile \notin Files
  /\ \A r \in RuleBodies : r.action \in {"raise", "clear", "alarm"} /\ r.enabled \in BOOLEAN

\* What parse_module returns: an OID that names no parent is spelt out, and a trap of
\* version 2 is a symbol of its file.
ASSUME FileAssumption ==
  /\ IsFiniteSet(Symbols)
  /\ \A s \in DOMAIN Base : Base[s] \in Seq(Nat) \ {Unresolved}
  /\ \A f \in Files :
       /\ \A s \in DOMAIN f.defs :
            /\ f.defs[s].arcs \in Seq(Nat)
            /\ f.defs[s].parent = NoSymbol => f.defs[s].arcs # Unresolved
       /\ f.notifications \in Seq(DOMAIN f.defs)
       /\ f.traps \in Seq([name : TrapNames, enterprise : Symbols, specific : Nat])

VARIABLES
  modules,        \* [Ids -> Module]: table mib_modules
  nextModule,     \* its sequence of ids
  traps,          \* table mib_traps: a set of [oid, name, id]
  upload,         \* [Uploads -> Upload]: imports and deletions under way
  rebuildRaced,   \* history: the last rebuild committed had been overtaken
  rules,          \* table trap_rules: a set of [oid, action, enabled]
  cache,          \* the correlator's _cache: [rules, names, age]
  sinceChange,    \* history: ticks since rules or traps last changed
  lag             \* history: how old the news was that the last lookup missed

mibVars == <<modules, nextModule, traps, upload, rebuildRaced, rules, cache, sinceChange, lag>>

Module == [file : Files \cup {NoFile}, unresolved : SUBSET [name : TrapNames, missing : Symbols]]
NoModule == [file |-> NoFile, unresolved |-> {}]

\* A transaction: where it has got to, the modules as it sees them, the ids it has
\* written, the rows of traps it has seen and deleted, and those of them it locks.
NoUpload == [at |-> "none", view |-> [i \in Ids |-> NoModule], wrote |-> {}, sees |-> {},
             holds |-> {}, overtaken |-> FALSE]

-----------------------------------------------------------------------------
(* Resolving symbols; files are the stored modules by their ids *)

\* The file that defines symbol s for file f: itself, or else the first module that does.
Definer(files, f, s) ==
  LET others == {i \in DOMAIN files : s \in DOMAIN files[i].defs}
  IN  IF s \in DOMAIN f.defs THEN f
      ELSE IF others # {} THEN files[Min(others)] ELSE NoFile

\* A call of Resolver.resolve, where the call for the parent returns what oid says.
ResolveCall(files, oid, f, s) ==
  LET owner == Definer(files, f, s)
      def == owner.defs[s]
      above == oid[owner][def.parent]
  IN  IF owner = NoFile THEN (IF s \in DOMAIN Base THEN Base[s] ELSE Unresolved)
      ELSE IF def.parent = NoSymbol THEN def.arcs
      ELSE IF above = Unresolved THEN Unresolved
      ELSE above \o def.arcs

ResolveOne(files, oid) == [f \in Files |-> [s \in Symbols |-> ResolveCall(files, oid, f, s)]]

\* Resolver.resolve: what the call at each depth returns, from the one too deep on.
Resolver(files) ==
  LET oid[n \in 0..(MaxDepth + 1)] ==
        IF n = 0 THEN [f \in Files |-> [s \in Symbols |-> Unresolved]]
        ELSE ResolveOne(files, oid[n - 1])
  IN  oid[MaxDepth + 1]

\* No OID takes more than MaxDepth parents to find.  (One that did would be found or not
\* by what had been asked before: resolve gives up at that depth and remembers it.  A
\* symbol below itself has none at any depth.)
ASSUME DepthAssumption ==
  \A files \in UNION {[stored -> Files] : stored \in SUBSET Ids} :
    ResolveOne(files, Resolver(files)) = Resolver(files)

\* A mutant: the trap's own symbol is reported.
MissingSymbol(files, from, symbol) == symbol

\* Resolver.missing_root: from a symbol to its parent, unless the loop ends, as it does
\* at the latest when every symbol has been seen.
StepUp(files, at) ==
  LET owner == Definer(files, at.file, at.symbol)
      parent == owner.defs[at.symbol].parent
  IN  IF at.symbol \in at.seen \/ owner = NoFile \/ parent = NoSymbol \/ parent \in DOMAIN Base
      THEN at
      ELSE [file |-> owner, symbol |-> parent, seen |-> at.seen \cup {at.symbol}]

MissingRoot(files, from, symbol) ==
  LET at[n \in 0..Cardinality(Symbols)] ==
        IF n = 0 THEN [file |-> from, symbol |-> symbol, seen |-> {}]
        ELSE StepUp(files, at[n - 1])
  IN  at[Cardinality(Symbols)].symbol

Trap(files, f, name, symbol, oid) ==
  [module |-> f.name, name |-> name, oid |-> oid,
   missing |-> IF oid = Unresolved THEN MissingRoot(files, f, symbol) ELSE NoSymbol]

\* The OID of an SNMPv1 trap: under the enterprise's notification branch, .0, which
\* converted MIBs name as the enterprise itself.
V1Oid(enterprise, specific) ==
  IF enterprise = Unresolved THEN Unresolved
  ELSE IF Last(enterprise) = 0 THEN Append(enterprise, specific)
  ELSE enterprise \o <<0, specific>>

V2Names(files) == UNION {ToSet(files[i].notifications) : i \in DOMAIN files}

\* resolve_traps lists all notifications, module by module, then the v1 traps no
\* notification is named as: the places in its list, and which comes first.
V2Places(files) == UNION {{<<1, i, k>> : k \in DOMAIN files[i].notifications} : i \in DOMAIN files}
V1Places(files) ==
  LET Only(f) == {k \in DOMAIN f.traps : f.traps[k].name \notin V2Names(files)}
  IN  UNION {{<<2, i, k>> : k \in Only(files[i])} : i \in DOMAIN files}

Before(x, y) ==
  \/ x[1] < y[1]
  \/ x[1] = y[1] /\ x[2] < y[2]
  \/ x[1] = y[1] /\ x[2] = y[2] /\ x[3] < y[3]

\* resolve_traps: the trap at each place.
ResolveTraps(files) ==
  LET oid == Resolver(files)
      V2(f, name) == Trap(files, f, name, name, oid[f][name])
      V1(f, t) == Trap(files, f, t.name, t.enterprise, V1Oid(oid[f][t.enterprise], t.specific))
  IN  [x \in V2Places(files) \cup V1Places(files) |->
         LET f == files[x[2]] IN
         IF x[1] = 1 THEN V2(f, f.notifications[x[3]]) ELSE V1(f, f.traps[x[3]])]

-----------------------------------------------------------------------------
(* rebuild, as a function of the modules it sees *)

\* The file stored under each id, or none: what the query for modules returns.
FileAt(view) == [i \in Ids |-> view[i].file]

StoredFiles(file) == [i \in {i \in Ids : file[i] # NoFile} |-> file[i]]

IdOf(file, name) == CHOOSE i \in Ids : file[i] # NoFile /\ file[i].name = name

\* The rows of traps: of traps with one OID, the first in resolve_traps' order.
TrapRows(file) ==
  LET found == ResolveTraps(StoredFiles(file)) IN
  {[oid |-> found[k].oid, name |-> found[k].name, id |-> IdOf(file, found[k].module)] :
     k \in {k \in DOMAIN found :
              /\ found[k].oid # Unresolved
              /\ \A j \in DOMAIN found : Before(j, k) => found[j].oid # found[k].oid}}

\* The traps each module is told could not be resolved, and what is missing.
UnresolvedOf(file) ==
  LET found == ResolveTraps(StoredFiles(file)) IN
  [i \in {i \in Ids : file[i] # NoFile} |->
     {[name |-> found[k].name, missing |-> found[k].missing] :
        k \in {k \in DOMAIN found :
                 found[k].oid = Unresolved /\ IdOf(file, found[k].module) = i}}]

-----------------------------------------------------------------------------
(* Imports and deletions *)

ruleVars == <<rules, cache, sinceChange, lag>>

\* The ids another transaction has written and not committed: whoever wants to
\* write one of these rows, or a row with its unique name, waits.
LockedIds(q) == UNION {upload[o].wrote : o \in Uploads \ {q}}
LockedNames(q) == UNION {
  {upload[o].view[i].file.name : i \in {i \in upload[o].wrote : upload[o].view[i].file # NoFile}} :
  o \in Uploads \ {q}}
HeldTraps(q) == UNION {upload[o].holds : o \in Uploads \ {q}}

\* Storing the files of a batch one by one, each in the place of the module of its
\* name if there is one.
StoreOne(acc, f) ==
  LET old == {i \in Ids : acc.file[i] # NoFile /\ acc.file[i].name = f.name}
      id == IF old = {} THEN acc.next ELSE CHOOSE i \in old : TRUE
  IN  [file |-> [acc.file EXCEPT ![id] = f], wrote |-> acc.wrote \cup {id},
       next |-> IF old = {} THEN acc.next + 1 ELSE acc.next]

Stored(file, batch, next) ==
  LET acc[n \in 0..Len(batch)] ==
        IF n = 0 THEN [file |-> file, wrote |-> {}, next |-> next]
        ELSE StoreOne(acc[n - 1], batch[n])
  IN  acc[Len(batch)]

\* import_modules up to its flush.
StoreFiles(q, batch) ==
  LET stored == Stored(FileAt(modules), batch, nextModule)
      view == [i \in Ids |-> [file |-> stored.file[i], unresolved |-> modules[i].unresolved]]
  IN
  /\ upload[q].at = "none"
  /\ nextModule + Len(batch) <= MaxModules + 1
  /\ stored.wrote \cap LockedIds(q) = {}
  /\ {batch[i].name : i \in DOMAIN batch} \cap LockedNames(q) = {}
  /\ upload' = [upload EXCEPT ![q] = [NoUpload EXCEPT !.at = "stored", !.view = view,
                                                      !.wrote = stored.wrote]]
  /\ nextModule' = stored.next
  /\ UNCHANGED <<modules, traps, rebuildRaced, ruleVars>>

\* delete_module up to its flush: the rows of its traps go with it.
DropModule(q, i) ==
  LET own == {t \in traps : t.id = i} IN
  /\ upload[q].at = "none"
  /\ modules[i].file # NoFile
  /\ i \notin LockedIds(q) /\ own \cap HeldTraps(q) = {}
  /\ upload' = [upload EXCEPT ![q] = [NoUpload EXCEPT !.at = "stored",
       !.view = [modules EXCEPT ![i] = NoModule], !.wrote = {i}, !.sees = own, !.holds = own]]
  /\ UNCHANGED <<modules, nextModule, traps, rebuildRaced, ruleVars>>

\* A mutant: only what it has written itself.
ReadOwnModules(q) ==
  LET u == upload[q] IN
  /\ u.at = "stored"
  /\ upload' = [upload EXCEPT ![q].at = "read",
       ![q].view = [i \in Ids |-> IF i \in u.wrote THEN u.view[i] ELSE NoModule]]
  /\ UNCHANGED <<modules, nextModule, traps, rebuildRaced, ruleVars>>

\* rebuild reads the modules: the committed ones with what it has written itself,
\* and resolves them.
ReadModules(q) ==
  LET u == upload[q] IN
  /\ u.at = "stored"
  /\ upload' = [upload EXCEPT ![q].at = "read",
       ![q].view = [i \in Ids |-> IF i \in u.wrote THEN u.view[i] ELSE modules[i]]]
  /\ UNCHANGED <<modules, nextModule, traps, rebuildRaced, ruleVars>>

\* DELETE FROM mib_traps: every row committed by now.  The rows another transaction
\* is deleting are waited for, in CommitRebuild.
DeleteTraps(q) ==
  /\ upload[q].at = "read"
  /\ upload' = [upload EXCEPT ![q].at = "deleted", ![q].sees = @ \cup traps,
                              ![q].holds = @ \cup (traps \ HeldTraps(q))]
  /\ UNCHANGED <<modules, nextModule, traps, rebuildRaced, ruleVars>>

\* A row that another transaction has inserted since has the OID of a new one, or a
\* module to be written or referred to is gone.
InsertFails(q) ==
  LET u == upload[q]
      rows == TrapRows(FileAt(u.view))
  IN  \/ {t.oid : t \in rows} \cap {t.oid : t \in traps \ u.sees} # {}
      \/ \E i \in Ids \ u.wrote :
           /\ u.view[i].file # NoFile /\ modules[i].file = NoFile
           /\ i \in {t.id : t \in rows} \/ UnresolvedOf(FileAt(u.view))[i] # u.view[i].unresolved

\* Inserting the rows (equal ones that others have seen are other rows now), writing
\* what was unresolved, and the commit.  A module's row keeps what others have written
\* to it since, but for what differs from the copy.
CommitRebuild(q) ==
  LET u == upload[q]
      unresolved == UnresolvedOf(FileAt(u.view))
      Written(i) == IF i \in u.wrote THEN u.view[i].file ELSE modules[i].file
      Noted(i) == IF u.view[i].file = NoFile \/ unresolved[i] = u.view[i].unresolved
                    THEN modules[i].unresolved ELSE unresolved[i]
  IN  /\ u.at = "deleted"
      /\ u.sees \cap HeldTraps(q) = {}
      /\ ~ \E i \in LockedIds(q) : u.view[i].file # NoFile
      /\ ~ InsertFails(q)
      /\ modules' = [i \in Ids |-> IF Written(i) = NoFile THEN NoModule
                                   ELSE [file |-> Written(i), unresolved |-> Noted(i)]]
      /\ traps' = (traps \ u.sees) \cup TrapRows(FileAt(u.view))
      /\ upload' = [o \in Uploads |->
           IF o = q THEN NoUpload
           ELSE [upload[o] EXCEPT !.sees = @ \ u.sees, !.holds = @ \ u.sees,
                                  !.overtaken = @ \/ upload[o].at \in {"read", "deleted"}]]
      /\ rebuildRaced' = u.overtaken
      /\ sinceChange' = 0
      /\ UNCHANGED <<nextModule, rules, cache, lag>>

\* A statement fails, two transactions deadlock, or the process ends: roll back.
AbortUpload(q) ==
  /\ upload[q].at # "none"
  /\ upload' = [upload EXCEPT ![q] = NoUpload]
  /\ UNCHANGED <<modules, nextModule, traps, rebuildRaced, ruleVars>>

-----------------------------------------------------------------------------
(* Custom rules and the cache they are read through *)

TableChanged == sinceChange' = 0 /\ UNCHANGED <<modules, nextModule, traps, upload, rebuildRaced, cache, lag>>

\* _validate_rule: no built-in OID, and no OID another rule has.
FreeFor(oid, others) == oid \notin BuiltIn /\ \A r \in others : r.oid # oid

CreateRule(rule) ==
  /\ FreeFor(rule.oid, rules)
  /\ rules' = rules \cup {rule}
  /\ TableChanged

UpdateRule(old, rule) ==
  /\ FreeFor(rule.oid, rules \ {old})
  /\ rules' = (rules \ {old}) \cup {rule}
  /\ TableChanged

DeleteRule(rule) == rules' = rules \ {rule} /\ TableChanged

\* What _snapshot loads.
Enabled == {r \in rules : r.enabled}
KnownNames == {[oid |-> t.oid, name |-> t.name] : t \in traps}

\* A mutant: a cache that has just expired is still used.
CacheIsNotOld(age) == age <= CacheTtl

CacheIsYoung(age) == age < CacheTtl

\* _snapshot, for a trap the correlator is classifying; invalidate is called in the
\* API's process and reaches another copy of the cache.
LookUp ==
  LET answer == IF CacheIsYoung(cache.age)
                  THEN cache ELSE [rules |-> Enabled, names |-> KnownNames, age |-> 0]
  IN  /\ cache' = answer
      /\ lag' = IF answer.rules = Enabled /\ answer.names = KnownNames THEN 0 ELSE sinceChange
      /\ UNCHANGED <<modules, nextModule, traps, upload, rebuildRaced, rules, sinceChange>>

\* Time passes; ages are told apart up to a tick more than the cache may live.
MibTick ==
  LET Older(age) == IF age > CacheTtl THEN age ELSE age + 1
  IN  /\ cache' = [cache EXCEPT !.age = Older(@)]
      /\ sinceChange' = Older(sinceChange)
      /\ UNCHANGED <<modules, nextModule, traps, upload, rebuildRaced, rules, lag>>

-----------------------------------------------------------------------------
(* Specification *)

MibInit ==
  /\ modules = [i \in Ids |-> NoModule]
  /\ nextModule = 1
  /\ traps = {}
  /\ upload = [q \in Uploads |-> NoUpload]
  /\ rebuildRaced = FALSE
  /\ rules = {}
  /\ cache = [rules |-> {}, names |-> {}, age |-> CacheTtl + 1]
  /\ sinceChange = CacheTtl + 1
  /\ lag = 0

UploadNext(q) ==
  \/ \E batch \in Batches : StoreFiles(q, batch)
  \/ \E i \in Ids : DropModule(q, i)
  \/ ReadModules(q) \/ DeleteTraps(q) \/ CommitRebuild(q) \/ AbortUpload(q)

RuleNext ==
  \/ \E rule \in RuleBodies : CreateRule(rule) \/ \E old \in rules : UpdateRule(old, rule)
  \/ \E rule \in rules : DeleteRule(rule)
  \/ LookUp \/ MibTick

MibNext == (\E q \in Uploads : UploadNext(q)) \/ RuleNext

MibSpec == MibInit /\ [][MibNext]_mibVars

-----------------------------------------------------------------------------
(* Properties *)

\* What the definitions of files add up to, from below: which OIDs the symbols have, by
\* the files that define them, grown from those whose parent is known already.
OidsFrom(files, known, f, s) == {k[3] : k \in {k \in known : k[1] = Definer(files, f, s) /\ k[2] = s}}

Grown(files, known) ==
  LET Oids(f, s) ==
        IF f.defs[s].parent = NoSymbol THEN {f.defs[s].arcs}
        ELSE {above \o f.defs[s].arcs : above \in OidsFrom(files, known, f, f.defs[s].parent)}
      OfFile(f) == UNION {{<<f, s, oid>> : oid \in Oids(f, s)} : s \in DOMAIN f.defs}
  IN  {<<NoFile, s, Base[s]>> : s \in DOMAIN Base} \cup (UNION {OfFile(files[i]) : i \in DOMAIN files})

KnownOids(files) ==
  LET known[n \in 0..(MaxDepth + 1)] == IF n = 0 THEN {} ELSE Grown(files, known[n - 1])
  IN  known[MaxDepth + 1]

\* Every trap of files: the module it is of, the symbol its OID hangs from, and the OIDs
\* it has, one or none.
TrapOids(files) ==
  LET known == KnownOids(files)
      V2(i) == {[name |-> n, at |-> i, symbol |-> n, v2 |-> TRUE,
                 oids |-> OidsFrom(files, known, files[i], n)] : n \in ToSet(files[i].notifications)}
      V1(i) == {[name |-> t.name, at |-> i, symbol |-> t.enterprise, v2 |-> FALSE,
                 oids |-> {V1Oid(e, t.specific) : e \in OidsFrom(files, known, files[i], t.enterprise)}] :
                  t \in {t \in ToSet(files[i].traps) : t.name \notin V2Names(files)}}
  IN  UNION {V2(i) \cup V1(i) : i \in DOMAIN files}

\* What files define, and the base symbols with it.
Defined(files) == (UNION {DOMAIN files[i].defs : i \in DOMAIN files}) \cup DOMAIN Base

\* The symbols that stand, by whichever files define them, on symbols that do, in the
\* end on one that is not defined, has no parent or is a base symbol no file redefines.
IsPlain(files, plain, s) ==
  \A i \in DOMAIN files : s \in DOMAIN files[i].defs =>
    LET parent == files[i].defs[s].parent IN
    \/ parent = NoSymbol
    \/ parent \in DOMAIN Base /\ \A j \in DOMAIN files : parent \notin DOMAIN files[j].defs
    \/ parent \in plain \ DOMAIN Base

PlainOn(files, plain) == {s \in Symbols : IsPlain(files, plain, s)}

Plain(files) ==
  LET plain[n \in 0..Cardinality(Symbols)] == IF n = 0 THEN {} ELSE PlainOn(files, plain[n - 1])
  IN  plain[Cardinality(Symbols)]

\* The types of all state.
MibTypeOK ==
  /\ modules \in [Ids -> Module]
  /\ nextModule \in 1..(MaxModules + 1)
  /\ \A t \in traps : t.oid \in Seq(Nat) /\ t.oid # Unresolved /\ t.id \in Ids
  /\ \A q \in Uploads : /\ upload[q].at \in {"none", "stored", "read", "deleted"}
                        /\ upload[q].view \in [Ids -> Module]
                        /\ upload[q].holds \subseteq upload[q].sees
  /\ rules \subseteq RuleBodies /\ cache.rules \subseteq RuleBodies
  /\ {cache.age, sinceChange, lag} \subseteq 0..(CacheTtl + 1)
  /\ rebuildRaced \in BOOLEAN

\* The table of traps is what the stored modules add up to: every trap that has an OID
\* in them, each OID once and, of the notifications or of the v1 traps that have it, for
\* one of the module uploaded first; and each module's unresolved traps are its traps
\* that have none, each with a symbol that nothing stored defines, if the trap's own is
\* plain.  Out of this is a rebuild that another one overtook after it had read the
\* modules, until the next that was not.  (The docstring of rebuild says the first module
\* keeps an OID, v1 trap or not; that of missing_root, that it names an undefined symbol
\* whatever stands above the trap's.  Neither is so.)
TrapTableFollowsModules ==
  LET files == StoredFiles(FileAt(modules))
      found == TrapOids(files)
      plain == Plain(files)
      defined == Defined(files)
      Fits(x, e) == x.name = e.name /\ (e.symbol \in plain => x.missing \notin defined)
  IN  rebuildRaced \/
        /\ {t.oid : t \in traps} = UNION {e.oids : e \in found}
        /\ \A t \in traps :
             /\ \A u \in traps : u.oid = t.oid => u = t
             /\ \E e \in found :
                  /\ e.name = t.name /\ e.at = t.id /\ t.oid \in e.oids
                  /\ \A o \in found : o.v2 = e.v2 /\ t.oid \in o.oids => e.at <= o.at
        /\ \A i \in Ids :
             LET lost == {e \in found : e.at = i /\ e.oids = {}} IN
             /\ \A x \in modules[i].unresolved : \E e \in lost : Fits(x, e)
             /\ \A e \in lost : \E x \in modules[i].unresolved : Fits(x, e)

\* The table of traps and what each module says is unresolved are what rebuild makes of
\* all the modules stored, under overlapping imports, deletions and failures, unless one
\* that another overtook after it had read the modules committed last (import_modules,
\* delete_module, rebuild).
TableIsRebuilt ==
  LET stored == {i \in Ids : modules[i].file # NoFile} IN
  \/ rebuildRaced
  \/ stored = {} /\ traps = {}
  \/ /\ traps = TrapRows(FileAt(modules))
     /\ \A i \in stored : modules[i].unresolved = UnresolvedOf(FileAt(modules))[i]

\* A trap is classified by the rules and trap names in force less than CACHE_TTL_SECONDS
\* ago, whenever the cache was filled (mib_registry.py: "an edit made in the UI applies
\* within that window").
EditsApplyWithinTtl == lag < CacheTtl
=============================================================================

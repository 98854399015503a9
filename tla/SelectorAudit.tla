---------------------------- MODULE SelectorAudit ----------------------------
(***************************************************************************)
(* The selector audits of an access manager and the migrations they write  *)
(* (hardhat/tasks/audit: check-deploy-selectors, check-onchain-selectors,  *)
(* generate-migration, utils).                                             *)
(* Developers change contracts and deployment scripts, deployments map     *)
(* functions to roles, an operator audits the mappings, generates a script *)
(* that removes the stale ones, and runs it later.  Which role a mapping   *)
(* is for makes no difference here: a mapping is <<target, selector>>.     *)
(***************************************************************************)
EXTENDS EventReplay, FiniteSets

CONSTANTS
  Artifact, Selector,
  Deployable,     \* the artifacts with bytecode: no interface, not abstract
  Target,         \* the managed contracts
  Listed,         \* those that have a name in DeploymentProxyRegistry
  ArtifactOf,     \* target -> the artifact its deployment task names
  Abi0, Script0,  \* the first ABIs, and the functions the deployment maps
  Opaque,         \* references of the scripts that the lint cannot read
  ManagerBlock,   \* the block in which the manager was created
  EnvStart,       \* values of the *_STARTING_BLOCK variable, NoEnv included
  NoEnv, NoArtifact,
  ChunkSize,
  MaxAdds, MaxRemoves, MaxEdits  \* bounds: events of each kind, changes of the source

ASSUME AuditAssumption ==
  /\ ManagerBlock \in Nat /\ ChunkSize \in Nat \ {0}
  /\ MaxAdds \in Nat /\ MaxRemoves \in Nat /\ MaxEdits \in Nat
  /\ Listed \subseteq Target /\ Deployable \subseteq Artifact
  /\ ArtifactOf \in [Target -> Artifact]
  /\ Abi0 \in [Artifact -> SUBSET Selector] /\ Script0 \in [Target -> SUBSET Selector]
  /\ NoEnv \notin Nat /\ EnvStart \subseteq Nat \cup {NoEnv}
  /\ NoArtifact \notin Artifact /\ IsFiniteSet(Selector)

VARIABLES
  abi, script, edits,   \* the source: ABIs, the functions the deployments map
  log, mapped,          \* the manager: its events, its mappings
  pc,                   \* the audit: "idle", "fetching" or "reported"
  migrating, scope,     \* its options
  from, latest,         \* the range of blocks it scans
  cursor, got,          \* the streams: their next block, the events fetched
  snapshot,             \* history: the mappings when latest was read
  seen, stale,          \* its result
  file, todo,           \* the last migration written, removals of the one being run
  progress,             \* of the last migration: "none", "written", "running", "done"
  quiet                 \* history: nothing but the migration has changed anything
chain == <<log, mapped>>
code == <<abi, script, edits>>
audit == <<pc, migrating, scope, from, latest, cursor, got, snapshot, seen, stale>>
migration == <<file, todo, progress, quiet>>
vars == <<chain, code, audit, migration>>

Mapping == Target \X Selector

\* One transaction a block.
HeadBlock == ManagerBlock + Len(log)
BlockOf(i) == ManagerBlock + i
Emit(kind, key) == log' = Append(log, Event(kind, key))
Emitted(kind) == Cardinality({i \in DOMAIN log : log[i].kind = kind})

-----------------------------------------------------------------------------
\* binarySearchDeployBlock: the lowest block at which the manager has code,
\* searched between two blocks <<lo, hi>>.
HasCode(b) == b >= ManagerBlock
Middle(w) == (w[1] + w[2]) \div 2

\* Mutation: the search returns the block after.
DeployBlockPast(head) ==
  LET search[w \in (0 .. head) \X (0 .. head)] ==
        IF w[1] + 1 >= w[2] THEN w[2] + 1
        ELSE IF HasCode(Middle(w)) THEN search[<<w[1], Middle(w)>>] ELSE search[<<Middle(w), w[2]>>]
  IN IF HasCode(0) THEN 0 ELSE search[<<0, head>>]

DeployBlock(head) ==
  LET search[w \in (0 .. head) \X (0 .. head)] ==
        IF w[1] + 1 >= w[2] THEN w[2]
        ELSE IF HasCode(Middle(w)) THEN search[<<w[1], Middle(w)>>] ELSE search[<<Middle(w), w[2]>>]
  IN IF HasCode(0) THEN 0 ELSE search[<<0, head>>]

\* resolveStartingBlock: the flag, the variable, the search, or 0 when the
\* node does not serve old code.  Of the flags only --from-block 0 is taken.
Starts == {0} \cup (EnvStart \ {NoEnv})
          \cup (IF NoEnv \in EnvStart THEN {DeployBlock(HeadBlock)} ELSE {})

-----------------------------------------------------------------------------
\* The classification of what a replay found.

Selectors(live, t) == {s \in Selector : <<t, s>> \in live}

\* fingerprintByAllSelectors: an artifact with all of the selectors, a
\* deployable one before an interface, then the one with fewest functions.
Candidates(sels) == {a \in Artifact : sels \subseteq abi[a]}
Better(a, b) == \/ a \in Deployable /\ b \notin Deployable
                \/ /\ a \in Deployable <=> b \in Deployable
                   /\ Cardinality(abi[a]) < Cardinality(abi[b])
Fingerprint(sels) == IF Candidates(sels) = {} THEN NoArtifact
                     ELSE CHOOSE a \in Candidates(sels) : \A b \in Candidates(sels) : ~Better(b, a)

\* buildRegistryNameToArtifactName: what the registry's name stands for.
NamedArtifact(t) == IF t \in Listed THEN ArtifactOf[t] ELSE NoArtifact

\* The artifact of the target's name, when it has every selector that is
\* mapped on the target; otherwise any artifact that has.
Resolved(live, t) ==
  IF NamedArtifact(t) \in Candidates(Selectors(live, t)) THEN NamedArtifact(t)
  ELSE Fingerprint(Selectors(live, t))

StaleOf(live) == {k \in live : LET a == Resolved(live, k[1])
                               IN IF a = NoArtifact THEN TRUE ELSE k[2] \notin abi[a]}

\* audit:deploy-selectors: the references it can read, by the way their
\* argument is written; what it collects; the artifact that the variable of a
\* factory is bound to; what names no function of it.
Readable == Mapping \ Opaque
References == {k \in Readable : k[2] \in script[k[1]]}
BoundArtifact(t) == ArtifactOf[t]
LintMissing == {k \in References : k[2] \notin abi[BoundArtifact(k[1])]}

\* runGenerateMigration: no audit after a lint with findings, and no file
\* after an audit that finds nothing stale.
MayMigrate == LintMissing = {}
Writes(found) == migrating /\ found # {}

-----------------------------------------------------------------------------
\* Source and deployments.

EditAbi(a, s) ==
  /\ edits < MaxEdits
  /\ abi' = [abi EXCEPT ![a] = IF s \in @ THEN @ \ {s} ELSE @ \cup {s}]
  /\ edits' = edits + 1 /\ quiet' = FALSE
  /\ UNCHANGED <<script, chain, audit, file, todo, progress>>

EditScript(t, s) ==
  /\ edits < MaxEdits
  /\ script' = [script EXCEPT ![t] = IF s \in @ THEN @ \ {s} ELSE @ \cup {s}]
  /\ edits' = edits + 1 /\ quiet' = FALSE
  /\ UNCHANGED <<abi, chain, audit, file, todo, progress>>

\* addFunctionAllowedRoles by a deployment: getFunction throws on a name that
\* the artifact lacks.  The event is emitted for a mapping that exists, too.
AddFunctionAllowedRoles(t, s) ==
  /\ s \in script[t] \cap abi[BoundArtifact(t)]
  /\ Emitted("add") < MaxAdds
  /\ mapped' = mapped \cup {<<t, s>>}
  /\ Emit("add", <<t, s>>)
  /\ quiet' = FALSE
  /\ UNCHANGED <<code, audit, file, todo, progress>>

-----------------------------------------------------------------------------
\* The audit.  A migration begins with the lint, and writes nothing when the
\* lint finds a broken reference.

Begin(migrate, filter, start) ==
  /\ pc # "fetching"
  /\ migrate => MayMigrate
  /\ start \in 0 .. HeadBlock
  /\ pc' = "fetching" /\ migrating' = migrate /\ scope' = filter
  /\ from' = start /\ latest' = HeadBlock
  /\ cursor' = [kind \in Kinds |-> start] /\ got' = {}
  /\ snapshot' = mapped /\ seen' = {} /\ stale' = {}
  /\ quiet' = migrate
  /\ UNCHANGED <<chain, code, file, todo, progress>>

\* fetchLogsChunked: one getLogs of a stream; the streams run in parallel.
Fetch(kind) ==
  /\ pc = "fetching" /\ cursor[kind] <= latest
  /\ LET to == IF cursor[kind] + ChunkSize - 1 > latest THEN latest ELSE cursor[kind] + ChunkSize - 1
     IN /\ got' = got \cup {i \in DOMAIN log : log[i].kind = kind /\ BlockOf(i) \in cursor[kind] .. to}
        /\ cursor' = [cursor EXCEPT ![kind] = to + 1]
  /\ UNCHANGED <<chain, code, migration, pc, migrating, scope, from, latest, snapshot, seen, stale>>

\* Mutation: the file clears the contracts that have a name.
ReportListed ==
  /\ pc = "fetching" /\ \A kind \in Kinds : cursor[kind] > latest
  /\ pc' = "reported"
  /\ seen' = {k \in Replayed(log, got) : k[1] \in scope}
  /\ stale' = StaleOf(seen')
  /\ file' = IF Writes(stale') THEN {k \in stale' : k[1] \in Listed} ELSE file
  /\ progress' = IF Writes(stale') THEN "written" ELSE progress
  /\ UNCHANGED <<chain, code, migrating, scope, from, latest, cursor, got, snapshot, todo, quiet>>

\* The verdict, and the script that removes what is stale.
Report ==
  /\ pc = "fetching" /\ \A kind \in Kinds : cursor[kind] > latest
  /\ pc' = "reported"
  /\ seen' = {k \in Replayed(log, got) : k[1] \in scope}
  /\ stale' = StaleOf(seen')
  /\ file' = IF Writes(stale') THEN stale' ELSE file
  /\ progress' = IF Writes(stale') THEN "written" ELSE progress
  /\ UNCHANGED <<chain, code, migrating, scope, from, latest, cursor, got, snapshot, todo, quiet>>

-----------------------------------------------------------------------------
\* The operator runs the last file: its removals one after the other.  It can
\* stop between two of them, and be run again.

RunFile ==
  /\ file # {} /\ todo = {}
  /\ todo' = file /\ progress' = "running"
  /\ UNCHANGED <<chain, code, audit, file, quiet>>

RemoveFunctionAllowedRoles(k) ==
  /\ k \in todo /\ Emitted("remove") < MaxRemoves
  /\ mapped' = mapped \ {k}
  /\ Emit("remove", k)
  /\ todo' = todo \ {k}
  /\ progress' = IF progress = "running" /\ todo' = {} THEN "done" ELSE progress
  /\ UNCHANGED <<code, audit, file, quiet>>

StopFile ==
  /\ todo # {}
  /\ todo' = {}
  /\ progress' = IF progress = "running" THEN "written" ELSE progress
  /\ UNCHANGED <<chain, code, audit, file, quiet>>

-----------------------------------------------------------------------------
Init ==
  /\ abi = Abi0 /\ script = Script0 /\ edits = 0
  /\ log = << >> /\ mapped = {}
  /\ pc = "idle" /\ migrating = FALSE /\ scope = Target
  /\ from = 0 /\ latest = 0
  /\ cursor = [kind \in Kinds |-> 0] /\ got = {}
  /\ snapshot = {} /\ seen = {} /\ stale = {}
  /\ file = {} /\ todo = {} /\ progress = "none" /\ quiet = FALSE

\* --contracts keeps the names it knows, and needs one.
Filters == {Target} \cup {{t} : t \in Listed}

Next ==
  \/ \E a \in Artifact, s \in Selector : EditAbi(a, s)
  \/ \E t \in Target, s \in Selector : EditScript(t, s)
  \/ \E t \in Target, s \in Selector : AddFunctionAllowedRoles(t, s)
  \/ \E migrate \in BOOLEAN, filter \in Filters, start \in Starts : Begin(migrate, filter, start)
  \/ \E kind \in Kinds : Fetch(kind)
  \/ Report
  \/ RunFile \/ StopFile
  \/ \E k \in Mapping : RemoveFunctionAllowedRoles(k)

Spec == Init /\ [][Next]_vars

-----------------------------------------------------------------------------
TypeOK ==
  /\ abi \in [Artifact -> SUBSET Selector] /\ script \in [Target -> SUBSET Selector]
  /\ edits \in Nat
  /\ log \in Seq([kind : Kinds, key : Mapping]) /\ mapped \subseteq Mapping
  /\ pc \in {"idle", "fetching", "reported"} /\ migrating \in BOOLEAN /\ scope \subseteq Target
  /\ from \in Nat /\ latest \in Nat /\ latest <= HeadBlock
  /\ cursor \in [Kinds -> 0 .. latest + 1] /\ got \subseteq DOMAIN log
  /\ snapshot \subseteq Mapping /\ seen \subseteq Mapping /\ stale \subseteq seen
  /\ file \subseteq Mapping /\ todo \subseteq Mapping
  /\ progress \in {"none", "written", "running", "done"} /\ quiet \in BOOLEAN

\* However the first block of a scan is found, the manager was created in it
\* or later.
StartCoversLog == pc # "idle" => from <= ManagerBlock

\* Deployments and migrations go on while the two streams are fetched window
\* by window.  What an audit reports on is nevertheless exactly what was
\* mapped at one moment, when it read the head of the chain.
ReplayIsLive ==
  /\ StartCoversLog
  /\ pc = "reported" => seen = {k \in snapshot : k[1] \in scope}

\* A migration that has been run to its end, with nothing deployed and no
\* source changed since its audit began, leaves an audit nothing to report.
MigrationConverges ==
  (pc = "reported" /\ migrating /\ progress = "done" /\ quiet) =>
    StaleOf({k \in mapped : k[1] \in scope}) = {}

\* What an audit reports as stale names no function of its contract.
StaleMeansNoFunction ==
  [][pc = "fetching" /\ pc' = "reported" =>
       \A k \in stale' : k[1] \in Listed => k[2] \notin abi[ArtifactOf[k[1]]]]_vars
=============================================================================

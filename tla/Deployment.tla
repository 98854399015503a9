----------------------------- MODULE Deployment -----------------------------
(***************************************************************************)
(* The deployment of one chain: a hardhat task executes its plan, phase by *)
(* phase, the branches of a phase in parallel (Promise.all).  Each step is *)
(* a transaction that the chain executes or reverts; the task may stop     *)
(* between any two of them, and be started again.  A restarted task reads  *)
(* the manifest and refuses to deploy over what it finds there.            *)
(* The transactions of a batch, their nonces and their retries are the     *)
(* module BatchDeploy; here a step that is mined is mined once.            *)
(***************************************************************************)
EXTENDS Naturals, FiniteSets, DeploySteps, ExpectedRoles

CONSTANTS
  Plans,        \* task -> [phases, checks, calls, messages, grantors, expected]
  Named,        \* the tasks that run with PARTICIPANT_NAME set
  MaxFaults,    \* bound: transactions that fail, or processes that die
  MaxRuns       \* bound: times the task is started

ASSUME BoundsAssumption == MaxFaults \in Nat /\ MaxRuns \in Nat \ {0}
ASSUME PlansAssumption ==
  \A t \in DOMAIN Plans : LET phases == Plans[t].phases IN
    /\ Len(phases) \in Nat \ {0} /\ DOMAIN phases = 1 .. Len(phases)
    /\ \A p \in DOMAIN phases : \A b \in DOMAIN phases[p] :
         Len(phases[p][b]) \in Nat /\ DOMAIN phases[p][b] = 1 .. Len(phases[p][b])

VARIABLES
  task,         \* the task that runs
  phase, at,    \* its current phase, and the steps done in each branch of it
  status,       \* "running", "done", "failed" or "blocked"
  am,           \* the access manager
  deployed,     \* the contracts that exist
  wire,         \* <<contract, slot>> -> the contract stored there
  names,        \* what DeploymentProxyRegistry knows
  manifest,     \* file -> the runs with a proxy recorded in it
  blind,        \* history: the runs that began on a manifest they could not read
  runs, faults
books == <<manifest, blind>>
vars == <<task, phase, at, status, am, deployed, wire, names, books, runs, faults>>

Plan == Plans[task]
Branches == DOMAIN Plan.phases[phase]
Pending(b) == at[b] < Len(Plan.phases[phase][b])
Step(b) == Plan.phases[phase][b][at[b] + 1]

\* Two files: with the participant's suffix and without.
Recorded == IF task \in Named THEN "suffixed" ELSE "plain"
\* Mutation: every task looks at the file without a suffix.
CheckedPlain == "plain"
\* Only the public-chain task passes PARTICIPANT_NAME to the manifest it checks.
Checked == IF task \in Named /\ Plan.checks = "suffixed" THEN "suffixed" ELSE "plain"

\* hasExistingDeployments of that file: has it a proxy?
Existing == manifest[Checked] # {}

FreshChain ==
  [am |-> NewManager(deployer), deployed |-> {}, wire |-> << >>, names |-> {}]

Init ==
  /\ task \in DOMAIN Plans
  /\ phase = 1
  /\ at = [b \in DOMAIN Plans[task].phases[1] |-> 0]
  /\ status = "running"
  /\ am = FreshChain.am /\ deployed = FreshChain.deployed
  /\ wire = FreshChain.wire /\ names = FreshChain.names
  /\ manifest = [file \in {"plain", "suffixed"} |-> {}]
  /\ blind = {} /\ runs = 1 /\ faults = 0

-----------------------------------------------------------------------------
\* Whether a transaction succeeds.

Set2Wire(c, slots) == [p \in {<<c, s>> : s \in DOMAIN slots} |-> slots[p[2]]]
Holds(slots) == \A s \in DOMAIN slots : slots[s] \in deployed

\* A call goes through when its slot is set, the callee's guard lets the
\* caller pass, and the callee knows the caller where it asks for it.
Ready(w, call) ==
  /\ <<call.at, call.slot>> \in DOMAIN w
  /\ LET target == w[<<call.at, call.slot>>]
     IN /\ call.function = "open" \/ CanCall(am, call.from, target, call.function)
        /\ \/ call.back = "nobody"
           \/ <<target, call.back>> \in DOMAIN w /\ w[<<target, call.back>>] = call.from

Succeeds(s) ==
  \/ s.op = "deploy" /\ Holds(s.slots) /\ (s.registers => DOMAIN s.mappings \subseteq am.roles)
  \/ s.op = "record"
  \/ /\ s.op = "config" /\ s.c \in deployed /\ Holds(s.slots)
     /\ \A call \in s.calls : Ready(Over(Set2Wire(s.c, s.slots), wire), call)
  \/ s.op = "role" /\ s.role \notin am.roles
  \/ s.op = "map" /\ s.c \in deployed /\ s.roles \subseteq am.roles
  \/ s.op \in {"grant", "scoped"} /\ s.c \in deployed \cup {deployer} /\ s.role \in am.roles
  \/ s.op = "admin" /\ {s.role, s.admin} \subseteq am.roles
  \/ /\ s.op = "resource" /\ s.c \in deployed
     /\ Ready(wire, Guarded("Endpoint", "resourceManager", "registerResourceId"))
  \/ s.op = "names" /\ s.cs \subseteq deployed
  \/ s.op = "hub" /\ s.name \in s.published

Executes(b, s) ==
  /\ Succeeds(s)
  /\ at' = [at EXCEPT ![b] = @ + 1]
  /\ UNCHANGED <<task, phase, status, blind, runs, faults>>

-----------------------------------------------------------------------------
\* The steps of a task.

Deploy(b, s) ==
  /\ s.op = "deploy" /\ Executes(b, s)
  /\ deployed' = deployed \cup {s.c}
  /\ wire' = Over(Set2Wire(s.c, s.slots), wire)
  /\ am' = IF s.registers THEN SelfRegister(am, s.c, s.owner, s.mappings) ELSE am
  /\ UNCHANGED <<names, manifest>>

\* The proxies of a batch and their implementations are recorded one after the
\* other.  recordProxy reads and writes the file at once.  recordImplementation
\* awaits between its two, and may write over what another branch has recorded
\* meanwhile, but not over a proxy recorded before it began: from the first
\* proxy on the file has one of this run.
Record(b, s) ==
  /\ s.op = "record" /\ Executes(b, s)
  /\ manifest' = [manifest EXCEPT ![Recorded] = @ \cup {runs}]
  /\ UNCHANGED <<am, deployed, wire, names>>

Configure(b, s) ==
  /\ s.op = "config" /\ Executes(b, s)
  /\ wire' = Over(Set2Wire(s.c, s.slots), wire)
  /\ UNCHANGED <<am, deployed, names, manifest>>

Administer(b, s) ==
  /\ s.op \in {"role", "map", "grant", "admin", "scoped"} /\ Executes(b, s)
  /\ \/ s.op = "role" /\ am' = RegisterRole(am, s.role)
     \/ s.op = "map" /\ am' = AddFunctionAllowedRoles(am, s.c, s.functions, s.roles)
     \/ s.op = "grant" /\ am' = GrantRole(am, s.role, s.c)
     \/ s.op = "admin" /\ am' = SetRoleAdmin(am, s.role, s.admin)
     \/ s.op = "scoped" /\ am' = GrantContractScopedRole(am, s.role, s.c, s.on)
  /\ UNCHANGED <<deployed, wire, names, manifest>>

RegisterResourceId(b, s) ==
  /\ s.op = "resource" /\ Executes(b, s)
  /\ wire' = Over([p \in {<<"ResourceManager", s.id>>} |-> s.c], wire)
  /\ UNCHANGED <<am, deployed, names, manifest>>

RegisterContracts(b, s) ==
  /\ s.op = "names" /\ Executes(b, s)
  /\ names' = names \cup s.cs
  /\ UNCHANGED <<am, deployed, wire, manifest>>

\* A name that the hub's registry does not know is the zero address, which the
\* endpoint refuses; what it stores is an address of the other chain.
RegisterPrivateHubAddress(b, s) ==
  /\ s.op = "hub" /\ Executes(b, s)
  /\ UNCHANGED <<am, deployed, wire, names, manifest>>

\* A transaction that reverts rejects the Promise.all and ends the process.
Revert(s) ==
  /\ ~Succeeds(s)
  /\ status' = "failed"
  /\ UNCHANGED <<task, phase, at, am, deployed, wire, names, books, runs, faults>>

NextPhase ==
  /\ status = "running" /\ phase < Len(Plan.phases)
  /\ \A b \in Branches : ~Pending(b)
  /\ phase' = phase + 1
  /\ at' = [b \in DOMAIN Plan.phases[phase + 1] |-> 0]
  /\ UNCHANGED <<task, status, am, deployed, wire, names, books, runs, faults>>

Finish ==
  /\ status = "running" /\ phase = Len(Plan.phases)
  /\ \A b \in Branches : ~Pending(b)
  /\ status' = "done"
  /\ UNCHANGED <<task, phase, at, am, deployed, wire, names, books, runs, faults>>

\* The process dies, or a call of the node fails for good.
Crash ==
  /\ status = "running" /\ faults < MaxFaults
  /\ faults' = faults + 1
  /\ status' = "failed"
  /\ UNCHANGED <<task, phase, at, am, deployed, wire, names, books, runs>>

\* The operator runs the task again: all of it, with contracts of its own.
StartAgain ==
  /\ status \in {"done", "failed"} /\ runs < MaxRuns
  /\ status' = "running" /\ runs' = runs + 1
  /\ phase' = 1
  /\ at' = [b \in DOMAIN Plan.phases[1] |-> 0]
  /\ am' = FreshChain.am /\ deployed' = FreshChain.deployed
  /\ wire' = FreshChain.wire /\ names' = FreshChain.names
  /\ UNCHANGED <<task, manifest>>

Restart == ~Existing /\ StartAgain /\ UNCHANGED <<blind, faults>>

\* hasExistingDeployments catches every error and answers that there are none.
RestartUnread ==
  /\ faults < MaxFaults
  /\ StartAgain
  /\ blind' = blind \cup {runs + 1} /\ faults' = faults + 1

Refuse ==
  /\ status \in {"done", "failed"} /\ runs < MaxRuns
  /\ Existing
  /\ status' = "blocked"
  /\ UNCHANGED <<task, phase, at, am, deployed, wire, names, books, runs, faults>>

\* The next transaction of a branch that is not at its end.
Advance(b) ==
  /\ status = "running" /\ Pending(b)
  /\ \E s \in {Step(b)} :
       \/ Deploy(b, s) \/ Record(b, s) \/ Configure(b, s) \/ Administer(b, s)
       \/ RegisterResourceId(b, s) \/ RegisterContracts(b, s)
       \/ RegisterPrivateHubAddress(b, s) \/ Revert(s)

Next == (\E b \in Branches : Advance(b)) \/ NextPhase \/ Finish \/ Crash
        \/ Restart \/ RestartUnread \/ Refuse

Spec == Init /\ [][Next]_vars

-----------------------------------------------------------------------------
TypeOK ==
  /\ task \in DOMAIN Plans /\ phase \in DOMAIN Plan.phases
  /\ at \in [Branches -> Nat] /\ \A b \in Branches : at[b] <= Len(Plan.phases[phase][b])
  /\ status \in {"running", "done", "failed", "blocked"}
  /\ {wire[p] : p \in DOMAIN wire} \cup {p[1] : p \in DOMAIN wire} \cup names \subseteq deployed
  /\ \A file \in DOMAIN manifest : manifest[file] \subseteq 1..runs
  /\ DOMAIN am.members = am.roles /\ DOMAIN am.admin = am.roles
  /\ \A r \in am.roles : am.members[r] \subseteq deployed \cup {deployer}
  /\ \A t \in am.allowed : t[1] \in deployed /\ t[3] \in am.roles
  /\ blind \subseteq 1..runs /\ runs \in 1..MaxRuns /\ faults \in 0..MaxFaults

\* Whatever the branches' order, every constructor, setter, lookup of a role
\* and check of a plan finds what it needs: a task fails only when it is
\* stopped from outside, and a plan is finite.
FailsOnlyWhenStopped == status = "failed" => faults > 0

\* A deployment that is done works: every call its contracts make of each
\* other at run time is wired, mapped to a role and granted, and those that
\* grant roles to the contracts they create may do so.
RuntimeReady ==
  status = "done" =>
    /\ \A call \in Plan.calls \cup Plan.messages : Ready(wire, call)
    /\ \A g \in Plan.grantors : CanGrant(am, g[1], g[2])

\* Relayers find a chain by its registry, so what a message passes through is
\* complete before a name is there.
MessagesReadyWhenNamed ==
  names # {} => \A call \in Plan.messages : Ready(wire, call)

\* audit:check-roles of a deployment that is done, by the names it published.
FreshFindings == RoleFindings(am, names, Plan.expected)

\* The audit of the hub and of the public chain exits with 0 after a deployment.
AuditedClean == {"private-hub", "public-chain"}
FreshAuditsClean == (status = "done" /\ task \in AuditedClean) => FreshFindings = {}

\* So does the audit of a privacy node.
PrivacyNodeAuditClean ==
  (status = "done" /\ task \notin AuditedClean) => FreshFindings = {}

\* The manifest of a chain never mixes the contracts of two runs that could
\* read it: the second is refused when the first recorded anything.  (False of a
\* hub or a privacy node in Named, whose task checks the file it does not write.)
OneRecordedRun ==
  \A file \in DOMAIN manifest : Cardinality(manifest[file] \ blind) <= 1
=============================================================================

---------------------------- MODULE PlanEffects ----------------------------
(***************************************************************************)
(* What a set of steps of a deployment plan leaves behind, in whatever     *)
(* order they are executed, and what can be read off a plan without        *)
(* executing it: whether every step, every call at run time and the role   *)
(* audit find what they need.  A step has before it what precedes it in    *)
(* its branch and in the earlier phases; of the branches that run beside   *)
(* it anything or nothing may have been executed.                          *)
(***************************************************************************)
EXTENDS Naturals, DeploySteps, ExpectedRoles

Ops(S, op) == {s \in S : s.op = op}

\* The contracts, the published names, and the values that were stored in a
\* slot: the last of them is there.
Contracts(S) == {s.c : s \in Ops(S, "deploy")}
Published(S) == UNION {s.cs : s \in Ops(S, "names")}
SlotsOf(s) ==
  CASE s.op \in {"deploy", "config"} -> {s.c} \X DOMAIN s.slots
    [] s.op = "resource" -> {<<"ResourceManager", s.id>>}
    [] OTHER -> {}
ValueAt(s, slot) == IF s.op = "resource" THEN s.c ELSE s.slots[slot[2]]
Slots(S) == UNION {SlotsOf(s) : s \in S}
Stored(S, slot) == {ValueAt(s, slot) : s \in {x \in S : slot \in SlotsOf(x)}}

\* The access manager; a role is administered by one of those that were set.
Roles(S) == {ADMIN, TOKEN_OWNER} \cup {s.role : s \in Ops(S, "role")}
Members(S, r) == (IF r = ADMIN THEN {deployer} ELSE {})
                 \cup {s.c : s \in {x \in Ops(S, "grant") : x.role = r}}
SelfRegistering(S) == {s \in Ops(S, "deploy") : s.registers}
OwnMappings(s) == UNION {{<<s.c, f, r>> : f \in s.mappings[r]} : r \in DOMAIN s.mappings}
Allowed(S) == (UNION {{s.c} \X s.functions \X s.roles : s \in Ops(S, "map")})
              \cup (UNION {OwnMappings(s) : s \in SelfRegistering(S)})
ScopedGrants(S) == {<<s.role, s.c, s.on>> : s \in Ops(S, "scoped")}
                   \cup {<<TOKEN_OWNER, s.owner, s.c>> : s \in SelfRegistering(S)}
AdminsSet(S, r) == {s.admin : s \in {x \in Ops(S, "admin") : x.role = r}}
Admins(S, r) == IF AdminsSet(S, r) = {} THEN {ADMIN} ELSE AdminsSet(S, r)
Manager(S, admin) ==
  [roles |-> Roles(S), members |-> [r \in Roles(S) |-> Members(S, r)],
   allowed |-> Allowed(S), scoped |-> ScopedGrants(S), admin |-> admin]

-----------------------------------------------------------------------------
\* The places of a plan: phase, branch, position in the branch.
Places(phases) ==
  UNION {UNION {{<<p, b, i>> : i \in DOMAIN phases[p][b]} : b \in DOMAIN phases[p]}
         : p \in DOMAIN phases}
At(phases, x) == phases[x[1]][x[2]][x[3]]
StepsAt(phases, X) == {At(phases, x) : x \in X}
AllSteps(phases) == StepsAt(phases, Places(phases))

Precedes(y, x) == y[1] < x[1] \/ (y[1] = x[1] /\ y[2] = x[2] /\ y[3] < x[3])
MayPrecede(y, x) == Precedes(y, x) \/ (y[1] = x[1] /\ y[2] # x[2])
Surely(phases, x) == StepsAt(phases, {y \in Places(phases) : Precedes(y, x)})
Possibly(phases, x) == StepsAt(phases, {y \in Places(phases) : MayPrecede(y, x)})

-----------------------------------------------------------------------------
\* When all of M and nothing but Y has been executed: a call goes through, a
\* step succeeds, a contract may grant a role.
Finds(M, Y, call) ==
  LET slot == <<call.at, call.slot>>
  IN /\ slot \in Slots(M)
     /\ \A target \in Stored(Y, slot) :
          /\ \/ call.function = "open"
             \/ CanCall(Manager(M, << >>), call.from, target, call.function)
          /\ \/ call.back = "nobody"
             \/ /\ <<target, call.back>> \in Slots(M)
                /\ Stored(Y, <<target, call.back>>) = {call.from}

Exist(M, slots) == \A s \in DOMAIN slots : slots[s] \in Contracts(M)

Fits(M, Y, s) ==
  \/ /\ s.op = "deploy" /\ Exist(M, s.slots)
     /\ s.registers => DOMAIN s.mappings \subseteq Roles(M)
  \/ s.op = "record"
  \/ /\ s.op = "config" /\ s.c \in Contracts(M) /\ Exist(M, s.slots)
     /\ \A call \in s.calls : Finds(M \cup {s}, Y \cup {s}, call)
  \/ s.op = "role" /\ s.role \notin Roles(Y)
  \/ s.op = "map" /\ s.c \in Contracts(M) /\ s.roles \subseteq Roles(M)
  \/ s.op \in {"grant", "scoped"} /\ s.c \in Contracts(M) \cup {deployer} /\ s.role \in Roles(M)
  \/ s.op = "admin" /\ {s.role, s.admin} \subseteq Roles(M)
  \/ /\ s.op = "resource" /\ s.c \in Contracts(M)
     /\ Finds(M, Y, Guarded("Endpoint", "resourceManager", "registerResourceId"))
  \/ s.op = "names" /\ s.cs \subseteq Contracts(M)
  \/ s.op = "hub" /\ s.name \in s.published

MayGrant(S, g) ==
  /\ g[2] \in Roles(S)
  /\ \A r \in Admins(S, g[2]) : r \in Roles(S) /\ g[1] \in Members(S, ADMIN) \cup Members(S, r)

-----------------------------------------------------------------------------
\* Every step of a plan succeeds; what it leaves works; what a message needs
\* is there before the names are; the endpoint knows no resource manager but
\* the one that has the resources; and the role audit finds what it expects.
StepsFit(plan) ==
  \A x \in Places(plan.phases) :
    Fits(Surely(plan.phases, x), Possibly(plan.phases, x), At(plan.phases, x))
CallsFit(plan) ==
  LET S == AllSteps(plan.phases)
  IN /\ \A call \in plan.calls \cup plan.messages : Finds(S, S, call)
     /\ \A g \in plan.grantors : MayGrant(S, g)
NamesFit(plan) ==
  \A x \in Places(plan.phases) : At(plan.phases, x).op = "names" =>
    \A call \in plan.messages : Finds(Surely(plan.phases, x), AllSteps(plan.phases), call)
ResourcesFit(plan) ==
  Stored(AllSteps(plan.phases), <<"Endpoint", "resourceManager">>) \subseteq {"ResourceManager"}
AuditFits(plan) ==
  LET S == AllSteps(plan.phases)
  IN RoleFindings(Manager(S, << >>), Published(S), plan.expected) = {}
=============================================================================

-------------------------- MODULE Deployment_proofs --------------------------
(***************************************************************************)
(* Proofs about Deployment, for any tasks, plans, faults and runs.  A task *)
(* that checks the manifest under the name it records under never mixes    *)
(* the contracts of two runs.  Whatever the interleaving of its branches,  *)
(* what a task leaves on the chain is the sum of the steps it has taken    *)
(* (PlansAddUp); hence what the conditions of PlanEffects read off a plan  *)
(* without executing it holds of every execution: no step reverts, what    *)
(* is deployed works, names are published last and the role audit is       *)
(* clean.  DeploymentPlans states the conditions of the tasks' own plans.  *)
(* Nothing on the chain refers to a contract that does not exist.          *)
(***************************************************************************)
EXTENDS Deployment, PlanEffects, FiniteSetTheorems, TLAPS

\* The tasks that run with a participant's name check the file that has it.
ChecksWhatItRecords == \A t \in DOMAIN Plans : t \in Named => Plans[t].checks = "suffixed"

\* What runs that could read the manifest have recorded is of one run, the
\* present one if it is among them,
OneFirst ==
  \E first \in Nat : /\ manifest[Checked] \subseteq {first} \cup blind
                     /\ runs \notin blind => first = runs

\* and it is in the file the task checks.
RecordInv ==
  /\ task \in DOMAIN Plans
  /\ manifest = [file \in {"plain", "suffixed"} |-> manifest[file]]
  /\ runs \in Nat /\ blind \subseteq Nat /\ \A r \in blind : r <= runs
  /\ \A file \in DOMAIN manifest : file # Checked => manifest[file] = {}
  /\ OneFirst

LEMMA SameFile ==
  ASSUME ChecksWhatItRecords, task \in DOMAIN Plans
  PROVE  Recorded = Checked /\ Checked \in {"plain", "suffixed"}
BY DEF ChecksWhatItRecords, Recorded, Checked, Plan

LEMMA RecordInit ==
  ASSUME ChecksWhatItRecords, Init
  PROVE  RecordInv
<1>1. /\ task \in DOMAIN Plans /\ blind = {} /\ runs = 1
      /\ manifest = [file \in {"plain", "suffixed"} |-> {}]
  BY DEF Init
<1>2. Checked \in {"plain", "suffixed"}
  BY <1>1, SameFile
<1>3. manifest[Checked] \subseteq {1} \cup blind
  BY <1>1, <1>2
<1>4. OneFirst
  BY <1>1, <1>3 DEF OneFirst
<1> QED BY <1>1, <1>2, <1>4 DEF RecordInv

\* A batch records under the number of the run, in the task's file.
LEMMA RecordStep ==
  ASSUME ChecksWhatItRecords, RecordInv, NEW b, NEW s, Record(b, s)
  PROVE  RecordInv'
<1>1. Recorded = Checked /\ Checked \in {"plain", "suffixed"}
  BY SameFile DEF RecordInv
<1>2. /\ manifest' = [manifest EXCEPT ![Checked] = manifest[Checked] \cup {runs}]
      /\ task' = task /\ runs' = runs /\ blind' = blind
  BY <1>1 DEF Record, Executes
<1>3. Checked' = Checked
  BY <1>2 DEF Checked, Plan
<1>4. /\ DOMAIN manifest = {"plain", "suffixed"} /\ DOMAIN manifest' = {"plain", "suffixed"}
      /\ manifest' = [file \in {"plain", "suffixed"} |-> manifest'[file]]
  BY <1>1, <1>2 DEF RecordInv
<1>5. \A file \in DOMAIN manifest' : file # Checked => manifest'[file] = {}
  BY <1>2, <1>4 DEF RecordInv
<1>6. PICK first \in Nat : /\ manifest[Checked] \subseteq {first} \cup blind
                           /\ runs \notin blind => first = runs
  BY DEF RecordInv, OneFirst
<1>7. manifest'[Checked] = manifest[Checked] \cup {runs}
  BY <1>1, <1>2, <1>4
<1>8. manifest'[Checked] \subseteq {first} \cup blind
  BY <1>6, <1>7
<1>9. OneFirst'
  BY <1>2, <1>3, <1>6, <1>8 DEF OneFirst
<1> QED BY <1>2, <1>3, <1>4, <1>5, <1>9 DEF RecordInv

\* A run that could read the manifest found nothing recorded.
LEMMA RestartStep ==
  ASSUME ChecksWhatItRecords, RecordInv, Restart \/ RestartUnread
  PROVE  RecordInv'
<1>1. task' = task /\ manifest' = manifest /\ runs' = runs + 1 /\ runs \in Nat
  BY DEF Restart, RestartUnread, StartAgain, RecordInv
<1>2. Checked' = Checked /\ Checked \in {"plain", "suffixed"}
  BY <1>1, SameFile DEF Checked, Plan, RecordInv
<1>3. blind' = blind \/ blind' = blind \cup {runs + 1}
  BY DEF Restart, RestartUnread
<1>4. blind' \subseteq Nat /\ \A r \in blind' : r <= runs'
  <2>1. \A r \in blind : r <= runs + 1
    <3>1. \A r \in blind : r <= runs
      BY DEF RecordInv
    <3>2. blind \subseteq Nat
      BY DEF RecordInv
    <3> QED BY <1>1, <3>1, <3>2
  <2> QED BY <1>1, <1>3, <2>1 DEF RecordInv
<1>5. \E first \in Nat : /\ manifest'[Checked] \subseteq {first} \cup blind'
                         /\ runs' \notin blind' => first = runs'
  <2>1. CASE Restart
    <3>1. manifest'[Checked] = {} /\ runs' \in Nat
      BY <1>1, <2>1 DEF Restart, Existing
    <3> QED BY <3>1
  <2>2. CASE RestartUnread
    <3>1. PICK first \in Nat : manifest[Checked] \subseteq {first} \cup blind
      BY DEF RecordInv, OneFirst
    <3>2. blind' = blind \cup {runs + 1}
      BY <2>2 DEF RestartUnread
    <3>3. manifest'[Checked] \subseteq {first} \cup blind' /\ runs' \in blind'
      BY <1>1, <3>1, <3>2
    <3> QED BY <3>1, <3>3
  <2> QED BY <2>1, <2>2
<1>6. OneFirst'
  BY <1>2, <1>5 DEF OneFirst
<1> QED BY <1>1, <1>2, <1>4, <1>6 DEF RecordInv

LEMMA RecordNext == ChecksWhatItRecords /\ RecordInv /\ [Next]_vars => RecordInv'
<1> SUFFICES ASSUME ChecksWhatItRecords, RecordInv, [Next]_vars PROVE RecordInv'
  OBVIOUS
<1>1. ASSUME UNCHANGED <<task, books, runs>> PROVE RecordInv'
  <2>1. Checked' = Checked
    BY <1>1 DEF Checked, Plan
  <2> QED BY <1>1, <2>1 DEF RecordInv, OneFirst, books
<1>2. ASSUME NEW b, NEW s, Record(b, s) PROVE RecordInv'
  BY <1>2, RecordStep
<1>3. ASSUME NEW b \in Branches, Advance(b) PROVE RecordInv'
  <2>1. PICK s : \/ Deploy(b, s) \/ Record(b, s) \/ Configure(b, s) \/ Administer(b, s)
                 \/ RegisterResourceId(b, s) \/ RegisterContracts(b, s)
                 \/ RegisterPrivateHubAddress(b, s) \/ Revert(s)
    BY <1>3 DEF Advance
  <2>2. CASE Record(b, s)
    BY <1>2, <2>2
  <2>3. CASE ~Record(b, s)
    BY <1>1, <2>1, <2>3 DEF books, Deploy, Configure, Administer, RegisterResourceId,
       RegisterContracts, RegisterPrivateHubAddress, Revert, Executes
  <2> QED BY <2>2, <2>3
<1>4. CASE NextPhase \/ Finish \/ Crash \/ Refuse
  BY <1>1, <1>4 DEF NextPhase, Finish, Crash, Refuse
<1>5. CASE Restart \/ RestartUnread
  BY <1>5, RestartStep
<1>6. CASE UNCHANGED vars
  BY <1>1, <1>6 DEF vars
<1> QED BY <1>3, <1>4, <1>5, <1>6 DEF Next

\* However often a task is stopped and started again, its manifest holds the
\* contracts of one run that could read it, if the task checks the file it writes.
THEOREM ManifestsHoldOneRun ==
  ASSUME ChecksWhatItRecords
  PROVE  Spec => []OneRecordedRun
<1>1. RecordInv => OneRecordedRun
  <2> SUFFICES ASSUME RecordInv, NEW file \in DOMAIN manifest
               PROVE  Cardinality(manifest[file] \ blind) <= 1
    BY DEF OneRecordedRun
  <2>1. PICK first \in Nat : manifest[file] \ blind \subseteq {first}
    <3>1. PICK first \in Nat : manifest[Checked] \subseteq {first} \cup blind
      BY DEF RecordInv, OneFirst
    <3>2. manifest[file] = {} \/ file = Checked
      BY DEF RecordInv
    <3> QED BY <3>1, <3>2
  <2>2. IsFiniteSet({first}) /\ Cardinality({first}) = 1
    BY FS_Singleton
  <2> QED BY <2>1, <2>2, FS_Subset
<1>2. Init => RecordInv
  BY RecordInit
<1>3. RecordInv /\ [Next]_vars => RecordInv'
  BY RecordNext
<1> QED BY <1>1, <1>2, <1>3, PTL DEF Spec


-----------------------------------------------------------------------------
(* What is on the chain is the sum of the steps a task has passed.         *)

Passed == {x \in Places(Plan.phases) : x[1] < phase \/ (x[1] = phase /\ x[3] <= at[x[2]])}
Executed == StepsAt(Plan.phases, Passed)

\* A slot holds one of the values that were stored in it, a role has one of
\* the administrators that were set; all else does not depend on the order.
Tally(S) ==
  /\ deployed = Contracts(S) /\ names = Published(S)
  /\ DOMAIN wire = Slots(S)
  /\ \A slot \in DOMAIN wire : wire[slot] \in Stored(S, slot)
  /\ am = Manager(S, am.admin) /\ DOMAIN am.admin = Roles(S)
  /\ \A r \in Roles(S) : am.admin[r] \in Admins(S, r)
  /\ \A s \in S : s.op \in {"grant", "admin"} => s.role \in Roles(S)

CursorInv ==
  /\ task \in DOMAIN Plans /\ phase \in DOMAIN Plan.phases
  /\ at \in [Branches -> Nat]
  /\ status \in {"running", "done", "failed", "blocked"}
  /\ status = "done" => Passed = Places(Plan.phases)

SumInv == CursorInv /\ Tally(Executed)

\* One step more in a set of steps.
LEMMA OneMore ==
  ASSUME NEW S, NEW s
  PROVE  /\ Contracts(S \cup {s}) = Contracts(S) \cup (IF s.op = "deploy" THEN {s.c} ELSE {})
         /\ Published(S \cup {s}) = Published(S) \cup (IF s.op = "names" THEN s.cs ELSE {})
         /\ Slots(S \cup {s}) = Slots(S) \cup SlotsOf(s)
         /\ \A slot : Stored(S \cup {s}, slot)
                        = Stored(S, slot) \cup (IF slot \in SlotsOf(s) THEN {ValueAt(s, slot)} ELSE {})
<1>1. \A op : Ops(S \cup {s}, op) = Ops(S, op) \cup (IF s.op = op THEN {s} ELSE {})
  BY DEF Ops
<1>2. Contracts(S \cup {s}) = Contracts(S) \cup (IF s.op = "deploy" THEN {s.c} ELSE {})
  BY <1>1 DEF Contracts
<1>3. Published(S \cup {s}) = Published(S) \cup (IF s.op = "names" THEN s.cs ELSE {})
  BY <1>1 DEF Published
<1>4. Slots(S \cup {s}) = Slots(S) \cup SlotsOf(s)
  BY DEF Slots
<1>5. ASSUME NEW slot
      PROVE  Stored(S \cup {s}, slot)
               = Stored(S, slot) \cup (IF slot \in SlotsOf(s) THEN {ValueAt(s, slot)} ELSE {})
  BY DEF Stored
<1> QED BY <1>2, <1>3, <1>4, <1>5

LEMMA OneMoreRight ==
  ASSUME NEW S, NEW s
  PROVE  /\ Roles(S \cup {s}) = Roles(S) \cup (IF s.op = "role" THEN {s.role} ELSE {})
         /\ Allowed(S \cup {s}) =
              Allowed(S) \cup (IF s.op = "map" THEN {s.c} \X s.functions \X s.roles ELSE {})
                \cup (IF s.op = "deploy" /\ s.registers THEN OwnMappings(s) ELSE {})
         /\ ScopedGrants(S \cup {s}) =
              ScopedGrants(S) \cup (IF s.op = "scoped" THEN {<<s.role, s.c, s.on>>} ELSE {})
                \cup (IF s.op = "deploy" /\ s.registers THEN {<<TOKEN_OWNER, s.owner, s.c>>} ELSE {})
<1>1. \A op : Ops(S \cup {s}, op) = Ops(S, op) \cup (IF s.op = op THEN {s} ELSE {})
  BY DEF Ops
<1>2. Roles(S \cup {s}) = Roles(S) \cup (IF s.op = "role" THEN {s.role} ELSE {})
  BY <1>1 DEF Roles
<1>4. SelfRegistering(S \cup {s})
        = SelfRegistering(S) \cup (IF s.op = "deploy" /\ s.registers THEN {s} ELSE {})
  BY <1>1 DEF SelfRegistering
<1>5. Allowed(S \cup {s}) =
        Allowed(S) \cup (IF s.op = "map" THEN {s.c} \X s.functions \X s.roles ELSE {})
          \cup (IF s.op = "deploy" /\ s.registers THEN OwnMappings(s) ELSE {})
  <2> DEFINE mapped(T) == UNION {{x.c} \X x.functions \X x.roles : x \in T}
             owned(T) == UNION {OwnMappings(x) : x \in T}
  <2>1. \A T : /\ mapped(T \cup {s}) = mapped(T) \cup {s.c} \X s.functions \X s.roles
               /\ owned(T \cup {s}) = owned(T) \cup OwnMappings(s)
    OBVIOUS
  <2>2. \A T : Allowed(T) = mapped(Ops(T, "map")) \cup owned(SelfRegistering(T))
    BY DEF Allowed
  <2>3. Ops(S \cup {s}, "map") = IF s.op = "map" THEN Ops(S, "map") \cup {s} ELSE Ops(S, "map")
    BY <1>1
  <2>4. SelfRegistering(S \cup {s}) = IF s.op = "deploy" /\ s.registers
                                     THEN SelfRegistering(S) \cup {s} ELSE SelfRegistering(S)
    BY <1>4
  <2> HIDE DEF mapped, owned
  <2> QED BY <2>1, <2>2, <2>3, <2>4
<1>6. ScopedGrants(S \cup {s}) =
        ScopedGrants(S) \cup (IF s.op = "scoped" THEN {<<s.role, s.c, s.on>>} ELSE {})
          \cup (IF s.op = "deploy" /\ s.registers THEN {<<TOKEN_OWNER, s.owner, s.c>>} ELSE {})
  BY <1>1, <1>4 DEF ScopedGrants
<1> QED BY <1>2, <1>5, <1>6

LEMMA OneMoreOf ==
  ASSUME NEW S, NEW s, NEW r
  PROVE  /\ Members(S \cup {s}, r)
              = Members(S, r) \cup (IF s.op = "grant" /\ s.role = r THEN {s.c} ELSE {})
         /\ AdminsSet(S \cup {s}, r)
              = AdminsSet(S, r) \cup (IF s.op = "admin" /\ s.role = r THEN {s.admin} ELSE {})
<1>1. \A op : Ops(S \cup {s}, op) = Ops(S, op) \cup (IF s.op = op THEN {s} ELSE {})
  BY DEF Ops
<1>2. Members(S \cup {s}, r)
        = Members(S, r) \cup (IF s.op = "grant" /\ s.role = r THEN {s.c} ELSE {})
  BY <1>1 DEF Members
<1>3. AdminsSet(S \cup {s}, r)
        = AdminsSet(S, r) \cup (IF s.op = "admin" /\ s.role = r THEN {s.admin} ELSE {})
  BY <1>1 DEF AdminsSet
<1> QED BY <1>2, <1>3

\* What a set of steps leaves, more steps leave as well.
LEMMA Grows ==
  ASSUME NEW S, NEW M \in SUBSET S
  PROVE  /\ Contracts(M) \subseteq Contracts(S) /\ Slots(M) \subseteq Slots(S)
         /\ \A slot : Stored(M, slot) \subseteq Stored(S, slot)
         /\ Roles(M) \subseteq Roles(S) /\ \A r : Members(M, r) \subseteq Members(S, r)
         /\ Allowed(M) \subseteq Allowed(S) /\ ScopedGrants(M) \subseteq ScopedGrants(S)
<1>1. \A op : Ops(M, op) \subseteq Ops(S, op)
  BY DEF Ops
<1>2. SelfRegistering(M) \subseteq SelfRegistering(S)
  BY <1>1 DEF SelfRegistering
<1>3. Contracts(M) \subseteq Contracts(S) /\ Slots(M) \subseteq Slots(S)
  BY <1>1 DEF Contracts, Slots
<1>4. \A slot : Stored(M, slot) \subseteq Stored(S, slot)
  BY DEF Stored
<1>5. Roles(M) \subseteq Roles(S) /\ \A r : Members(M, r) \subseteq Members(S, r)
  BY <1>1 DEF Roles, Members
<1>6. Allowed(M) \subseteq Allowed(S)
  BY <1>1, <1>2 DEF Allowed
<1>7. ScopedGrants(M) \subseteq ScopedGrants(S)
  BY <1>1, <1>2 DEF ScopedGrants
<1> QED BY <1>3, <1>4, <1>5, <1>6, <1>7

\* So no permission is lost.
LEMMA PermissionsGrow ==
  ASSUME NEW S, NEW M \in SUBSET S, NEW a, NEW b, NEW caller, NEW contract, NEW function,
         CanCall(Manager(M, a), caller, contract, function)
  PROVE  CanCall(Manager(S, b), caller, contract, function)
<1>1. ADMIN \in Roles(M) /\ ADMIN \in Roles(S)
  BY DEF Roles
<1>2. /\ Roles(M) \subseteq Roles(S) /\ \A r : Members(M, r) \subseteq Members(S, r)
      /\ Allowed(M) \subseteq Allowed(S) /\ ScopedGrants(M) \subseteq ScopedGrants(S)
  BY Grows
<1>3. CASE caller \in Members(M, ADMIN)
  BY <1>1, <1>2, <1>3 DEF CanCall, Manager
<1>4. ASSUME NEW role \in Roles(M), <<contract, function, role>> \in Allowed(M),
             caller \in Members(M, role) \/ <<role, caller, contract>> \in ScopedGrants(M)
      PROVE  CanCall(Manager(S, b), caller, contract, function)
  BY <1>2, <1>4 DEF CanCall, Manager
<1> QED BY <1>1, <1>3, <1>4 DEF CanCall, Manager

\* A call that the plan provides for goes through: whichever of the values
\* that may be in its slot is there, the callee lets it pass.
LEMMA FindsReady ==
  ASSUME NEW Y, NEW S \in SUBSET Y, NEW M \in SUBSET S, NEW w, NEW call,
         DOMAIN w = Slots(S), \A slot \in DOMAIN w : w[slot] \in Stored(S, slot),
         am = Manager(S, am.admin), Finds(M, Y, call)
  PROVE  Ready(w, call)
<1> DEFINE slot == <<call.at, call.slot>>
           target == w[slot]
<1>1. /\ Slots(M) \subseteq Slots(S)
      /\ \A l : Stored(S, l) \subseteq Stored(Y, l)
  BY Grows
<1>2. slot \in DOMAIN w /\ target \in Stored(Y, slot)
  BY <1>1 DEF Finds
<1>3. call.function = "open" \/ CanCall(Manager(M, << >>), call.from, target, call.function)
  BY <1>2 DEF Finds
<1>4. call.function = "open" \/ CanCall(am, call.from, target, call.function)
  <2>1. ASSUME CanCall(Manager(M, << >>), call.from, target, call.function)
        PROVE  CanCall(Manager(S, am.admin), call.from, target, call.function)
    BY <2>1, PermissionsGrow
  <2> HIDE DEF target
  <2> QED BY <1>3, <2>1
<1>5. ASSUME call.back # "nobody"
      PROVE  <<target, call.back>> \in DOMAIN w /\ w[<<target, call.back>>] = call.from
  <2>1. <<target, call.back>> \in Slots(M) /\ Stored(Y, <<target, call.back>>) = {call.from}
    BY <1>2, <1>5 DEF Finds
  <2>2. <<target, call.back>> \in DOMAIN w
    BY <1>1, <2>1
  <2>3. w[<<target, call.back>>] \in Stored(Y, <<target, call.back>>)
    BY <1>1, <2>2
  <2> QED BY <2>1, <2>2, <2>3
<1> QED BY <1>2, <1>4, <1>5 DEF Ready


-----------------------------------------------------------------------------
(* Every step adds what it leaves to the sum.                              *)

LEMMA WireGrows ==
  ASSUME NEW S, NEW s, NEW w, DOMAIN w = Slots(S),
         \A slot \in DOMAIN w : w[slot] \in Stored(S, slot),
         NEW v, DOMAIN v = SlotsOf(s), \A slot \in DOMAIN v : v[slot] = ValueAt(s, slot)
  PROVE  /\ DOMAIN Over(v, w) = Slots(S \cup {s})
         /\ \A slot \in DOMAIN Over(v, w) : Over(v, w)[slot] \in Stored(S \cup {s}, slot)
<1>1. Over(v, w) = [x \in DOMAIN v \cup DOMAIN w |-> IF x \in DOMAIN v THEN v[x] ELSE w[x]]
  BY DEF Over
<1>2. Slots(S \cup {s}) = Slots(S) \cup SlotsOf(s)
  BY OneMore
<1>3. ASSUME NEW slot \in DOMAIN v \cup DOMAIN w
      PROVE  Over(v, w)[slot] \in Stored(S \cup {s}, slot)
  <2>1. Stored(S \cup {s}, slot)
          = Stored(S, slot) \cup (IF slot \in SlotsOf(s) THEN {ValueAt(s, slot)} ELSE {})
    BY OneMore
  <2> QED BY <1>1, <1>3, <2>1
<1> QED BY <1>1, <1>2, <1>3

\* Constructors and setters.
LEMMA SetSlots ==
  ASSUME NEW s, s.op \in {"deploy", "config"}
  PROVE  /\ DOMAIN Set2Wire(s.c, s.slots) = SlotsOf(s)
         /\ \A slot \in SlotsOf(s) : Set2Wire(s.c, s.slots)[slot] = ValueAt(s, slot)
<1>1. SlotsOf(s) = {s.c} \X DOMAIN s.slots
  BY DEF SlotsOf
<1>2. {s.c} \X DOMAIN s.slots = {<<s.c, n>> : n \in DOMAIN s.slots}
  OBVIOUS
<1> QED BY <1>1, <1>2 DEF Set2Wire, ValueAt

LEMMA SetWire ==
  ASSUME NEW S, NEW s, Tally(S), s.op \in {"deploy", "config"}
  PROVE  LET w == Over(Set2Wire(s.c, s.slots), wire)
         IN  DOMAIN w = Slots(S \cup {s}) /\ \A slot \in DOMAIN w : w[slot] \in Stored(S \cup {s}, slot)
<1>1. DOMAIN wire = Slots(S) /\ \A slot \in DOMAIN wire : wire[slot] \in Stored(S, slot)
  BY DEF Tally
<1> QED BY <1>1, SetSlots, WireGrows

\* A step that does not touch the access manager.
LEMMA SameManager ==
  ASSUME NEW S, NEW s, Tally(S), s.op \in {"deploy", "record", "config", "resource", "names", "hub"},
         s.op = "deploy" => ~s.registers
  PROVE  /\ am = Manager(S \cup {s}, am.admin) /\ DOMAIN am.admin = Roles(S \cup {s})
         /\ \A r \in Roles(S \cup {s}) : am.admin[r] \in Admins(S \cup {s}, r)
         /\ \A x \in S \cup {s} : x.op \in {"grant", "admin"} => x.role \in Roles(S \cup {s})
<1>1. /\ Roles(S \cup {s}) = Roles(S) /\ \A r : Members(S \cup {s}, r) = Members(S, r)
      /\ Allowed(S \cup {s}) = Allowed(S) /\ ScopedGrants(S \cup {s}) = ScopedGrants(S)
      /\ \A r : AdminsSet(S \cup {s}, r) = AdminsSet(S, r)
  <2>1. s.op \notin {"role", "grant", "map", "scoped", "admin"} /\ ~(s.op = "deploy" /\ s.registers)
    OBVIOUS
  <2>2. /\ Roles(S \cup {s}) = Roles(S) \cup (IF s.op = "role" THEN {s.role} ELSE {})
        /\ Allowed(S \cup {s}) =
             Allowed(S) \cup (IF s.op = "map" THEN {s.c} \X s.functions \X s.roles ELSE {})
               \cup (IF s.op = "deploy" /\ s.registers THEN OwnMappings(s) ELSE {})
        /\ ScopedGrants(S \cup {s}) =
             ScopedGrants(S) \cup (IF s.op = "scoped" THEN {<<s.role, s.c, s.on>>} ELSE {})
               \cup (IF s.op = "deploy" /\ s.registers THEN {<<TOKEN_OWNER, s.owner, s.c>>} ELSE {})
    BY OneMoreRight
  <2>3. ASSUME NEW r
        PROVE  Members(S \cup {s}, r) = Members(S, r) /\ AdminsSet(S \cup {s}, r) = AdminsSet(S, r)
    <3>1. /\ Members(S \cup {s}, r)
                = Members(S, r) \cup (IF s.op = "grant" /\ s.role = r THEN {s.c} ELSE {})
          /\ AdminsSet(S \cup {s}, r)
                = AdminsSet(S, r) \cup (IF s.op = "admin" /\ s.role = r THEN {s.admin} ELSE {})
      BY OneMoreOf
    <3> QED BY <2>1, <3>1
  <2>4. Roles(S \cup {s}) = Roles(S) /\ Allowed(S \cup {s}) = Allowed(S)
    BY <2>1, <2>2
  <2>5. ScopedGrants(S \cup {s}) = ScopedGrants(S)
    BY <2>1, <2>2
  <2> QED BY <2>3, <2>4, <2>5
<1>2. Manager(S \cup {s}, am.admin) = Manager(S, am.admin)
  BY <1>1 DEF Manager
<1>3. \A r : Admins(S \cup {s}, r) = Admins(S, r)
  BY <1>1 DEF Admins
<1>4. /\ am = Manager(S, am.admin) /\ DOMAIN am.admin = Roles(S)
      /\ \A r \in Roles(S) : am.admin[r] \in Admins(S, r)
      /\ \A x \in S : x.op \in {"grant", "admin"} => x.role \in Roles(S)
  BY DEF Tally
<1> QED BY <1>1, <1>2, <1>3, <1>4

LEMMA TallyPlain ==
  ASSUME NEW S, NEW b, NEW s, Tally(S),
         \/ Record(b, s) \/ Configure(b, s) \/ RegisterResourceId(b, s)
         \/ RegisterContracts(b, s) \/ RegisterPrivateHubAddress(b, s)
  PROVE  Tally(S \cup {s})'
<1>1. /\ s.op \in {"record", "config", "resource", "names", "hub"} /\ UNCHANGED <<am, deployed>>
  BY DEF Record, Configure, RegisterResourceId, RegisterContracts, RegisterPrivateHubAddress
<1>2. /\ deployed' = Contracts(S \cup {s})
      /\ Published(S \cup {s}) = Published(S) \cup (IF s.op = "names" THEN s.cs ELSE {})
      /\ Slots(S \cup {s}) = Slots(S) \cup SlotsOf(s)
  <2>1. s.op # "deploy"
    BY <1>1
  <2>2. Contracts(S \cup {s}) = Contracts(S)
    <3>1. Contracts(S \cup {s}) = Contracts(S) \cup (IF s.op = "deploy" THEN {s.c} ELSE {})
      BY OneMore
    <3> QED BY <2>1, <3>1
  <2> QED BY <1>1, <2>2, OneMore DEF Tally
<1>3. names' = Published(S \cup {s})
  BY <1>2 DEF Tally, Record, Configure, RegisterResourceId, RegisterContracts,
     RegisterPrivateHubAddress
<1>4. DOMAIN wire' = Slots(S \cup {s}) /\ \A slot \in DOMAIN wire' : wire'[slot] \in Stored(S \cup {s}, slot)
  <2>1. CASE Record(b, s) \/ RegisterContracts(b, s) \/ RegisterPrivateHubAddress(b, s)
    <3>1. wire' = wire /\ SlotsOf(s) = {}
      BY <2>1 DEF Record, RegisterContracts, RegisterPrivateHubAddress, SlotsOf
    <3>2. \A slot : Stored(S \cup {s}, slot) = Stored(S, slot)
      <4>1. ASSUME NEW slot PROVE Stored(S \cup {s}, slot) = Stored(S, slot) \cup {}
        <5>1. Stored(S \cup {s}, slot)
                = Stored(S, slot) \cup (IF slot \in SlotsOf(s) THEN {ValueAt(s, slot)} ELSE {})
          BY OneMore
        <5> QED BY <3>1, <5>1
      <4> QED BY <4>1
    <3> QED BY <1>2, <3>1, <3>2 DEF Tally
  <2>2. CASE Configure(b, s)
    BY <2>2, SetWire DEF Configure
  <2>3. CASE RegisterResourceId(b, s)
    <3> DEFINE v == [p \in {<<"ResourceManager", s.id>>} |-> s.c]
    <3>1. s.op = "resource" /\ wire' = Over(v, wire)
      BY <2>3 DEF RegisterResourceId
    <3>2. v = [x \in {<<"ResourceManager", s.id>>} |-> s.c]
      OBVIOUS
    <3>3. SlotsOf(s) = {<<"ResourceManager", s.id>>} /\ \A slot : ValueAt(s, slot) = s.c
      BY <3>1 DEF SlotsOf, ValueAt
    <3>4. DOMAIN v = SlotsOf(s) /\ \A slot \in DOMAIN v : v[slot] = ValueAt(s, slot)
      BY <3>2, <3>3
    <3>5. DOMAIN wire = Slots(S) /\ \A slot \in DOMAIN wire : wire[slot] \in Stored(S, slot)
      BY DEF Tally
    <3> HIDE DEF v
    <3> QED BY <3>1, <3>4, <3>5, WireGrows
  <2> QED BY <2>1, <2>2, <2>3
<1>5. /\ am = Manager(S \cup {s}, am.admin) /\ DOMAIN am.admin = Roles(S \cup {s})
      /\ \A r \in Roles(S \cup {s}) : am.admin[r] \in Admins(S \cup {s}, r)
      /\ \A x \in S \cup {s} : x.op \in {"grant", "admin"} => x.role \in Roles(S \cup {s})
  BY <1>1, SameManager
<1> QED BY <1>1, <1>2, <1>3, <1>4, <1>5 DEF Tally


\* What a contract maps for itself, as the access manager records it.
LEMMA OwnPairs ==
  ASSUME NEW s
  PROVE  LET pairs == UNION {s.mappings[r] \X {r} : r \in DOMAIN s.mappings}
         IN  {<<s.c, p[1], p[2]>> : p \in pairs} = OwnMappings(s)
<1> DEFINE pairs == UNION {s.mappings[r] \X {r} : r \in DOMAIN s.mappings}
<1>1. ASSUME NEW x
      PROVE  x \in {<<s.c, p[1], p[2]>> : p \in pairs}
               <=> \E r \in DOMAIN s.mappings : \E f \in s.mappings[r] : x = <<s.c, f, r>>
  <2>1. ASSUME NEW r \in DOMAIN s.mappings, NEW f \in s.mappings[r], x = <<s.c, f, r>>
        PROVE  x \in {<<s.c, p[1], p[2]>> : p \in pairs}
    <3>1. <<f, r>> \in pairs /\ <<f, r>>[1] = f /\ <<f, r>>[2] = r
      OBVIOUS
    <3> HIDE DEF pairs
    <3> QED BY <2>1, <3>1
  <2>2. ASSUME NEW p \in pairs, x = <<s.c, p[1], p[2]>>
        PROVE  \E r \in DOMAIN s.mappings : \E f \in s.mappings[r] : x = <<s.c, f, r>>
    <3>1. PICK r \in DOMAIN s.mappings : p \in s.mappings[r] \X {r}
      OBVIOUS
    <3> QED BY <2>2, <3>1
  <2> HIDE DEF pairs
  <2> QED BY <2>1, <2>2
<1>2. \A x : x \in OwnMappings(s)
               <=> \E r \in DOMAIN s.mappings : \E f \in s.mappings[r] : x = <<s.c, f, r>>
  BY DEF OwnMappings
<1> HIDE DEF pairs
<1>3. {<<s.c, p[1], p[2]>> : p \in pairs} = OwnMappings(s)
  BY <1>1, <1>2
<1> QED BY <1>3 DEF pairs

LEMMA TallyDeploy ==
  ASSUME NEW S, NEW b, NEW s, Tally(S), Deploy(b, s)
  PROVE  Tally(S \cup {s})'
<1>1. s.op = "deploy" /\ names' = names /\ deployed' = deployed \cup {s.c}
  BY DEF Deploy
<1>2. /\ Contracts(S \cup {s}) = Contracts(S) \cup (IF s.op = "deploy" THEN {s.c} ELSE {})
      /\ Published(S \cup {s}) = Published(S) \cup (IF s.op = "names" THEN s.cs ELSE {})
  BY OneMore
<1>3. deployed' = Contracts(S \cup {s}) /\ names' = Published(S \cup {s})
  BY <1>1, <1>2 DEF Tally
<1>4. DOMAIN wire' = Slots(S \cup {s}) /\ \A slot \in DOMAIN wire' : wire'[slot] \in Stored(S \cup {s}, slot)
  BY <1>1, SetWire DEF Deploy
<1>5. /\ am' = Manager(S \cup {s}, am'.admin) /\ DOMAIN am'.admin = Roles(S \cup {s})
      /\ \A r \in Roles(S \cup {s}) : am'.admin[r] \in Admins(S \cup {s}, r)
      /\ \A x \in S \cup {s} : x.op \in {"grant", "admin"} => x.role \in Roles(S \cup {s})
  <2>1. CASE ~s.registers
    <3>1. am' = am
      BY <2>1 DEF Deploy
    <3> QED BY <1>1, <2>1, <3>1, SameManager
  <2>2. CASE s.registers
    <3>1. am' = SelfRegister(am, s.c, s.owner, s.mappings)
      BY <2>2 DEF Deploy
    <3>2. am' = [am EXCEPT !.allowed = @ \cup OwnMappings(s),
                           !.scoped = @ \cup {<<TOKEN_OWNER, s.owner, s.c>>}]
      BY <3>1, OwnPairs DEF SelfRegister
    <3>3. /\ am = Manager(S, am.admin) /\ DOMAIN am.admin = Roles(S)
          /\ \A r \in Roles(S) : am.admin[r] \in Admins(S, r)
          /\ \A x \in S : x.op \in {"grant", "admin"} => x.role \in Roles(S)
      BY DEF Tally
    <3>4. am' = [roles |-> Roles(S), members |-> [r \in Roles(S) |-> Members(S, r)],
                 allowed |-> Allowed(S) \cup OwnMappings(s),
                 scoped |-> ScopedGrants(S) \cup {<<TOKEN_OWNER, s.owner, s.c>>},
                 admin |-> am.admin]
      <4>1. PICK adm : adm = am.admin
        OBVIOUS
      <4>2. PICK R, M, A, G : /\ R = Roles(S) /\ M = [r \in Roles(S) |-> Members(S, r)]
                              /\ A = Allowed(S) /\ G = ScopedGrants(S)
        OBVIOUS
      <4>3. am = [roles |-> R, members |-> M, allowed |-> A, scoped |-> G, admin |-> adm]
        BY <3>3, <4>1, <4>2 DEF Manager
      <4>4. am' = [roles |-> R, members |-> M, allowed |-> A \cup OwnMappings(s),
                   scoped |-> G \cup {<<TOKEN_OWNER, s.owner, s.c>>}, admin |-> adm]
        BY <3>2, <4>3
      <4> QED BY <4>1, <4>2, <4>4
    <3>5. /\ Roles(S \cup {s}) = Roles(S) \cup (IF s.op = "role" THEN {s.role} ELSE {})
          /\ Allowed(S \cup {s}) =
               Allowed(S) \cup (IF s.op = "map" THEN {s.c} \X s.functions \X s.roles ELSE {})
                 \cup (IF s.op = "deploy" /\ s.registers THEN OwnMappings(s) ELSE {})
          /\ ScopedGrants(S \cup {s}) =
               ScopedGrants(S) \cup (IF s.op = "scoped" THEN {<<s.role, s.c, s.on>>} ELSE {})
                 \cup (IF s.op = "deploy" /\ s.registers THEN {<<TOKEN_OWNER, s.owner, s.c>>} ELSE {})
      BY OneMoreRight
    <3>6. Roles(S \cup {s}) = Roles(S) /\ Allowed(S \cup {s}) = Allowed(S) \cup OwnMappings(s)
      BY <1>1, <2>2, <3>5
    <3>7. ScopedGrants(S \cup {s}) = ScopedGrants(S) \cup {<<TOKEN_OWNER, s.owner, s.c>>}
      BY <1>1, <2>2, <3>5
    <3>8. \A r : Members(S \cup {s}, r) = Members(S, r) /\ AdminsSet(S \cup {s}, r) = AdminsSet(S, r)
      <4>1. ASSUME NEW r
            PROVE  Members(S \cup {s}, r) = Members(S, r) /\ AdminsSet(S \cup {s}, r) = AdminsSet(S, r)
        <5>1. /\ Members(S \cup {s}, r)
                    = Members(S, r) \cup (IF s.op = "grant" /\ s.role = r THEN {s.c} ELSE {})
              /\ AdminsSet(S \cup {s}, r)
                    = AdminsSet(S, r) \cup (IF s.op = "admin" /\ s.role = r THEN {s.admin} ELSE {})
          BY OneMoreOf
        <5> QED BY <1>1, <5>1
      <4> QED BY <4>1
    <3>9. am' = Manager(S \cup {s}, am'.admin) /\ am'.admin = am.admin
      BY <3>4, <3>6, <3>7, <3>8 DEF Manager
    <3> QED BY <1>1, <3>3, <3>6, <3>8, <3>9 DEF Admins
  <2> QED BY <2>1, <2>2
<1> QED BY <1>3, <1>4, <1>5 DEF Tally


\* Operations on the access manager leave the contracts alone.
LEMMA SameWorld ==
  ASSUME NEW S, NEW s, Tally(S), s.op \in {"role", "map", "grant", "admin", "scoped"}
  PROVE  /\ deployed = Contracts(S \cup {s}) /\ names = Published(S \cup {s})
         /\ DOMAIN wire = Slots(S \cup {s})
         /\ \A slot \in DOMAIN wire : wire[slot] \in Stored(S \cup {s}, slot)
<1>1. SlotsOf(s) = {} /\ s.op \notin {"deploy", "names"}
  BY DEF SlotsOf
<1>2. /\ Contracts(S \cup {s}) = Contracts(S) \cup (IF s.op = "deploy" THEN {s.c} ELSE {})
      /\ Published(S \cup {s}) = Published(S) \cup (IF s.op = "names" THEN s.cs ELSE {})
      /\ Slots(S \cup {s}) = Slots(S) \cup SlotsOf(s)
  BY OneMore
<1>3. Contracts(S \cup {s}) = Contracts(S) /\ Published(S \cup {s}) = Published(S)
  BY <1>1, <1>2
<1>4. Slots(S \cup {s}) = Slots(S)
  BY <1>1, <1>2
<1>5. \A slot : Stored(S, slot) \subseteq Stored(S \cup {s}, slot)
  BY Grows
<1> QED BY <1>3, <1>4, <1>5 DEF Tally

\* They change the manager as the sum changes.
LEMMA ManagerOf ==
  ASSUME NEW S, Tally(S)
  PROVE  /\ am = [roles |-> Roles(S), members |-> [r \in Roles(S) |-> Members(S, r)],
                  allowed |-> Allowed(S), scoped |-> ScopedGrants(S), admin |-> am.admin]
         /\ am.roles = Roles(S)
  BY DEF Tally, Manager

RightsAdd(S, s) ==
  /\ Roles(S \cup {s}) = IF s.op = "role" THEN Roles(S) \cup {s.role} ELSE Roles(S)
  /\ Allowed(S \cup {s}) = IF s.op = "map"
       THEN Allowed(S) \cup {s.c} \X s.functions \X s.roles ELSE Allowed(S)
  /\ ScopedGrants(S \cup {s}) = IF s.op = "scoped"
       THEN ScopedGrants(S) \cup {<<s.role, s.c, s.on>>} ELSE ScopedGrants(S)
  /\ \A r : Members(S \cup {s}, r) = IF s.op = "grant" /\ s.role = r
              THEN Members(S, r) \cup {s.c} ELSE Members(S, r)
  /\ \A r : AdminsSet(S \cup {s}, r) = IF s.op = "admin" /\ s.role = r
              THEN AdminsSet(S, r) \cup {s.admin} ELSE AdminsSet(S, r)

LEMMA AddedRights ==
  ASSUME NEW S, NEW s, s.op \in {"role", "map", "grant", "admin", "scoped"}
  PROVE  RightsAdd(S, s)
<1>1. /\ Roles(S \cup {s}) = Roles(S) \cup (IF s.op = "role" THEN {s.role} ELSE {})
      /\ Allowed(S \cup {s}) =
           Allowed(S) \cup (IF s.op = "map" THEN {s.c} \X s.functions \X s.roles ELSE {})
             \cup (IF s.op = "deploy" /\ s.registers THEN OwnMappings(s) ELSE {})
      /\ ScopedGrants(S \cup {s}) =
           ScopedGrants(S) \cup (IF s.op = "scoped" THEN {<<s.role, s.c, s.on>>} ELSE {})
             \cup (IF s.op = "deploy" /\ s.registers THEN {<<TOKEN_OWNER, s.owner, s.c>>} ELSE {})
  BY OneMoreRight
<1>2. Roles(S \cup {s}) = IF s.op = "role" THEN Roles(S) \cup {s.role} ELSE Roles(S)
  BY <1>1
<1>3. Allowed(S \cup {s}) = IF s.op = "map"
        THEN Allowed(S) \cup {s.c} \X s.functions \X s.roles ELSE Allowed(S)
  BY <1>1
<1>4. ScopedGrants(S \cup {s}) = IF s.op = "scoped"
        THEN ScopedGrants(S) \cup {<<s.role, s.c, s.on>>} ELSE ScopedGrants(S)
  BY <1>1
<1>5. ASSUME NEW r
      PROVE  /\ Members(S \cup {s}, r) = IF s.op = "grant" /\ s.role = r
                  THEN Members(S, r) \cup {s.c} ELSE Members(S, r)
             /\ AdminsSet(S \cup {s}, r) = IF s.op = "admin" /\ s.role = r
                  THEN AdminsSet(S, r) \cup {s.admin} ELSE AdminsSet(S, r)
  <2>1. /\ Members(S \cup {s}, r)
              = Members(S, r) \cup (IF s.op = "grant" /\ s.role = r THEN {s.c} ELSE {})
        /\ AdminsSet(S \cup {s}, r)
              = AdminsSet(S, r) \cup (IF s.op = "admin" /\ s.role = r THEN {s.admin} ELSE {})
    BY OneMoreOf
  <2> QED BY <2>1
<1> QED BY <1>2, <1>3, <1>4, <1>5 DEF RightsAdd

\* A role that is not registered yet has no members and no administrator.
LEMMA NewRole ==
  ASSUME NEW S, NEW r, r \notin Roles(S),
         \A x \in S : x.op \in {"grant", "admin"} => x.role \in Roles(S)
  PROVE  Members(S, r) = {} /\ AdminsSet(S, r) = {}
<1>1. r # ADMIN
  BY DEF Roles
<1>2. \A x \in S : x.op \in {"grant", "admin"} => x.role # r
  OBVIOUS
<1> QED BY <1>1, <1>2 DEF Members, AdminsSet, Ops


\* The registration of a role.
LEMMA TallyRole ==
  ASSUME NEW S, NEW s, Tally(S), s.op = "role", s.role \notin am.roles,
         am' = RegisterRole(am, s.role)
  PROVE  /\ am' = Manager(S \cup {s}, am'.admin) /\ DOMAIN am'.admin = Roles(S \cup {s})
         /\ \A r \in Roles(S \cup {s}) : am'.admin[r] \in Admins(S \cup {s}, r)
         /\ \A x \in S \cup {s} : x.op \in {"grant", "admin"} => x.role \in Roles(S \cup {s})
<1>0. RightsAdd(S, s)
  BY AddedRights
<1>1. PICK R, M, A, G, adm, ro : /\ R = Roles(S) /\ M = [r \in Roles(S) |-> Members(S, r)]
                                /\ A = Allowed(S) /\ G = ScopedGrants(S) /\ adm = am.admin
                                /\ ro = s.role
  OBVIOUS
<1>2. am = [roles |-> R, members |-> M, allowed |-> A, scoped |-> G, admin |-> adm]
  BY <1>1, ManagerOf
<1>3. /\ DOMAIN adm = R /\ \A r \in R : adm[r] \in Admins(S, r)
      /\ \A x \in S : x.op \in {"grant", "admin"} => x.role \in R
  BY <1>1 DEF Tally
<1>4. am' = [roles |-> R \cup {ro}, members |-> Over([r \in {ro} |-> {}], M), allowed |-> A,
             scoped |-> G, admin |-> Over([r \in {ro} |-> ADMIN], adm)]
  <2>1. PICK M1, adm1 : M1 = Over([r \in {ro} |-> {}], M) /\ adm1 = Over([r \in {ro} |-> ADMIN], adm)
    OBVIOUS
  <2>2. am' = [am EXCEPT !.roles = R \cup {ro}, !.members = M1, !.admin = adm1]
    <3>1. am.roles = R /\ am.members = M /\ am.admin = adm
      BY <1>2
    <3> QED BY <1>1, <2>1, <3>1 DEF RegisterRole
  <2> QED BY <1>2, <2>1, <2>2
<1>5. ro \notin R
  BY <1>1, <1>2
<1>6. Members(S, ro) = {} /\ AdminsSet(S, ro) = {}
  BY <1>1, <1>3, <1>5, NewRole
<1>7. /\ Roles(S \cup {s}) = R \cup {ro} /\ Allowed(S \cup {s}) = A
      /\ ScopedGrants(S \cup {s}) = G
      /\ \A r : Members(S \cup {s}, r) = Members(S, r)
      /\ \A r : AdminsSet(S \cup {s}, r) = AdminsSet(S, r)
  BY <1>1, <1>0 DEF RightsAdd
<1>8. Over([r \in {ro} |-> {}], M) = [r \in Roles(S \cup {s}) |-> Members(S \cup {s}, r)]
  BY <1>1, <1>5, <1>6, <1>7 DEF Over
<1>9. /\ DOMAIN Over([r \in {ro} |-> ADMIN], adm) = R \cup {ro}
      /\ Over([r \in {ro} |-> ADMIN], adm)[ro] = ADMIN
      /\ \A r \in R : Over([x \in {ro} |-> ADMIN], adm)[r] = adm[r]
  BY <1>3, <1>5 DEF Over
<1>10. am'.admin = Over([r \in {ro} |-> ADMIN], adm)
  BY <1>4
<1>11. am' = Manager(S \cup {s}, am'.admin)
  BY <1>4, <1>7, <1>8, <1>10 DEF Manager
<1>12. \A r \in Roles(S \cup {s}) : am'.admin[r] \in Admins(S \cup {s}, r)
  BY <1>3, <1>6, <1>7, <1>9, <1>10 DEF Admins
<1> QED BY <1>1, <1>3, <1>7, <1>9, <1>10, <1>11, <1>12

\* A member, or an administrator, of a role that is registered.
LEMMA TallyGrant ==
  ASSUME NEW S, NEW s, Tally(S), s.role \in am.roles,
         \/ s.op = "grant" /\ am' = GrantRole(am, s.role, s.c)
         \/ s.op = "admin" /\ am' = SetRoleAdmin(am, s.role, s.admin)
  PROVE  /\ am' = Manager(S \cup {s}, am'.admin) /\ DOMAIN am'.admin = Roles(S \cup {s})
         /\ \A r \in Roles(S \cup {s}) : am'.admin[r] \in Admins(S \cup {s}, r)
         /\ \A x \in S \cup {s} : x.op \in {"grant", "admin"} => x.role \in Roles(S \cup {s})
<1>0. RightsAdd(S, s)
  BY AddedRights
<1>1. PICK R, M, A, G, adm, ro : /\ R = Roles(S) /\ M = [r \in Roles(S) |-> Members(S, r)]
                                /\ A = Allowed(S) /\ G = ScopedGrants(S) /\ adm = am.admin
                                /\ ro = s.role
  OBVIOUS
<1>2. am = [roles |-> R, members |-> M, allowed |-> A, scoped |-> G, admin |-> adm]
  BY <1>1, ManagerOf
<1>3. /\ DOMAIN adm = R /\ \A r \in R : adm[r] \in Admins(S, r)
      /\ \A x \in S : x.op \in {"grant", "admin"} => x.role \in R
  BY <1>1 DEF Tally
<1>4. ro \in R
  BY <1>1, <1>2
<1>5. Roles(S \cup {s}) = R /\ Allowed(S \cup {s}) = A /\ ScopedGrants(S \cup {s}) = G
  <2>1. s.op \in {"grant", "admin"}
    OBVIOUS
  <2> QED BY <1>0, <1>1, <2>1 DEF RightsAdd
<1>6. \A x \in S \cup {s} : x.op \in {"grant", "admin"} => x.role \in Roles(S \cup {s})
  BY <1>1, <1>3, <1>4, <1>5
<1>7. CASE s.op = "grant" /\ am' = GrantRole(am, s.role, s.c)
  <2>1. PICK c : c = s.c
    OBVIOUS
  <2>2. am' = [roles |-> R, members |-> [M EXCEPT ![ro] = M[ro] \cup {c}], allowed |-> A,
               scoped |-> G, admin |-> adm]
    <3>1. PICK M1 : M1 = [M EXCEPT ![ro] = M[ro] \cup {c}]
      OBVIOUS
    <3>2. am' = [am EXCEPT !.members = M1]
      BY <1>1, <1>2, <1>7, <2>1, <3>1 DEF GrantRole
    <3> QED BY <1>2, <3>1, <3>2
  <2>3. /\ \A r : Members(S \cup {s}, r) = IF ro = r THEN Members(S, r) \cup {c} ELSE Members(S, r)
        /\ \A r : AdminsSet(S \cup {s}, r) = AdminsSet(S, r)
    BY <1>0, <1>1, <1>7, <2>1 DEF RightsAdd
  <2>4. [M EXCEPT ![ro] = M[ro] \cup {c}] = [r \in R |-> Members(S \cup {s}, r)]
    BY <1>1, <1>4, <2>3
  <2>5. am'.admin = adm /\ am' = Manager(S \cup {s}, am'.admin)
    BY <1>5, <2>2, <2>4 DEF Manager
  <2> QED BY <1>3, <1>5, <1>6, <2>3, <2>5 DEF Admins
<1>8. CASE s.op = "admin" /\ am' = SetRoleAdmin(am, s.role, s.admin)
  <2>1. PICK a : a = s.admin
    OBVIOUS
  <2>2. am' = [roles |-> R, members |-> M, allowed |-> A, scoped |-> G,
               admin |-> [adm EXCEPT ![ro] = a]]
    <3>1. PICK adm1 : adm1 = [adm EXCEPT ![ro] = a]
      OBVIOUS
    <3>2. am' = [am EXCEPT !.admin = adm1]
      BY <1>1, <1>2, <1>8, <2>1, <3>1 DEF SetRoleAdmin
    <3> QED BY <1>2, <3>1, <3>2
  <2>3. /\ \A r : Members(S \cup {s}, r) = Members(S, r)
        /\ \A r : AdminsSet(S \cup {s}, r)
                     = IF ro = r THEN AdminsSet(S, r) \cup {a} ELSE AdminsSet(S, r)
    BY <1>0, <1>1, <1>8, <2>1 DEF RightsAdd
  <2>4. am'.admin = [adm EXCEPT ![ro] = a]
    BY <2>2
  <2>5. am' = Manager(S \cup {s}, am'.admin)
    BY <1>1, <1>5, <2>2, <2>3, <2>4 DEF Manager
  <2>6. ASSUME NEW r \in R PROVE am'.admin[r] \in Admins(S \cup {s}, r)
    <3>1. CASE r = ro
      BY <1>3, <1>4, <2>3, <2>4, <3>1 DEF Admins
    <3>2. CASE r # ro
      BY <1>3, <2>3, <2>4, <2>6, <3>2 DEF Admins
    <3> QED BY <3>1, <3>2
  <2> QED BY <1>3, <1>5, <1>6, <2>4, <2>5, <2>6
<1> QED BY <1>7, <1>8

\* A mapping of functions, a grant for one contract.
LEMMA TallyAllow ==
  ASSUME NEW S, NEW s, Tally(S),
         \/ s.op = "map" /\ am' = AddFunctionAllowedRoles(am, s.c, s.functions, s.roles)
         \/ s.op = "scoped" /\ am' = GrantContractScopedRole(am, s.role, s.c, s.on)
  PROVE  /\ am' = Manager(S \cup {s}, am'.admin) /\ DOMAIN am'.admin = Roles(S \cup {s})
         /\ \A r \in Roles(S \cup {s}) : am'.admin[r] \in Admins(S \cup {s}, r)
         /\ \A x \in S \cup {s} : x.op \in {"grant", "admin"} => x.role \in Roles(S \cup {s})
<1>0. RightsAdd(S, s)
  BY AddedRights
<1>1. PICK R, M, A, G, adm : /\ R = Roles(S) /\ M = [r \in Roles(S) |-> Members(S, r)]
                            /\ A = Allowed(S) /\ G = ScopedGrants(S) /\ adm = am.admin
  OBVIOUS
<1>2. am = [roles |-> R, members |-> M, allowed |-> A, scoped |-> G, admin |-> adm]
  BY <1>1, ManagerOf
<1>3. /\ DOMAIN adm = R /\ \A r \in R : adm[r] \in Admins(S, r)
      /\ \A x \in S : x.op \in {"grant", "admin"} => x.role \in R
  BY <1>1 DEF Tally
<1>4. /\ Roles(S \cup {s}) = R /\ \A r : Members(S \cup {s}, r) = Members(S, r)
      /\ \A r : AdminsSet(S \cup {s}, r) = AdminsSet(S, r)
  <2>1. s.op \in {"map", "scoped"}
    OBVIOUS
  <2> QED BY <1>0, <1>1, <2>1 DEF RightsAdd
<1>5. PICK pairs, grants :
        /\ pairs = Allowed(S \cup {s}) /\ grants = ScopedGrants(S \cup {s})
  OBVIOUS
<1>6. am' = [roles |-> R, members |-> M, allowed |-> pairs, scoped |-> grants, admin |-> adm]
  <2>1. CASE s.op = "map" /\ am' = AddFunctionAllowedRoles(am, s.c, s.functions, s.roles)
    <3>1. PICK P : P = {s.c} \X s.functions \X s.roles
      OBVIOUS
    <3>2. pairs = A \cup P /\ grants = G
      BY <1>0, <1>1, <1>5, <2>1, <3>1 DEF RightsAdd
    <3> QED BY <1>2, <2>1, <3>1, <3>2 DEF AddFunctionAllowedRoles
  <2>2. CASE s.op = "scoped" /\ am' = GrantContractScopedRole(am, s.role, s.c, s.on)
    <3>1. PICK g : g = <<s.role, s.c, s.on>>
      OBVIOUS
    <3>2. pairs = A /\ grants = G \cup {g}
      BY <1>0, <1>1, <1>5, <2>2, <3>1 DEF RightsAdd
    <3> QED BY <1>2, <2>2, <3>1, <3>2 DEF GrantContractScopedRole
  <2> QED BY <2>1, <2>2
<1>7. am'.admin = adm
  BY <1>6
<1>8. am' = Manager(S \cup {s}, am'.admin)
  BY <1>1, <1>4, <1>5, <1>6, <1>7 DEF Manager
<1>9. s.op \notin {"grant", "admin"}
  OBVIOUS
<1> QED BY <1>3, <1>4, <1>7, <1>8, <1>9 DEF Admins

LEMMA TallyAdminister ==
  ASSUME NEW S, NEW b, NEW s, Tally(S), Administer(b, s)
  PROVE  Tally(S \cup {s})'
<1>1. /\ s.op \in {"role", "map", "grant", "admin", "scoped"} /\ Succeeds(s)
      /\ UNCHANGED <<deployed, wire, names>>
  BY DEF Administer, Executes
<1>2. /\ deployed' = Contracts(S \cup {s}) /\ names' = Published(S \cup {s})
      /\ DOMAIN wire' = Slots(S \cup {s})
      /\ \A slot \in DOMAIN wire' : wire'[slot] \in Stored(S \cup {s}, slot)
  BY <1>1, SameWorld
<1>3. /\ am' = Manager(S \cup {s}, am'.admin) /\ DOMAIN am'.admin = Roles(S \cup {s})
      /\ \A r \in Roles(S \cup {s}) : am'.admin[r] \in Admins(S \cup {s}, r)
      /\ \A x \in S \cup {s} : x.op \in {"grant", "admin"} => x.role \in Roles(S \cup {s})
  <2>1. CASE s.op = "role" /\ am' = RegisterRole(am, s.role)
    <3>1. s.role \notin am.roles
      BY <1>1, <2>1 DEF Succeeds
    <3> QED BY <2>1, <3>1, TallyRole
  <2>2. CASE \/ s.op = "grant" /\ am' = GrantRole(am, s.role, s.c)
             \/ s.op = "admin" /\ am' = SetRoleAdmin(am, s.role, s.admin)
    <3>1. s.role \in am.roles
      BY <1>1, <2>2 DEF Succeeds
    <3> QED BY <2>2, <3>1, TallyGrant
  <2>3. CASE \/ s.op = "map" /\ am' = AddFunctionAllowedRoles(am, s.c, s.functions, s.roles)
             \/ s.op = "scoped" /\ am' = GrantContractScopedRole(am, s.role, s.c, s.on)
    BY <2>3, TallyAllow
  <2> QED BY <2>1, <2>2, <2>3 DEF Administer
<1> QED BY <1>2, <1>3 DEF Tally



-----------------------------------------------------------------------------
(* The cursor of a task passes the places of its plan in order.            *)

LEMMA PlaceFacts ==
  ASSUME NEW phases
  PROVE  \A x : x \in Places(phases) <=>
           \E p \in DOMAIN phases : \E b \in DOMAIN phases[p] : \E i \in DOMAIN phases[p][b] :
             x = <<p, b, i>>
BY DEF Places

\* A place of the task's plan is a phase, a branch of it and a position in it.
LEMMA InPlan ==
  ASSUME task \in DOMAIN Plans, NEW x \in Places(Plan.phases)
  PROVE  /\ x[1] \in 1 .. Len(Plan.phases) /\ x[2] \in DOMAIN Plan.phases[x[1]]
         /\ x[3] \in 1 .. Len(Plan.phases[x[1]][x[2]]) /\ x = <<x[1], x[2], x[3]>>
         /\ Len(Plan.phases) \in Nat /\ Len(Plan.phases[x[1]][x[2]]) \in Nat
<1>1. PICK phases : phases = Plan.phases
  OBVIOUS
<1>2. /\ Len(phases) \in Nat \ {0} /\ DOMAIN phases = 1 .. Len(phases)
      /\ \A p \in DOMAIN phases : \A b \in DOMAIN phases[p] :
           Len(phases[p][b]) \in Nat /\ DOMAIN phases[p][b] = 1 .. Len(phases[p][b])
  BY <1>1, PlansAssumption DEF Plan
<1>3. PICK p \in DOMAIN phases : \E b \in DOMAIN phases[p] : \E i \in DOMAIN phases[p][b] :
        x = <<p, b, i>>
  BY <1>1, PlaceFacts
<1>4. PICK b \in DOMAIN phases[p] : \E i \in DOMAIN phases[p][b] : x = <<p, b, i>>
  BY <1>3
<1>5. PICK i \in DOMAIN phases[p][b] : x = <<p, b, i>>
  BY <1>4
<1>6. x[1] = p /\ x[2] = b /\ x[3] = i
  BY <1>5
<1> QED BY <1>1, <1>2, <1>5, <1>6

\* The place that a branch has reached is the next to be passed, and what has
\* been executed lies between what surely and what possibly precedes it.
LEMMA NextPlace ==
  ASSUME CursorInv, NEW b \in Branches, Pending(b)
  PROVE  LET x == <<phase, b, at[b] + 1>>
         IN /\ x \in Places(Plan.phases) /\ At(Plan.phases, x) = Step(b)
            /\ Surely(Plan.phases, x) \subseteq Executed
            /\ Executed \subseteq Possibly(Plan.phases, x)
<1>1. PICK phases, n, i : phases = Plan.phases /\ n = phase /\ i = at[b] + 1
  OBVIOUS
<1>2. /\ n \in DOMAIN phases /\ DOMAIN phases = 1 .. Len(phases) /\ Len(phases) \in Nat
      /\ b \in DOMAIN phases[n] /\ Len(phases[n][b]) \in Nat
      /\ DOMAIN phases[n][b] = 1 .. Len(phases[n][b])
  BY <1>1, PlansAssumption DEF CursorInv, Branches, Plan
<1>3. at[b] \in Nat /\ at[b] < Len(phases[n][b])
  BY <1>1 DEF CursorInv, Pending
<1>4. i \in DOMAIN phases[n][b]
  BY <1>1, <1>2, <1>3
<1>5. PICK x : x = <<n, b, i>>
  OBVIOUS
<1>6. x \in Places(phases) /\ At(phases, x) = Step(b)
  BY <1>1, <1>2, <1>4, <1>5, PlaceFacts DEF At, Step
<1>7. ASSUME NEW y \in Places(phases), Precedes(y, x)
      PROVE  y \in Passed
  <2>1. y[3] \in Nat
    BY <1>1, InPlan DEF CursorInv
  <2> QED BY <1>1, <1>3, <1>5, <1>7, <2>1 DEF Passed, Precedes
<1>8. ASSUME NEW y \in Passed
      PROVE  y \in Places(phases) /\ MayPrecede(y, x)
  <2>1. y \in Places(phases) /\ (y[1] < n \/ (y[1] = n /\ y[3] <= at[y[2]]))
    BY <1>1 DEF Passed
  <2>2. y[3] \in Nat
    BY <1>1, <2>1, InPlan DEF CursorInv
  <2> QED BY <1>1, <1>3, <1>5, <2>1, <2>2 DEF MayPrecede, Precedes
<1>9. Surely(phases, x) \subseteq Executed
  BY <1>1, <1>7 DEF Surely, Executed, StepsAt
<1>10. Executed \subseteq Possibly(phases, x)
  BY <1>1, <1>8 DEF Possibly, Executed, StepsAt
<1> QED BY <1>1, <1>5, <1>6, <1>9, <1>10

LEMMA PassPlace ==
  ASSUME CursorInv, NEW b \in Branches, Pending(b), status = "running",
         at' = [at EXCEPT ![b] = @ + 1], UNCHANGED <<task, phase, status>>
  PROVE  CursorInv' /\ Executed' = Executed \cup {Step(b)}
<1>1. PICK phases, n, x : phases = Plan.phases /\ n = phase /\ x = <<phase, b, at[b] + 1>>
  OBVIOUS
<1>2. x \in Places(phases) /\ At(phases, x) = Step(b)
  BY <1>1, NextPlace
<1>3. Plan' = Plan /\ Branches' = Branches
  BY DEF Plan, Branches
<1>4. /\ task \in DOMAIN Plans /\ n \in DOMAIN phases /\ at \in [Branches -> Nat]
  BY <1>1 DEF CursorInv
<1>5. at' \in [Branches -> Nat] /\ at'[b] = at[b] + 1 /\ \A c \in Branches \ {b} : at'[c] = at[c]
  BY <1>4
<1>6. CursorInv'
  BY <1>1, <1>3, <1>4, <1>5 DEF CursorInv
<1>7. ASSUME NEW y \in Places(phases)
      PROVE  (y[1] < n \/ (y[1] = n /\ y[3] <= at'[y[2]]))
               <=> (y[1] < n \/ (y[1] = n /\ y[3] <= at[y[2]])) \/ y = x
  <2>1. y[3] \in Nat /\ y = <<y[1], y[2], y[3]>> /\ (y[1] = n => y[2] \in Branches)
    BY <1>1, <1>4, InPlan DEF Branches
  <2>2. at[b] \in Nat /\ x[1] = n /\ x[2] = b /\ x[3] = at[b] + 1
    BY <1>1, <1>4
  <2>3. CASE y[1] = n /\ y[2] = b
    <3>1. y = x <=> y[3] = at[b] + 1
      BY <1>1, <2>1, <2>3
    <3> QED BY <1>5, <2>1, <2>2, <2>3, <3>1
  <2>4. CASE y[1] # n
    BY <2>2, <2>4
  <2>5. CASE y[1] = n /\ y[2] # b
    BY <1>5, <2>1, <2>2, <2>5
  <2> QED BY <2>3, <2>4, <2>5
<1>8. Passed' = Passed \cup {x}
  <2>1. Passed' = {y \in Places(phases) : y[1] < n \/ (y[1] = n /\ y[3] <= at'[y[2]])}
    BY <1>1, <1>3 DEF Passed
  <2>2. Passed = {y \in Places(phases) : y[1] < n \/ (y[1] = n /\ y[3] <= at[y[2]])}
    BY <1>1 DEF Passed
  <2> QED BY <1>2, <1>7, <2>1, <2>2
<1>9. Executed' = StepsAt(phases, Passed \cup {x}) /\ Executed = StepsAt(phases, Passed)
  BY <1>1, <1>3, <1>8 DEF Executed
<1> QED BY <1>2, <1>6, <1>9 DEF StepsAt

\* A phase ends when all of it has been passed.
LEMMA PhaseEnds ==
  ASSUME CursorInv, \A b \in Branches : ~Pending(b)
  PROVE  Passed = {x \in Places(Plan.phases) : x[1] <= phase}
<1>1. ASSUME NEW x \in Places(Plan.phases)
      PROVE  (x[1] < phase \/ (x[1] = phase /\ x[3] <= at[x[2]])) <=> x[1] <= phase
  <2>1. PICK p, b, i : p = x[1] /\ b = x[2] /\ i = x[3]
    OBVIOUS
  <2>2. /\ p \in Nat /\ i \in 1 .. Len(Plan.phases[p][b]) /\ Len(Plan.phases[p][b]) \in Nat
        /\ b \in DOMAIN Plan.phases[p]
    BY <2>1, InPlan DEF CursorInv
  <2>3. phase \in Nat
    BY PlansAssumption DEF CursorInv, Plan
  <2>4. ASSUME p = phase PROVE i <= at[b]
    <3>1. b \in Branches /\ ~Pending(b)
      BY <2>2, <2>4 DEF Branches
    <3>2. at[b] \in Nat /\ ~(at[b] < Len(Plan.phases[phase][b]))
      BY <3>1 DEF CursorInv, Pending
    <3> QED BY <2>2, <2>4, <3>2
  <2> QED BY <2>1, <2>2, <2>3, <2>4
<1> QED BY <1>1 DEF Passed

LEMMA PhasePassed ==
  ASSUME CursorInv, NextPhase
  PROVE  CursorInv' /\ Executed' = Executed
<1>1. PICK phases, n : phases = Plan.phases /\ n = phase
  OBVIOUS
<1>2. /\ status = "running" /\ n < Len(phases) /\ phase' = n + 1
      /\ at' = [b \in DOMAIN phases[n + 1] |-> 0] /\ UNCHANGED <<task, status>>
  BY <1>1 DEF NextPhase
<1>3. Plan' = Plan /\ n \in 1 .. Len(phases) /\ DOMAIN phases = 1 .. Len(phases) /\ Len(phases) \in Nat
  BY <1>1, <1>2, PlansAssumption DEF CursorInv, Plan
<1>4. CursorInv'
  BY <1>1, <1>2, <1>3 DEF CursorInv, Branches
<1>5. Passed = {x \in Places(phases) : x[1] <= n}
  BY <1>1, PhaseEnds DEF NextPhase
<1>6. Passed' = {x \in Places(phases) : x[1] < n + 1 \/ (x[1] = n + 1 /\ x[3] <= at'[x[2]])}
  BY <1>1, <1>2, <1>3 DEF Passed
<1>7. ASSUME NEW x \in Places(phases)
      PROVE  (x[1] < n + 1 \/ (x[1] = n + 1 /\ x[3] <= at'[x[2]])) <=> x[1] <= n
  <2>1. PICK p, b, i : p = x[1] /\ b = x[2] /\ i = x[3]
    OBVIOUS
  <2>2. /\ p \in Nat /\ i \in 1 .. Len(phases[p][b]) /\ Len(phases[p][b]) \in Nat
        /\ b \in DOMAIN phases[p]
    BY <1>1, <2>1, InPlan DEF CursorInv
  <2>3. p = n + 1 => at'[b] = 0
    BY <1>2, <2>2
  <2> QED BY <1>3, <2>1, <2>2, <2>3
<1>8. Passed' = Passed
  BY <1>5, <1>6, <1>7
<1> QED BY <1>3, <1>4, <1>8 DEF Executed

LEMMA PlanPassed ==
  ASSUME CursorInv, Finish
  PROVE  CursorInv' /\ Executed' = Executed
<1>1. /\ phase = Len(Plan.phases) /\ status' = "done" /\ UNCHANGED <<task, phase, at>>
  BY DEF Finish
<1>2. Plan' = Plan /\ Branches' = Branches /\ Passed' = Passed
  BY <1>1 DEF Plan, Branches, Passed
<1>3. Passed = {x \in Places(Plan.phases) : x[1] <= phase}
  BY PhaseEnds DEF Finish
<1>4. \A x \in Places(Plan.phases) : x[1] <= phase
  <2>1. ASSUME NEW x \in Places(Plan.phases) PROVE x[1] <= phase
    <3>1. x[1] \in 1 .. Len(Plan.phases) /\ Len(Plan.phases) \in Nat
      BY InPlan DEF CursorInv
    <3> QED BY <1>1, <3>1
  <2> QED BY <2>1
<1>5. CursorInv'
  BY <1>1, <1>2, <1>3, <1>4 DEF CursorInv
<1> QED BY <1>2, <1>5 DEF Executed

\* A run begins at the first step, on a chain that holds nothing.
LEMMA EmptySum ==
  ASSUME deployed = FreshChain.deployed, wire = FreshChain.wire, names = FreshChain.names,
         am = FreshChain.am
  PROVE  Tally({})
<1>1. /\ Contracts({}) = {} /\ Published({}) = {} /\ Slots({}) = {}
      /\ Roles({}) = {ADMIN, TOKEN_OWNER} /\ Allowed({}) = {} /\ ScopedGrants({}) = {}
  BY DEF Contracts, Published, Slots, Roles, Allowed, ScopedGrants, SelfRegistering, Ops
<1>2. \A r : /\ Members({}, r) = IF r = ADMIN THEN {deployer} ELSE {}
             /\ AdminsSet({}, r) = {}
  BY DEF Members, AdminsSet, Ops
<1>3. DOMAIN wire = {}
  BY DEF FreshChain
<1>4. /\ am = [roles |-> Roles({}), members |-> [r \in Roles({}) |-> Members({}, r)],
               allowed |-> Allowed({}), scoped |-> ScopedGrants({}),
               admin |-> [r \in Roles({}) |-> ADMIN]]
  BY <1>1, <1>2 DEF FreshChain, NewManager
<1>5. am.admin = [r \in Roles({}) |-> ADMIN]
  BY <1>4
<1>6. am = Manager({}, am.admin)
  BY <1>4, <1>5 DEF Manager
<1>7. deployed = {} /\ names = {}
  BY DEF FreshChain
<1> QED BY <1>1, <1>2, <1>3, <1>5, <1>6, <1>7 DEF Tally, Admins

LEMMA FirstPlace ==
  ASSUME task \in DOMAIN Plans, phase = 1, at = [b \in DOMAIN Plan.phases[1] |-> 0],
         status = "running"
  PROVE  CursorInv /\ Executed = {}
<1>1. phase \in DOMAIN Plan.phases
  BY PlansAssumption DEF Plan
<1>2. CursorInv
  BY <1>1 DEF CursorInv, Branches
<1>3. ASSUME NEW x \in Passed PROVE FALSE
  <2>1. x \in Places(Plan.phases) /\ (x[1] < 1 \/ (x[1] = 1 /\ x[3] <= at[x[2]]))
    BY <1>3 DEF Passed
  <2>2. PICK p, b, i : p = x[1] /\ b = x[2] /\ i = x[3]
    OBVIOUS
  <2>3. /\ p \in 1 .. Len(Plan.phases) /\ Len(Plan.phases) \in Nat
        /\ i \in 1 .. Len(Plan.phases[p][b]) /\ Len(Plan.phases[p][b]) \in Nat
        /\ b \in DOMAIN Plan.phases[p]
    BY <2>1, <2>2, InPlan
  <2>4. p = 1 => at[b] = 0
    BY <2>3
  <2> QED BY <2>1, <2>2, <2>3, <2>4
<1> QED BY <1>2, <1>3 DEF Executed, StepsAt


Beginning ==
  /\ task \in DOMAIN Plans /\ phase = 1 /\ at = [b \in DOMAIN Plan.phases[1] |-> 0]
  /\ status = "running"
  /\ deployed = FreshChain.deployed /\ wire = FreshChain.wire /\ names = FreshChain.names
  /\ am = FreshChain.am

LEMMA FreshSum == Beginning => SumInv
BY FirstPlace, EmptySum DEF Beginning, SumInv

LEMMA FreshSumNext == Beginning' => SumInv'
BY FreshSum, PTL


LEMMA SumInit == Init => SumInv
<1>1. Init => Beginning
  BY DEF Init, Beginning, Plan
<1> QED BY <1>1, FreshSum

\* A transaction is counted with what its step leaves.
LEMMA SumAdvance ==
  ASSUME SumInv, NEW b \in Branches, Advance(b)
  PROVE  SumInv'
<1>1. PICK S, s : S = Executed /\ s = Step(b)
  OBVIOUS
<1>2. \/ Deploy(b, s) \/ Record(b, s) \/ Configure(b, s) \/ Administer(b, s)
      \/ RegisterResourceId(b, s) \/ RegisterContracts(b, s)
      \/ RegisterPrivateHubAddress(b, s) \/ Revert(s)
  BY <1>1 DEF Advance
<1>3. Tally(S) /\ CursorInv
  BY <1>1 DEF SumInv
<1>4. CASE Revert(s)
  <2>1. status' = "failed" /\ UNCHANGED <<task, phase, at, am, deployed, wire, names>>
    BY <1>4 DEF Revert
  <2>2. Plan' = Plan /\ Branches' = Branches /\ Passed' = Passed /\ Executed' = Executed
    BY <2>1 DEF Plan, Branches, Passed, Executed
  <2>3. CursorInv'
    BY <1>3, <2>1, <2>2 DEF CursorInv
  <2>4. Tally(S)'
    BY <1>3, <2>1 DEF Tally
  <2> QED BY <1>1, <2>2, <2>3, <2>4 DEF SumInv
<1>5. CASE ~Revert(s)
  <2>1. at' = [at EXCEPT ![b] = @ + 1] /\ UNCHANGED <<task, phase, status>>
    BY <1>2, <1>5 DEF Deploy, Record, Configure, Administer, RegisterResourceId,
       RegisterContracts, RegisterPrivateHubAddress, Executes
  <2>2. CursorInv' /\ Executed' = S \cup {s}
    BY <1>1, <1>3, <2>1, PassPlace DEF Advance
  <2>3. Tally(S \cup {s})'
    BY <1>2, <1>3, <1>5, TallyDeploy, TallyPlain, TallyAdminister
  <2> QED BY <2>2, <2>3 DEF SumInv
<1> QED BY <1>4, <1>5

LEMMA SumNext == SumInv /\ [Next]_vars => SumInv'
<1> SUFFICES ASSUME SumInv, [Next]_vars PROVE SumInv'
  OBVIOUS
<1>1. PICK S : S = Executed
  OBVIOUS
<1>2. Tally(S) /\ CursorInv
  BY <1>1 DEF SumInv
<1>3. ASSUME UNCHANGED <<am, deployed, wire, names>>, CursorInv', Executed' = S
      PROVE  SumInv'
  <2>1. Tally(S)'
    BY <1>2, <1>3 DEF Tally
  <2> QED BY <1>3, <2>1 DEF SumInv
<1>4. ASSUME UNCHANGED <<task, phase, at>>, status' \in {"failed", "blocked", status}
      PROVE  CursorInv' /\ Executed' = S
  <2>1. Plan' = Plan /\ Branches' = Branches /\ Passed' = Passed
    BY <1>4 DEF Plan, Branches, Passed
  <2> QED BY <1>1, <1>2, <1>4, <2>1 DEF CursorInv, Executed
<1>5. ASSUME NEW b \in Branches, Advance(b) PROVE SumInv'
  BY <1>5, SumAdvance
<1>6. CASE NextPhase
  BY <1>1, <1>2, <1>3, <1>6, PhasePassed DEF NextPhase
<1>7. CASE Finish
  BY <1>1, <1>2, <1>3, <1>7, PlanPassed DEF Finish
<1>8. CASE Crash
  BY <1>3, <1>4, <1>8 DEF Crash
<1>9. CASE Restart \/ RestartUnread
  <2>1. StartAgain
    BY <1>9 DEF Restart, RestartUnread
  <2>2. Beginning'
    BY <1>2, <2>1 DEF StartAgain, Beginning, CursorInv, Plan, FreshChain
  <2> QED BY <2>2, FreshSumNext
<1>10. CASE Refuse
  BY <1>3, <1>4, <1>10 DEF Refuse
<1>11. CASE UNCHANGED vars
  BY <1>3, <1>4, <1>11 DEF vars
<1> QED BY <1>5, <1>6, <1>7, <1>8, <1>9, <1>10, <1>11 DEF Next

\* In whatever order the branches of a task take their steps, and wherever it
\* is stopped, the chain holds what the steps executed so far leave, each
\* counted once: the contracts, slots, names and rights of a deployment do
\* not depend on the interleaving of Promise.all.
THEOREM PlansAddUp == Spec => []SumInv
<1>1. Init => SumInv
  BY SumInit
<1>2. SumInv /\ [Next]_vars => SumInv'
  BY SumNext
<1> QED BY <1>1, <1>2, PTL DEF Spec


-----------------------------------------------------------------------------
(* What can be read off a plan, without executing it, holds.               *)

\* A step that fits its place succeeds.
LEMMA FitSucceeds ==
  ASSUME NEW Y, NEW S \in SUBSET Y, NEW M \in SUBSET S, NEW s, Tally(S), Fits(M, Y, s)
  PROVE  Succeeds(s)
<1>1. /\ deployed = Contracts(S) /\ DOMAIN wire = Slots(S)
      /\ \A slot \in DOMAIN wire : wire[slot] \in Stored(S, slot)
      /\ am = Manager(S, am.admin) /\ am.roles = Roles(S)
  BY ManagerOf DEF Tally
<1>2. Contracts(M) \subseteq Contracts(S) /\ Roles(M) \subseteq Roles(S) /\ Roles(S) \subseteq Roles(Y)
  BY Grows
<1>3. \A slots : Exist(M, slots) => Holds(slots)
  BY <1>1, <1>2 DEF Exist, Holds
<1>4. CASE /\ s.op = "deploy" /\ Exist(M, s.slots)
           /\ s.registers => DOMAIN s.mappings \subseteq Roles(M)
  BY <1>1, <1>2, <1>3, <1>4 DEF Succeeds
<1>5. CASE s.op = "record"
  BY <1>5 DEF Succeeds
<1>6. CASE /\ s.op = "config" /\ s.c \in Contracts(M) /\ Exist(M, s.slots)
           /\ \A call \in s.calls : Finds(M \cup {s}, Y \cup {s}, call)
  <2>1. PICK w : w = Over(Set2Wire(s.c, s.slots), wire)
    OBVIOUS
  <2>2. DOMAIN w = Slots(S \cup {s}) /\ \A slot \in DOMAIN w : w[slot] \in Stored(S \cup {s}, slot)
    BY <1>6, <2>1, SetWire
  <2>3. am = Manager(S \cup {s}, am.admin)
    <3>1. s.op \in {"deploy", "record", "config", "resource", "names", "hub"} /\ s.op # "deploy"
      BY <1>6
    <3> QED BY <3>1, SameManager
  <2>4. PICK T, N, Z : T = S \cup {s} /\ N = M \cup {s} /\ Z = Y \cup {s}
    OBVIOUS
  <2>5. ASSUME NEW call \in s.calls PROVE Ready(w, call)
    <3>1. T \in SUBSET Z /\ N \in SUBSET T /\ Finds(N, Z, call)
      BY <1>6, <2>4
    <3>2. /\ DOMAIN w = Slots(T) /\ \A slot \in DOMAIN w : w[slot] \in Stored(T, slot)
          /\ am = Manager(T, am.admin)
      BY <2>2, <2>3, <2>4
    <3> QED BY <3>1, <3>2, FindsReady
  <2> QED BY <1>1, <1>2, <1>3, <1>6, <2>1, <2>5 DEF Succeeds
<1>7. CASE s.op = "role" /\ s.role \notin Roles(Y)
  BY <1>1, <1>2, <1>7 DEF Succeeds
<1>8. CASE s.op = "map" /\ s.c \in Contracts(M) /\ s.roles \subseteq Roles(M)
  BY <1>1, <1>2, <1>8 DEF Succeeds
<1>9. CASE s.op \in {"grant", "scoped"} /\ s.c \in Contracts(M) \cup {deployer} /\ s.role \in Roles(M)
  BY <1>1, <1>2, <1>9 DEF Succeeds
<1>10. CASE s.op = "admin" /\ {s.role, s.admin} \subseteq Roles(M)
  BY <1>1, <1>2, <1>10 DEF Succeeds
<1>11. CASE /\ s.op = "resource" /\ s.c \in Contracts(M)
            /\ Finds(M, Y, Guarded("Endpoint", "resourceManager", "registerResourceId"))
  <2>1. PICK call : call = Guarded("Endpoint", "resourceManager", "registerResourceId")
    OBVIOUS
  <2>2. Ready(wire, call)
    BY <1>1, <1>11, <2>1, FindsReady
  <2> QED BY <1>1, <1>2, <1>11, <2>1, <2>2 DEF Succeeds
<1>12. CASE s.op = "names" /\ s.cs \subseteq Contracts(M)
  BY <1>1, <1>2, <1>12 DEF Succeeds
<1>13. CASE s.op = "hub" /\ s.name \in s.published
  BY <1>13 DEF Succeeds
<1> QED BY <1>4, <1>5, <1>6, <1>7, <1>8, <1>9, <1>10, <1>11, <1>12, <1>13 DEF Fits


AllStepsFit == \A t \in DOMAIN Plans : StepsFit(Plans[t])
FaultInv == SumInv /\ faults \in Nat /\ FailsOnlyWhenStopped

LEMMA NoRevert ==
  ASSUME AllStepsFit, SumInv, NEW b \in Branches, Pending(b)
  PROVE  Succeeds(Step(b))
<1>1. PICK plan, x, s, S, M, Y :
        /\ plan = Plan /\ x = <<phase, b, at[b] + 1>> /\ s = Step(b) /\ S = Executed
        /\ M = Surely(plan.phases, x) /\ Y = Possibly(plan.phases, x)
  OBVIOUS
<1>2. x \in Places(plan.phases) /\ At(plan.phases, x) = s /\ M \subseteq S /\ S \subseteq Y
  BY <1>1, NextPlace DEF SumInv
<1>3. StepsFit(plan)
  BY <1>1 DEF AllStepsFit, SumInv, CursorInv, Plan
<1>4. Fits(M, Y, s)
  BY <1>1, <1>2, <1>3 DEF StepsFit
<1>5. Tally(S)
  BY <1>1 DEF SumInv
<1> QED BY <1>1, <1>2, <1>4, <1>5, FitSucceeds

LEMMA FaultNext == AllStepsFit /\ FaultInv /\ [Next]_vars => FaultInv'
<1> SUFFICES ASSUME AllStepsFit, FaultInv, [Next]_vars PROVE FaultInv'
  OBVIOUS
<1>1. SumInv'
  BY SumNext DEF FaultInv
<1>2. ASSUME UNCHANGED faults, status' # "failed" \/ status' = status
      PROVE  FaultInv'
  BY <1>1, <1>2 DEF FaultInv, FailsOnlyWhenStopped
<1>3. ASSUME NEW b \in Branches, Advance(b) PROVE FaultInv'
  <2>1. ~Revert(Step(b))
    BY <1>3, NoRevert DEF FaultInv, Advance, Revert
  <2>2. UNCHANGED <<status, faults>>
    BY <1>3, <2>1 DEF Advance, Deploy, Record, Configure, Administer, RegisterResourceId,
       RegisterContracts, RegisterPrivateHubAddress, Executes
  <2> QED BY <1>2, <2>2
<1>4. CASE NextPhase \/ Finish
  BY <1>2, <1>4 DEF NextPhase, Finish
<1>5. CASE Crash
  BY <1>1, <1>5 DEF Crash, FaultInv, FailsOnlyWhenStopped
<1>6. CASE Restart \/ Refuse
  BY <1>2, <1>6 DEF Restart, StartAgain, Refuse
<1>7. CASE RestartUnread
  BY <1>1, <1>7 DEF RestartUnread, StartAgain, FaultInv, FailsOnlyWhenStopped
<1>8. CASE UNCHANGED vars
  BY <1>2, <1>8 DEF vars
<1> QED BY <1>3, <1>4, <1>5, <1>6, <1>7, <1>8 DEF Next

\* A task whose plan provides for each step, whatever the branches beside it
\* have done by then, fails only when it is stopped from outside.
THEOREM PlansNeverFail ==
  ASSUME AllStepsFit
  PROVE  Spec => []FailsOnlyWhenStopped
<1>1. Init => FaultInv
  BY SumInit DEF Init, FaultInv, FailsOnlyWhenStopped
<1>2. FaultInv /\ [Next]_vars => FaultInv'
  BY FaultNext
<1>3. FaultInv => FailsOnlyWhenStopped
  BY DEF FaultInv
<1> QED BY <1>1, <1>2, <1>3, PTL DEF Spec

\* When a task is done every step of its plan has been executed.
LEMMA DoneIsAll ==
  ASSUME SumInv, status = "done"
  PROVE  Tally(AllSteps(Plan.phases))
BY DEF SumInv, CursorInv, Executed, AllSteps

\* A deployment that is done works, when every call of its plan is provided
\* for in whatever order the slots were set.
THEOREM DeploymentsWork ==
  ASSUME \A t \in DOMAIN Plans : CallsFit(Plans[t])
  PROVE  Spec => []RuntimeReady
<1>1. SumInv => RuntimeReady
  <2> SUFFICES ASSUME SumInv, status = "done"
               PROVE  /\ \A call \in Plan.calls \cup Plan.messages : Ready(wire, call)
                      /\ \A g \in Plan.grantors : CanGrant(am, g[1], g[2])
    BY DEF RuntimeReady
  <2>1. PICK S : S = AllSteps(Plan.phases)
    OBVIOUS
  <2>2. Tally(S) /\ CallsFit(Plan)
    BY <2>1, DoneIsAll DEF SumInv, CursorInv, Plan
  <2>3. ASSUME NEW call \in Plan.calls \cup Plan.messages PROVE Ready(wire, call)
    <3>1. Finds(S, S, call)
      BY <2>1, <2>2 DEF CallsFit
    <3> QED BY <2>2, <3>1, FindsReady DEF Tally
  <2>4. ASSUME NEW g \in Plan.grantors PROVE CanGrant(am, g[1], g[2])
    <3>1. PICK who, role, adm : who = g[1] /\ role = g[2] /\ adm = am.admin[g[2]]
      OBVIOUS
    <3>2. /\ role \in Roles(S)
          /\ \A r \in Admins(S, role) : r \in Roles(S) /\ who \in Members(S, ADMIN) \cup Members(S, r)
      BY <2>1, <2>2, <3>1 DEF CallsFit, MayGrant
    <3>3. adm \in Admins(S, role)
      BY <2>2, <3>1, <3>2 DEF Tally
    <3>4. /\ am.roles = Roles(S) /\ ADMIN \in Roles(S)
          /\ \A r \in Roles(S) : am.members[r] = Members(S, r)
      <4>1. PICK R, M : R = Roles(S) /\ M = [r \in Roles(S) |-> Members(S, r)]
        OBVIOUS
      <4>2. am.roles = R /\ am.members = M
        BY <2>2, <4>1, ManagerOf
      <4> QED BY <4>1, <4>2 DEF Roles
    <3> QED BY <3>1, <3>2, <3>3, <3>4 DEF CanGrant
  <2> QED BY <2>3, <2>4
<1>2. Spec => []SumInv
  BY PlansAddUp
<1> QED BY <1>1, <1>2, PTL

\* The relayers find a chain by its names, and no name is there before all
\* that a message needs, when a plan publishes behind what it sets up.
THEOREM MessagesComeBeforeNames ==
  ASSUME \A t \in DOMAIN Plans : NamesFit(Plans[t])
  PROVE  Spec => []MessagesReadyWhenNamed
<1>1. SumInv => MessagesReadyWhenNamed
  <2> SUFFICES ASSUME SumInv, names # {}, NEW call \in Plan.messages
               PROVE  Ready(wire, call)
    BY DEF MessagesReadyWhenNamed
  <2>1. PICK phases, S : phases = Plan.phases /\ S = Executed
    OBVIOUS
  <2>2. Tally(S) /\ NamesFit(Plan) /\ S = StepsAt(phases, Passed) /\ Passed \subseteq Places(phases)
    BY <2>1 DEF SumInv, CursorInv, Plan, Executed, Passed
  <2>3. PICK s \in S : s.op = "names"
    BY <2>2 DEF Tally, Published, Ops
  <2>4. PICK x \in Passed : s = At(phases, x)
    BY <2>2 DEF StepsAt
  <2>5. PICK M, Y : M = Surely(phases, x) /\ Y = AllSteps(phases)
    OBVIOUS
  <2>6. Finds(M, Y, call)
    BY <2>1, <2>2, <2>3, <2>4, <2>5 DEF NamesFit
  <2>7. S \subseteq Y
    BY <2>2, <2>5 DEF StepsAt, AllSteps
  <2>8. ASSUME NEW y \in Places(phases), Precedes(y, x) PROVE y \in Passed
    <3>1. /\ x[1] \in Nat /\ y[1] \in Nat /\ x[3] \in Nat /\ y[3] \in Nat /\ phase \in Nat
          /\ x[2] \in DOMAIN Plan.phases[x[1]]
      BY <2>1, <2>2, <2>4, <2>8, InPlan, PlansAssumption DEF SumInv, CursorInv, Plan
    <3>2. x[1] < phase \/ (x[1] = phase /\ x[3] <= at[x[2]])
      BY <2>4 DEF Passed
    <3>3. x[1] = phase => at[x[2]] \in Nat
      BY <3>1 DEF SumInv, CursorInv, Branches
    <3> QED BY <2>1, <2>8, <3>1, <3>2, <3>3 DEF Precedes, Passed
  <2>9. M \subseteq S
    BY <2>2, <2>5, <2>8 DEF Surely, StepsAt
  <2> QED BY <2>2, <2>6, <2>7, <2>9, FindsReady DEF Tally
<1>2. Spec => []SumInv
  BY PlansAddUp
<1> QED BY <1>1, <1>2, PTL

\* The role audit has no finding after a deployment of the hub or of the
\* public chain, when the steps of the plan add up to what it expects.
THEOREM FreshAuditsAreClean ==
  ASSUME \A t \in DOMAIN Plans \cap AuditedClean : AuditFits(Plans[t])
  PROVE  Spec => []FreshAuditsClean
<1>1. SumInv => FreshAuditsClean
  <2> SUFFICES ASSUME SumInv, status = "done", task \in AuditedClean
               PROVE  FreshFindings = {}
    BY DEF FreshAuditsClean
  <2>1. PICK S, expected : S = AllSteps(Plan.phases) /\ expected = Plan.expected
    OBVIOUS
  <2>2. Tally(S) /\ RoleFindings(Manager(S, << >>), Published(S), expected) = {}
    BY <2>1, DoneIsAll DEF SumInv, CursorInv, Plan, AuditFits
  <2>3. /\ am.roles = Manager(S, << >>).roles /\ am.members = Manager(S, << >>).members
        /\ names = Published(S)
    BY <2>2, ManagerOf DEF Tally, Manager
  <2>4. RoleFindings(am, names, expected) = RoleFindings(Manager(S, << >>), Published(S), expected)
    <3>1. PICK m, b : m = Manager(S, << >>) /\ b = am
      OBVIOUS
    <3>2. b.roles = m.roles /\ b.members = m.members
      BY <2>3, <3>1
    <3>3. \A r : Holders(b, r) = Holders(m, r)
      BY <3>2 DEF Holders
    <3>4. \A known : Missing(b, known, expected) = Missing(m, known, expected)
      BY <3>3 DEF Missing
    <3>5. \A known : Unexpected(b, known, expected) = Unexpected(m, known, expected)
      BY <3>2, <3>3 DEF Unexpected
    <3> QED BY <2>3, <3>1, <3>4, <3>5 DEF RoleFindings
  <2> QED BY <2>1, <2>2, <2>4 DEF FreshFindings
<1>2. Spec => []SumInv
  BY PlansAddUp
<1> QED BY <1>1, <1>2, PTL



-----------------------------------------------------------------------------
(* Nothing on a chain points to a contract that does not exist.            *)

\* What a step that was executed refers to is there.
Refers(s) ==
  /\ s.op \in {"deploy", "config"} => s.c \in deployed /\ Holds(s.slots)
  /\ s.op = "deploy" /\ s.registers => DOMAIN s.mappings \subseteq am.roles
  /\ s.op = "map" => s.c \in deployed /\ s.roles \subseteq am.roles
  /\ s.op = "grant" => s.c \in deployed \cup {deployer}
  /\ s.op = "resource" => {s.c, "ResourceManager"} \subseteq deployed
  /\ s.op = "names" => s.cs \subseteq deployed

CountersOK ==
  /\ \A b \in Branches : at[b] <= Len(Plan.phases[phase][b])
  /\ runs \in 1 .. MaxRuns /\ faults \in 0 .. MaxFaults
GroundInv == SumInv /\ CountersOK /\ \A s \in Executed : Refers(s)

AllResourcesFit == \A t \in DOMAIN Plans : ResourcesFit(Plans[t])

\* A slot of the sum, and what is in it.
LEMMA SlotsExist ==
  ASSUME NEW S, Tally(S), \A s \in S : Refers(s), NEW slot \in DOMAIN wire
  PROVE  slot[1] \in deployed /\ wire[slot] \in deployed
<1>1. slot \in Slots(S) /\ wire[slot] \in Stored(S, slot)
  BY DEF Tally
<1>2. ASSUME NEW s \in S, slot \in SlotsOf(s)
      PROVE  slot[1] \in deployed /\ ValueAt(s, slot) \in deployed
  <2>1. CASE s.op \in {"deploy", "config"}
    <3>1. slot \in {s.c} \X DOMAIN s.slots /\ ValueAt(s, slot) = s.slots[slot[2]]
      BY <1>2, <2>1 DEF SlotsOf, ValueAt
    <3> QED BY <2>1, <3>1 DEF Refers, Holds
  <2>2. CASE s.op = "resource"
    <3>1. slot = <<"ResourceManager", s.id>> /\ ValueAt(s, slot) = s.c
      BY <1>2, <2>2 DEF SlotsOf, ValueAt
    <3> QED BY <2>2, <3>1 DEF Refers
  <2>3. CASE s.op \notin {"deploy", "config", "resource"}
    BY <1>2, <2>3 DEF SlotsOf
  <2> QED BY <2>1, <2>2, <2>3
<1>3. PICK s \in S : slot \in SlotsOf(s)
  BY <1>1 DEF Slots
<1>4. PICK r \in S : slot \in SlotsOf(r) /\ wire[slot] = ValueAt(r, slot)
  BY <1>1 DEF Stored
<1> QED BY <1>2, <1>3, <1>4

\* The rights of the sum, and who has them.
LEMMA RightsExist ==
  ASSUME NEW S, Tally(S), \A s \in S : Refers(s)
  PROVE  /\ DOMAIN am.members = am.roles /\ DOMAIN am.admin = am.roles
         /\ \A r \in am.roles : am.members[r] \subseteq deployed \cup {deployer}
         /\ \A t \in am.allowed : t[1] \in deployed /\ t[3] \in am.roles
<1>1. PICK R, M, A : R = Roles(S) /\ M = [r \in Roles(S) |-> Members(S, r)] /\ A = Allowed(S)
  OBVIOUS
<1>2. am.roles = R /\ am.members = M /\ am.allowed = A /\ DOMAIN am.admin = R
  BY <1>1, ManagerOf DEF Tally
<1>3. ASSUME NEW r PROVE Members(S, r) \subseteq deployed \cup {deployer}
  BY DEF Members, Ops, Refers
<1>4. ASSUME NEW t \in A PROVE t[1] \in deployed /\ t[3] \in R
  <2>1. CASE t \in UNION {{s.c} \X s.functions \X s.roles : s \in Ops(S, "map")}
    <3>1. PICK s \in S : s.op = "map" /\ t \in {s.c} \X s.functions \X s.roles
      BY <2>1 DEF Ops
    <3> QED BY <1>2, <3>1 DEF Refers
  <2>2. CASE t \in UNION {OwnMappings(s) : s \in SelfRegistering(S)}
    <3>1. PICK s \in S : s.op = "deploy" /\ s.registers /\ t \in OwnMappings(s)
      BY <2>2 DEF SelfRegistering, Ops
    <3>2. PICK r \in DOMAIN s.mappings : \E f \in s.mappings[r] : t = <<s.c, f, r>>
      BY <3>1 DEF OwnMappings
    <3>3. t[1] = s.c /\ t[3] = r
      BY <3>2
    <3> QED BY <1>2, <3>1, <3>2, <3>3 DEF Refers
  <2> QED BY <1>1, <2>1, <2>2 DEF Allowed
<1>5. DOMAIN M = R /\ \A r \in R : M[r] = Members(S, r)
  BY <1>1
<1> QED BY <1>2, <1>3, <1>4, <1>5

\* The manifest, and the list of the blind runs, name runs that were begun.
BooksInv ==
  /\ runs \in Nat \ {0} /\ blind \subseteq 1 .. runs
  /\ DOMAIN manifest = {"plain", "suffixed"}
  /\ \A file \in DOMAIN manifest : manifest[file] \subseteq 1 .. runs

LEMMA BooksNext == BooksInv /\ [Next]_vars => BooksInv'
<1> SUFFICES ASSUME BooksInv, [Next]_vars PROVE BooksInv'
  OBVIOUS
<1>1. CASE UNCHANGED <<books, runs>>
  BY <1>1 DEF BooksInv, books
<1>2. ASSUME NEW b, NEW s, Record(b, s) PROVE BooksInv'
  <2>1. /\ manifest' = [manifest EXCEPT ![Recorded] = @ \cup {runs}]
        /\ runs' = runs /\ blind' = blind
    BY <1>2 DEF Record, Executes
  <2>2. runs \in 1 .. runs
    BY DEF BooksInv
  <2>3. DOMAIN manifest' = DOMAIN manifest
    BY <2>1
  <2>4. \A file \in DOMAIN manifest : manifest'[file] \subseteq manifest[file] \cup {runs}
    BY <2>1
  <2> QED BY <2>1, <2>2, <2>3, <2>4 DEF BooksInv
<1>3. CASE Restart \/ RestartUnread
  <2>1. /\ runs' = runs + 1 /\ manifest' = manifest
        /\ blind' \subseteq blind \cup {runs + 1}
    BY <1>3 DEF Restart, RestartUnread, StartAgain
  <2>2. 1 .. runs \subseteq 1 .. runs' /\ runs + 1 \in 1 .. runs' /\ runs' \in Nat \ {0}
    BY <2>1 DEF BooksInv
  <2> QED BY <2>1, <2>2 DEF BooksInv
<1>4. ASSUME NEW b \in Branches, Advance(b), ~(UNCHANGED <<books, runs>>) PROVE BooksInv'
  <2>1. PICK s : \/ Deploy(b, s) \/ Record(b, s) \/ Configure(b, s) \/ Administer(b, s)
                 \/ RegisterResourceId(b, s) \/ RegisterContracts(b, s)
                 \/ RegisterPrivateHubAddress(b, s) \/ Revert(s)
    BY <1>4 DEF Advance
  <2> QED BY <1>2, <1>4, <2>1 DEF books, Deploy, Configure, Administer, RegisterResourceId,
       RegisterContracts, RegisterPrivateHubAddress, Revert, Executes
<1> QED BY <1>1, <1>3, <1>4 DEF Next, NextPhase, Finish, Crash, Refuse, vars, books

LEMMA GroundTypes == GroundInv /\ BooksInv => TypeOK
<1> SUFFICES ASSUME GroundInv, BooksInv PROVE TypeOK
  OBVIOUS
<1>1. PICK S : S = Executed
  OBVIOUS
<1>2. Tally(S) /\ \A s \in S : Refers(s)
  BY <1>1 DEF GroundInv, SumInv
<1>3. {wire[p] : p \in DOMAIN wire} \cup {p[1] : p \in DOMAIN wire} \subseteq deployed
  BY <1>2, SlotsExist
<1>4. names \subseteq deployed
  BY <1>2 DEF Tally, Published, Ops, Refers
<1>5. /\ DOMAIN am.members = am.roles /\ DOMAIN am.admin = am.roles
      /\ \A r \in am.roles : am.members[r] \subseteq deployed \cup {deployer}
      /\ \A t \in am.allowed : t[1] \in deployed /\ t[3] \in am.roles
  BY <1>2, RightsExist
<1>6. blind \subseteq 1 .. runs /\ \A file \in DOMAIN manifest : manifest[file] \subseteq 1 .. runs
  BY DEF BooksInv
<1> QED BY <1>3, <1>4, <1>5, <1>6 DEF TypeOK, GroundInv, SumInv, CursorInv, CountersOK

\* A step that succeeds refers to what is there; a resource is registered at
\* the contract that the endpoint knows as its resource manager.
LEMMA SucceedsRefers ==
  ASSUME GroundInv, AllResourcesFit, NEW s, Succeeds(s),
         s.op = "deploy" => s.c \in deployed', deployed \subseteq deployed',
         am.roles \subseteq am'.roles
  PROVE  Refers(s)'
<1>1. PICK S, Y : S = Executed /\ Y = AllSteps(Plan.phases)
  OBVIOUS
<1>2. Tally(S) /\ (\A x \in S : Refers(x)) /\ S \subseteq Y
  BY <1>1 DEF GroundInv, SumInv, Executed, Passed, StepsAt, AllSteps
<1>3. ASSUME s.op = "resource" PROVE "ResourceManager" \in deployed
  <2>1. PICK slot : slot = <<"Endpoint", "resourceManager">>
    OBVIOUS
  <2>2. slot \in DOMAIN wire
    BY <1>3, <2>1 DEF Succeeds, Ready, Guarded, Call
  <2>3. wire[slot] \in Stored(Y, slot)
    BY <1>2, <2>2, Grows DEF Tally
  <2>4. ResourcesFit(Plan)
    BY DEF AllResourcesFit, GroundInv, SumInv, CursorInv, Plan
  <2>5. wire[slot] = "ResourceManager"
    BY <1>1, <2>1, <2>3, <2>4 DEF ResourcesFit
  <2> QED BY <1>2, <2>2, <2>5, SlotsExist
<1> QED BY <1>3 DEF Succeeds, Refers, Holds


LEMMA GroundAdvance ==
  ASSUME GroundInv, AllResourcesFit, NEW b \in Branches, Advance(b)
  PROVE  GroundInv'
<1>1. PICK S, s : S = Executed /\ s = Step(b)
  OBVIOUS
<1>2. SumInv' /\ SumInv /\ CountersOK /\ \A x \in S : Refers(x)
  BY <1>1, SumAdvance DEF GroundInv
<1>3. \/ Deploy(b, s) \/ Record(b, s) \/ Configure(b, s) \/ Administer(b, s)
      \/ RegisterResourceId(b, s) \/ RegisterContracts(b, s)
      \/ RegisterPrivateHubAddress(b, s) \/ Revert(s)
  BY <1>1 DEF Advance
<1>4. CASE Revert(s)
  <2>1. UNCHANGED <<task, phase, at, am, deployed, runs, faults>>
    BY <1>4 DEF Revert
  <2>2. Plan' = Plan /\ Branches' = Branches /\ Passed' = Passed /\ Executed' = S
    BY <1>1, <2>1 DEF Plan, Branches, Passed, Executed
  <2>3. CountersOK'
    BY <1>2, <2>1, <2>2 DEF CountersOK
  <2>4. \A x \in S : Refers(x)'
    BY <1>2, <2>1 DEF Refers, Holds
  <2> QED BY <1>2, <2>2, <2>3, <2>4 DEF GroundInv
<1>5. CASE ~Revert(s)
  <2>1. /\ Succeeds(s) /\ at' = [at EXCEPT ![b] = @ + 1]
        /\ UNCHANGED <<task, phase, status, runs, faults>>
        /\ s.op = "deploy" => deployed' = deployed \cup {s.c}
    BY <1>3, <1>5 DEF Deploy, Record, Configure, Administer, RegisterResourceId,
       RegisterContracts, RegisterPrivateHubAddress, Executes
  <2>2. Executed' = S \cup {s}
    BY <1>1, <1>2, <2>1, PassPlace DEF Advance, SumInv
  <2>3. Tally(S) /\ Tally(S \cup {s})'
    BY <1>1, <1>2, <2>2 DEF SumInv
  <2>4. deployed \subseteq deployed' /\ am.roles \subseteq am'.roles
    <3>1. PICK T : T = S \cup {s}
      OBVIOUS
    <3>2. /\ deployed = Contracts(S) /\ am.roles = Roles(S)
          /\ deployed' = Contracts(T) /\ am'.roles = Roles(T)
      BY <2>3, <3>1 DEF Tally, Manager
    <3>3. Contracts(S) \subseteq Contracts(T) /\ Roles(S) \subseteq Roles(T)
      <4>1. S \in SUBSET T
        BY <3>1
      <4> QED BY <4>1, Grows
    <3> QED BY <3>2, <3>3
  <2>5. Refers(s)'
    BY <1>2, <2>1, <2>4, SucceedsRefers
  <2>6. \A x \in S : Refers(x)'
    BY <1>2, <2>4 DEF Refers, Holds
  <2>7. Plan' = Plan /\ Branches' = Branches
    BY <2>1 DEF Plan, Branches
  <2>8. CountersOK'
    <3>1. at \in [Branches -> Nat] /\ phase \in DOMAIN Plan.phases /\ task \in DOMAIN Plans
      BY <1>2 DEF SumInv, CursorInv
    <3>2. at[b] < Len(Plan.phases[phase][b])
      BY DEF Advance, Pending
    <3>3. Len(Plan.phases[phase][b]) \in Nat
      BY <3>1, PlansAssumption DEF Branches, Plan
    <3>4. \A c \in Branches : at'[c] <= Len(Plan.phases[phase][c])
      BY <1>2, <2>1, <3>1, <3>2, <3>3 DEF CountersOK
    <3> QED BY <1>2, <2>1, <2>7, <3>4 DEF CountersOK
  <2> QED BY <1>2, <2>2, <2>5, <2>6, <2>8 DEF GroundInv
<1> QED BY <1>4, <1>5

LEMMA NothingExecuted == Beginning => Executed = {}
BY FirstPlace DEF Beginning

LEMMA NothingExecutedNext == Beginning' => (Executed = {})'
BY NothingExecuted, PTL

LEMMA GroundInit == Init => GroundInv
<1> SUFFICES ASSUME Init PROVE GroundInv
  OBVIOUS
<1>1. Beginning
  BY DEF Init, Beginning, Plan
<1>2. \A b \in Branches : at[b] <= Len(Plan.phases[phase][b])
  BY PlansAssumption DEF Init, Branches, Plan
<1> QED BY <1>1, <1>2, SumInit, NothingExecuted, BoundsAssumption DEF GroundInv, CountersOK, Init

LEMMA GroundNext == AllResourcesFit /\ GroundInv /\ [Next]_vars => GroundInv'
<1> SUFFICES ASSUME AllResourcesFit, GroundInv, [Next]_vars PROVE GroundInv'
  OBVIOUS
<1>1. PICK S : S = Executed
  OBVIOUS
<1>2. SumInv /\ SumInv' /\ CountersOK /\ \A x \in S : Refers(x)
  BY <1>1, SumNext DEF GroundInv
<1>3. MaxRuns \in Nat /\ MaxFaults \in Nat /\ runs \in Nat /\ faults \in Nat
  BY <1>2, BoundsAssumption DEF CountersOK
<1>4. ASSUME UNCHANGED <<am, deployed>>, Executed' = S, CountersOK' PROVE GroundInv'
  <2>1. \A x \in S : Refers(x)'
    BY <1>2, <1>4 DEF Refers, Holds
  <2> QED BY <1>2, <1>4, <2>1 DEF GroundInv
<1>5. ASSUME UNCHANGED <<task, phase, at, am, deployed, runs>>, faults' \in 0 .. MaxFaults
      PROVE  GroundInv'
  <2>1. Plan' = Plan /\ Branches' = Branches /\ Passed' = Passed
    BY <1>5 DEF Plan, Branches, Passed
  <2>2. Executed' = S
    BY <1>1, <2>1 DEF Executed
  <2>3. CountersOK'
    BY <1>2, <1>5, <2>1 DEF CountersOK
  <2> QED BY <1>4, <1>5, <2>2, <2>3
<1>6. ASSUME NEW b \in Branches, Advance(b) PROVE GroundInv'
  BY <1>6, GroundAdvance
<1>7. CASE NextPhase
  <2>1. Executed' = S
    BY <1>1, <1>2, <1>7, PhasePassed DEF SumInv
  <2>2. Plan' = Plan /\ phase' \in DOMAIN Plan.phases /\ task \in DOMAIN Plans
    BY <1>2, <1>7 DEF SumInv, CursorInv, NextPhase, Plan
  <2>3. \A b \in Branches' : at'[b] <= Len(Plan'.phases[phase'][b])
    <3>1. \A b \in DOMAIN Plan.phases[phase'] : Len(Plan.phases[phase'][b]) \in Nat
      BY <2>2, PlansAssumption DEF Plan
    <3> QED BY <1>7, <2>2, <3>1 DEF NextPhase, Branches
  <2> QED BY <1>2, <1>4, <1>7, <2>1, <2>3 DEF NextPhase, CountersOK
<1>8. CASE Finish
  BY <1>2, <1>5, <1>8 DEF Finish, CountersOK
<1>9. CASE Crash
  BY <1>2, <1>3, <1>5, <1>9 DEF Crash, CountersOK
<1>10. CASE Restart \/ RestartUnread
  <2>1. StartAgain
    BY <1>10 DEF Restart, RestartUnread
  <2>2. Beginning'
    BY <1>2, <2>1 DEF StartAgain, Beginning, SumInv, CursorInv, Plan, FreshChain
  <2>3. \A b \in Branches' : at'[b] <= Len(Plan'.phases[phase'][b])
    <3>1. task' \in DOMAIN Plans /\ phase' = 1 /\ at' = [b \in DOMAIN Plan'.phases[1] |-> 0]
      BY <2>2 DEF Beginning
    <3>2. \A b \in DOMAIN Plan'.phases[1] : Len(Plan'.phases[1][b]) \in Nat
      BY <3>1, PlansAssumption DEF Plan
    <3> QED BY <3>1, <3>2 DEF Branches
  <2>4. runs' \in 1 .. MaxRuns
    BY <1>2, <1>3, <2>1 DEF StartAgain, CountersOK
  <2>5. faults' \in 0 .. MaxFaults
    BY <1>2, <1>3, <1>10 DEF Restart, RestartUnread, CountersOK
  <2> QED BY <1>2, <2>2, <2>3, <2>4, <2>5, NothingExecutedNext DEF GroundInv, CountersOK
<1>11. CASE Refuse
  BY <1>2, <1>5, <1>11 DEF Refuse, CountersOK
<1>12. CASE UNCHANGED vars
  BY <1>2, <1>5, <1>12 DEF vars, CountersOK
<1> QED BY <1>6, <1>7, <1>8, <1>9, <1>10, <1>11, <1>12 DEF Next

\* No slot holds the address of a contract that was not deployed in this run,
\* no name is published of one, no function of one is mapped and no role is
\* granted to one, at any point of a deployment.
THEOREM NothingDangles ==
  ASSUME AllResourcesFit
  PROVE  Spec => []TypeOK
<1>1. Init => GroundInv /\ BooksInv
  BY GroundInit DEF Init, BooksInv
<1>2. GroundInv /\ BooksInv /\ [Next]_vars => (GroundInv /\ BooksInv)'
  BY GroundNext, BooksNext
<1>3. GroundInv /\ BooksInv => TypeOK
  BY GroundTypes
<1> QED BY <1>1, <1>2, <1>3, PTL DEF Spec
=============================================================================

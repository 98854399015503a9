---------------------------- MODULE DeploySteps ----------------------------
(***************************************************************************)
(* The vocabulary of the deployment plans: one record per transaction of a *)
(* task (DeploymentTask and ConfigTask of hardhat/tasks/deploy/            *)
(* batch-helpers.ts).  A contract is its name, a constructor or setter     *)
(* argument that holds an address is a slot, and a function that the       *)
(* access manager guards is its name; a group of selectors that a task     *)
(* maps together and no call tells apart is one function.                  *)
(***************************************************************************)
EXTENDS Sequences, TLC

\* A call of one contract on another through a slot: on a function that is
\* open to everyone, on one that is `restricted`, or on one that only the
\* contract in a slot of the callee may call (onlyEndpoint, onlyTokenRegistry).
Call(caller, slot, function, back) ==
  [from |-> caller, at |-> caller, slot |-> slot, function |-> function, back |-> back]
Open(caller, slot) == Call(caller, slot, "open", "nobody")
Guarded(caller, slot, function) == Call(caller, slot, function, "nobody")
Back(caller, slot, back) == Call(caller, slot, "open", back)
\* A guarded call through a slot that another contract keeps for the caller.
Through(caller, holder, slot, function) == [Guarded(caller, slot, function) EXCEPT !.at = holder]

\* Contracts: plain, behind a proxy, and registering themselves with the
\* access manager in the constructor (mappings: role -> functions).
New(c, slots) == [op |-> "deploy", c |-> c, slots |-> slots, registers |-> FALSE]
Registering(c, slots, owner, mappings) ==
  [op |-> "deploy", c |-> c, slots |-> slots, registers |-> TRUE,
   owner |-> owner, mappings |-> mappings]
\* A batch of proxies is recorded in the manifest when all of it is mined.
Proxies(specs) == [i \in DOMAIN specs |-> New(specs[i][1], specs[i][2])]
                  \o <<[op |-> "record"]>>
Proxy(c, slots) == Proxies(<< <<c, slots>> >>)

\* Configurations by the deployer: slots to set, and the calls they lead to.
Config(c, slots, calls) == [op |-> "config", c |-> c, slots |-> slots, calls |-> calls]
Set(c, slots) == Config(c, slots, {})
Run(c, calls) == Config(c, << >>, calls)
Check(call) == Config(call.from, << >>, {call})

\* Operations on the access manager.
Role(r) == [op |-> "role", role |-> r]
Map(c, functions, roles) == [op |-> "map", c |-> c, functions |-> functions, roles |-> roles]
Grant(r, c) == [op |-> "grant", role |-> r, c |-> c]
AdminOf(r, adm) == [op |-> "admin", role |-> r, admin |-> adm]
Scoped(r, c, on) == [op |-> "scoped", role |-> r, c |-> c, on |-> on]

\* Endpoint.registerResourceId, and DeploymentProxyRegistry.registerContracts.
Resource(id, c) == [op |-> "resource", id |-> id, c |-> c]
Names(cs) == [op |-> "names", cs |-> cs]
\* registerPrivateHubAddress with what the hub's registry, which knows the
\* names in `published`, answers.
HubAddress(name, published) == [op |-> "hub", name |-> name, published |-> published]

RegisterRoles(rs) == [i \in DOMAIN rs |-> Role(rs[i])]
Grants(r, cs) == [i \in DOMAIN cs |-> Grant(r, cs[i])]
When(condition, steps) == IF condition THEN steps ELSE << >>
deployer == "deployer"

\* Every task begins with the libraries of the access manager, one of which
\* links another, and the manager.
AccessManagerSteps ==
  <<New("AccessManagerAuthLib", << >>), New("AccessManagerEnumerationLib", << >>),
    New("AccessManagerContractScopedLib", << >>), New("AccessManagerRoleConfigLib", << >>),
    New("AccessManagerScheduleLib", [lib |-> "AccessManagerAuthLib"])>>
  \o Proxy("RaylsAccessManager",
           [auth |-> "AccessManagerAuthLib", enumeration |-> "AccessManagerEnumerationLib",
            scoped |-> "AccessManagerContractScopedLib", config |-> "AccessManagerRoleConfigLib",
            schedule |-> "AccessManagerScheduleLib"])
=============================================================================

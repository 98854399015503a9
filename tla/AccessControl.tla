--------------------------- MODULE AccessControl ---------------------------
(***************************************************************************)
(* The access manager of one chain (RaylsAccessManagerV1 and its libraries)*)
(* as a record and the operations of an administrator on it.  Grants have  *)
(* no delay: the tasks pass 0.  The members of a role keep the order in    *)
(* which EnumerableSet would return them out of the model.                 *)
(***************************************************************************)
\* The function v where it is defined, and w elsewhere.
Over(v, w) == [x \in DOMAIN v \cup DOMAIN w |-> IF x \in DOMAIN v THEN v[x] ELSE w[x]]

ADMIN == "ADMIN"
TOKEN_OWNER == "TOKEN_OWNER"

\* initialize(initialOwner): two roles, one administrator, no mapping.
NewManager(owner) ==
  [roles   |-> {ADMIN, TOKEN_OWNER},
   members |-> [r \in {ADMIN, TOKEN_OWNER} |-> IF r = ADMIN THEN {owner} ELSE {}],
   allowed |-> {},                 \* <<contract, function, role>>
   scoped  |-> {},                 \* <<role, account, contract>>
   admin   |-> [r \in {ADMIN, TOKEN_OWNER} |-> ADMIN]]

RegisterRole(am, role) ==
  [am EXCEPT !.roles = @ \cup {role}, !.members = Over([r \in {role} |-> {}], @),
             !.admin = Over([r \in {role} |-> ADMIN], @)]

AddFunctionAllowedRoles(am, contract, functions, roles) ==
  [am EXCEPT !.allowed = @ \cup ({contract} \X functions \X roles)]

GrantRole(am, role, account) == [am EXCEPT !.members[role] = @ \cup {account}]
SetRoleAdmin(am, role, adm) == [am EXCEPT !.admin[role] = adm]

GrantContractScopedRole(am, role, account, contract) ==
  [am EXCEPT !.scoped = @ \cup {<<role, account, contract>>}]

\* A contract maps its own functions when it is constructed, and its owner
\* gets TOKEN_OWNER on it.  mappings: role -> functions.
SelfRegister(am, contract, owner, mappings) ==
  LET pairs == UNION {mappings[r] \X {r} : r \in DOMAIN mappings}
  IN [am EXCEPT !.allowed = @ \cup {<<contract, p[1], p[2]>> : p \in pairs},
                !.scoped = @ \cup {<<TOKEN_OWNER, owner, contract>>}]

\* The administrator of a role, or an ADMIN, may grant and revoke it.
CanGrant(am, account, role) ==
  /\ role \in am.roles
  /\ account \in am.members[ADMIN] \cup am.members[am.admin[role]]

\* canCall: an ADMIN always; a function that is not mapped nobody else; a
\* member of a mapped role, globally or for this contract.
CanCall(am, caller, contract, function) ==
  \/ caller \in am.members[ADMIN]
  \/ \E role \in am.roles :
       /\ <<contract, function, role>> \in am.allowed
       /\ \/ caller \in am.members[role]
          \/ <<role, caller, contract>> \in am.scoped
=============================================================================

------------------------------ MODULE TokenFreeze ------------------------------
(***************************************************************************)
(* The hub layer of a token's life.  A privacy node (PN) submits its token *)
(* to the hub; the hub's TokenCore registers and approves it and tells the *)
(* issuer to activate it; teleports create mirrors of it on other PNs.     *)
(* The hub's TokenFreezeManager freezes tokens per participant and tells   *)
(* every PN, whose PNTokenFreezeManager keeps a copy of the hub's list and *)
(* moves the local token in and out of FROZEN in PNTokenCore.              *)
(*                                                                         *)
(* Messages travel over the bus of MessageBus: each PN runs each message   *)
(* once, in any order, for the hub sends them with ignoresNonce set.  A    *)
(* call that reverts is no step.  The PN layer of a token                  *)
(* (privacyNodeStatus) is AUTHORIZED throughout.                           *)
(***************************************************************************)
EXTENDS Integers, Sequences, FiniteSets, SequencesExt

CONSTANTS
  PN,             \* the privacy nodes
  Token,          \* the tokens, by resource id
  Issuer,         \* [Token -> PN]
  ChainLists,     \* the chainIds arguments the operator of the hub passes
  MaxChanges,     \* bound: freezes, status changes, rejections, snapshots
  MaxTeleports    \* bound: teleports sent

ASSUME TokenFreezeAssumption ==
  /\ Issuer \in [Token -> PN]
  /\ ChainLists \subseteq Seq(PN) \ {<< >>}
  /\ {MaxChanges, MaxTeleports} \subseteq Nat

Pair == Token \X PN      \* <<t, c>>: token t is frozen for participant c

VARIABLES
  hubToken,      \* status of each token in the hub's TokenCore, or "none"
  frozenTokens,  \* frozenTokens[t][c]: how often the hub's list of t holds c
  sent,          \* number of freeze messages the hub has sent
  pending,       \* pending[p]: freeze messages p has not run yet
  submissions,   \* tokens with an addToken message on the way to the hub
  activations,   \* activations[t]: activateToken messages on the way
  frozen,        \* frozen[p]: the pairs in p's copy of the hub's list
  bound,         \* bound[p]: tokens p knows by resource id
  hubStatus,     \* hubStatus[p][t]: HubStatus of t in p's TokenCore
  before,        \* before[p][t]: hubStatusBeforeFreeze
  teleports,     \* <<t, p>>: a teleport of t is on its way to p
  teleported,    \* number of teleports sent so far (bounded)
  changes,       \* number of changes so far (bounded)
  standing,      \* history: the last lifecycle decision, freezes aside
  synced,        \* history: PNs that missed nothing since their last snapshot
  newest,        \* history: newest[p][x], the newest message about the pair x
                 \* that p has run
  overtaken      \* history: overtaken[p], the pairs about which the last
                 \* message p ran is older than one it ran before

vars == <<hubToken, frozenTokens, sent, pending, submissions, activations,
          frozen, bound, hubStatus, before, teleports, teleported, changes,
          standing, synced, newest, overtaken>>

\* The history that only a freeze message that runs changes.
heard == <<newest, overtaken>>

HubStatus   == {"UNDEFINED", "WAITING_APPROVAL", "AUTHORIZED", "UNAUTHORIZED",
                "FROZEN"}
TokenStatus == {"NEW", "ACTIVE", "INACTIVE"}
Message     == [n : Nat, kind : {"update", "remove", "sync"}, list : SUBSET Pair]

Init ==
  /\ hubToken = [t \in Token |-> "none"]
  /\ frozenTokens = [t \in Token |-> [c \in PN |-> 0]]
  /\ sent = 0
  /\ pending = [p \in PN |-> {}]
  /\ submissions = {}
  /\ activations = [t \in Token |-> 0]
  /\ frozen = [p \in PN |-> {}]
  /\ bound = [p \in PN |-> {}]
  /\ hubStatus = [p \in PN |-> [t \in Token |-> "UNDEFINED"]]
  /\ before = [p \in PN |-> [t \in Token |-> "UNDEFINED"]]
  /\ teleports = {}
  /\ teleported = 0
  /\ changes = 0
  /\ standing = [p \in PN |-> [t \in Token |-> "UNDEFINED"]]
  /\ synced = PN
  /\ newest = [p \in PN |-> [x \in Pair |-> 0]]
  /\ overtaken = [p \in PN |-> {}]

Change == changes < MaxChanges /\ changes' = changes + 1

\* _setHubStatus of t on p as a decision about the token's life.
Decide(p, t, s) ==
  /\ hubStatus' = [hubStatus EXCEPT ![p][t] = s]
  /\ standing' = [standing EXCEPT ![p][t] = s]

-------------------------------------------------------------------------------
(* Registration                                                            *)

\* The issuer submits its token, for the first time or after a rejection.
SubmitToHub(t) ==
  /\ hubStatus[Issuer[t]][t] \in {"UNDEFINED", "UNAUTHORIZED"}
  /\ Decide(Issuer[t], t, "WAITING_APPROVAL")
  /\ submissions' = submissions \union {t}
  /\ UNCHANGED <<hubToken, frozenTokens, sent, pending, activations, frozen,
                 bound, before, teleports, teleported, changes, synced, heard>>

\* addToken on the hub; a name that is registered already makes it revert.
AddToken(t) ==
  /\ t \in submissions
  /\ hubToken[t] = "none"
  /\ hubToken' = [hubToken EXCEPT ![t] = "NEW"]
  /\ submissions' = submissions \ {t}
  /\ UNCHANGED <<frozenTokens, sent, pending, activations, frozen, bound,
                 hubStatus, before, teleports, teleported, changes, standing,
                 synced, heard>>

\* The hub's operator sets a status; ACTIVE tells the issuer to activate.
UpdateStatus(t, s) ==
  /\ Change
  /\ hubToken[t] \notin {"none", s}
  /\ hubToken' = [hubToken EXCEPT ![t] = s]
  /\ activations' = IF s = "ACTIVE" THEN [activations EXCEPT ![t] = @ + 1]
                    ELSE activations
  /\ UNCHANGED <<frozenTokens, sent, pending, submissions, frozen, bound,
                 hubStatus, before, teleports, teleported, standing, synced,
                 heard>>

\* activateToken on the issuer: only a waiting token, whose deferred freeze,
\* if the list holds one for this PN, is applied at once.
ActivateNoReplay(t) ==                                               \* mutation
  /\ activations[t] > 0 /\ hubStatus[Issuer[t]][t] = "WAITING_APPROVAL"
  /\ activations' = [activations EXCEPT ![t] = @ - 1]
  /\ bound' = [bound EXCEPT ![Issuer[t]] = @ \union {t}]
  /\ Decide(Issuer[t], t, "AUTHORIZED")
  /\ UNCHANGED <<hubToken, frozenTokens, sent, pending, submissions, frozen,
                 before, teleports, teleported, changes, synced, heard>>
ActivateToken(t) ==
  LET p == Issuer[t]
      deferred == <<t, p>> \in frozen[p]
  IN /\ activations[t] > 0
     /\ hubStatus[p][t] = "WAITING_APPROVAL"
     /\ activations' = [activations EXCEPT ![t] = @ - 1]
     /\ bound' = [bound EXCEPT ![p] = @ \union {t}]
     /\ standing' = [standing EXCEPT ![p][t] = "AUTHORIZED"]
     /\ hubStatus' = [hubStatus EXCEPT ![p][t] =
                        IF deferred THEN "FROZEN" ELSE "AUTHORIZED"]
     /\ before' = [before EXCEPT ![p][t] =
                     IF deferred THEN "AUTHORIZED" ELSE @]
     /\ UNCHANGED <<hubToken, frozenTokens, sent, pending, submissions, frozen,
                    teleports, teleported, changes, synced, heard>>

\* rejectToken by the PN's administration, frozen or not.
RejectToken(p, t) ==
  /\ Change
  /\ p = Issuer[t] \/ t \in bound[p]
  /\ hubStatus[p][t] # "UNAUTHORIZED"
  /\ Decide(p, t, "UNAUTHORIZED")
  /\ UNCHANGED <<hubToken, frozenTokens, sent, pending, submissions,
                 activations, frozen, bound, before, teleports, teleported,
                 synced, heard>>

-------------------------------------------------------------------------------
(* The hub's freeze list                                                   *)

Times(c, list) == Cardinality({i \in DOMAIN list : list[i] = c})
HubFrozen == {x \in Pair : frozenTokens[x[1]][x[2]] > 0}
Listed(t) == \E c \in PN : frozenTokens[t][c] > 0

\* A message to every PN, and one to p alone.
Broadcast(kind, list) ==
  /\ sent' = sent + 1
  /\ pending' = [p \in PN |-> pending[p] \union
                                {[n |-> sent + 1, kind |-> kind, list |-> list]}]

\* A new entry takes the ids as they come, an old one skips those it has.
FreezeToken(t, list) ==
  /\ Change
  /\ hubToken[t] # "none"
  /\ frozenTokens' = [frozenTokens EXCEPT ![t] = [c \in PN |->
       IF ~ Listed(t) THEN Times(c, list)
       ELSE IF frozenTokens[t][c] = 0 /\ Times(c, list) > 0 THEN 1
       ELSE frozenTokens[t][c]]]
  /\ Broadcast("update", {t} \X {c \in PN : frozenTokens'[t][c] > 0})
  /\ UNCHANGED <<hubToken, submissions, activations, frozen, bound, hubStatus,
                 before, teleports, teleported, standing, synced, heard>>

\* How often c is left when each id of the list removes its first occurrence.
Left(t, c, list) ==
  IF frozenTokens[t][c] > Times(c, list)
  THEN frozenTokens[t][c] - Times(c, list) ELSE 0

\* What an unfreeze tells the PNs: the ids it was asked to remove.
ToldRemaining(t, list) == {t} \X {c \in PN : Left(t, c, list) > 0}    \* mutation
Told(t, list) == {t} \X {c \in PN : Times(c, list) > 0}

UnfreezeToken(t, list) ==
  /\ Change
  /\ Listed(t)
  /\ frozenTokens' = [frozenTokens EXCEPT ![t] =
                        [c \in PN |-> Left(t, c, list)]]
  /\ Broadcast("remove", Told(t, list))
  /\ UNCHANGED <<hubToken, submissions, activations, frozen, bound, hubStatus,
                 before, teleports, teleported, standing, synced, heard>>

\* A PN asked for the list: broadcastCurrentFrozenResourcesForNewParticipant.
SendSnapshot(p) ==
  /\ Change
  /\ sent' = sent + 1
  /\ pending' = [pending EXCEPT ![p] = @ \union
                   {[n |-> sent + 1, kind |-> "sync", list |-> HubFrozen]}]
  /\ synced' = synced \union {p}
  /\ UNCHANGED <<hubToken, frozenTokens, submissions, activations, frozen,
                 bound, hubStatus, before, teleports, teleported, standing,
                 heard>>

\* The relayer of p misses what was sent so far: it starts late, or from a
\* later block.
SkipMessages(p) ==
  /\ Change
  /\ pending' = [pending EXCEPT ![p] = {}]
  /\ synced' = synced \ {p}
  /\ UNCHANGED <<hubToken, frozenTokens, sent, submissions, activations,
                 frozen, bound, hubStatus, before, teleports, teleported,
                 standing, heard>>


-------------------------------------------------------------------------------
(* A PN's copy of it                                                       *)

\* updateFrozenToken adds, removeFrozenToken takes out, and syncFrozenTokens
\* replaces the copy.
AppliedMerging(m, copy) ==                                           \* mutation
  IF m.kind = "remove" THEN copy \ m.list ELSE copy \union m.list
Applied(m, copy) ==
  CASE m.kind = "update" -> copy \union m.list
    [] m.kind = "remove" -> copy \ m.list
    [] m.kind = "sync"   -> m.list

\* The tokens whose hub layer the message brings up to date.
Touched(m, copy) ==
  {x[1] : x \in m.list \union (IF m.kind = "sync" THEN copy ELSE {})}

\* Which of the tokens T of p the copy freezes or thaws.
Freezing(p, T, copy) == {t \in T : <<t, p>> \in copy /\ hubStatus[p][t] # "FROZEN"}
Thawing(p, T, copy)  == {t \in T : <<t, p>> \notin copy /\ hubStatus[p][t] = "FROZEN"}

\* _syncHubLayerStatus for the tokens T, those p knows, against the new copy.
SyncKeepingFirst(p, T, copy) ==                                      \* mutation
  /\ hubStatus' = [hubStatus EXCEPT ![p] = [t \in Token |->
       IF t \in Freezing(p, T, copy) THEN "FROZEN"
       ELSE IF t \in Thawing(p, T, copy) THEN before[p][t] ELSE hubStatus[p][t]]]
  /\ before' = [before EXCEPT ![p] = [t \in Token |->
       IF t \in Freezing(p, T, copy) /\ before[p][t] = "UNDEFINED"
       THEN hubStatus[p][t] ELSE before[p][t]]]
SyncHubLayerStatus(p, T, copy) ==
  /\ hubStatus' = [hubStatus EXCEPT ![p] = [t \in Token |->
       IF t \in Freezing(p, T, copy) THEN "FROZEN"
       ELSE IF t \in Thawing(p, T, copy) THEN before[p][t] ELSE hubStatus[p][t]]]
  /\ before' = [before EXCEPT ![p] = [t \in Token |->
       IF t \in Freezing(p, T, copy) THEN hubStatus[p][t]
       ELSE IF t \in Thawing(p, T, copy) THEN "UNDEFINED" ELSE before[p][t]]]

\* Message m decides whether the pair x is in the copy, and how.
Mentions(m, x) == m.kind = "sync" \/ x \in m.list
Says(m, x)     == m.kind # "remove" /\ x \in m.list

\* What p has run about each pair after the message m.
Hear(p, m) ==
  LET about == {x \in Pair : Mentions(m, x)}
      late  == {x \in about : newest[p][x] > m.n}
  IN /\ newest' = [newest EXCEPT ![p] = [x \in Pair |->
                     IF x \in about \ late THEN m.n ELSE newest[p][x]]]
     /\ overtaken' = [overtaken EXCEPT ![p] = (@ \ about) \union late]

RunFreezeMessage(p, m) ==
  /\ m \in pending[p]
  /\ pending' = [pending EXCEPT ![p] = @ \ {m}]
  /\ frozen' = [frozen EXCEPT ![p] = Applied(m, frozen[p])]
  /\ SyncHubLayerStatus(p, Touched(m, frozen[p]) \intersect bound[p],
                        Applied(m, frozen[p]))
  /\ Hear(p, m)
  /\ UNCHANGED <<hubToken, frozenTokens, sent, submissions, activations, bound,
                 teleports, teleported, changes, standing, synced>>

-------------------------------------------------------------------------------
(* Teleports                                                               *)

isTokenActiveForHub(p, t) == hubStatus[p][t] = "AUTHORIZED"

\* The token must be active at p, and p's copy must freeze neither end.
SendTeleport(p, q, t) ==
  /\ teleported < MaxTeleports
  /\ p # q
  /\ t \in bound[p]
  /\ isTokenActiveForHub(p, t)
  /\ {<<t, p>>, <<t, q>>} \intersect frozen[p] = {}
  /\ teleports' = teleports \union {<<t, q>>}
  /\ teleported' = teleported + 1
  /\ UNCHANGED <<hubToken, frozenTokens, sent, pending, submissions,
                 activations, frozen, bound, hubStatus, before, changes,
                 standing, synced, heard>>

\* registerHubToken records the mirror a first teleport deploys as AUTHORIZED;
\* a token that p knows must be active, or the handler reverts.
ReceiveTeleport(p, t) ==
  /\ <<t, p>> \in teleports
  /\ \/ /\ t \notin bound[p]
        /\ bound' = [bound EXCEPT ![p] = @ \union {t}]
        /\ Decide(p, t, "AUTHORIZED")
     \/ /\ t \in bound[p]
        /\ isTokenActiveForHub(p, t)
        /\ UNCHANGED <<bound, hubStatus, standing>>
  /\ teleports' = teleports \ {<<t, p>>}
  /\ UNCHANGED <<hubToken, frozenTokens, sent, pending, submissions,
                 activations, frozen, before, teleported, changes, synced,
                 heard>>

Next ==
  \/ \E t \in Token : SubmitToHub(t) \/ AddToken(t) \/ ActivateToken(t)
  \/ \E t \in Token, s \in TokenStatus : UpdateStatus(t, s)
  \/ \E t \in Token, list \in ChainLists :
       FreezeToken(t, list) \/ UnfreezeToken(t, list)
  \/ \E p \in PN, t \in Token : RejectToken(p, t) \/ ReceiveTeleport(p, t)
  \/ \E p \in PN : SendSnapshot(p) \/ SkipMessages(p)
  \/ \E p \in PN : \E m \in pending[p] : RunFreezeMessage(p, m)
  \/ \E p, q \in PN, t \in Token : SendTeleport(p, q, t)

Spec == Init /\ [][Next]_vars

\* The relayer ends up delivering every message that can run.
FairSpec ==
  Spec /\ \A p \in PN : WF_vars(\E m \in pending[p] : RunFreezeMessage(p, m))

-------------------------------------------------------------------------------
(* Properties                                                              *)

\* The variables keep their types.
TypeOK ==
  /\ hubToken \in [Token -> TokenStatus \union {"none"}]
  /\ frozenTokens \in [Token -> [PN -> Nat]]
  /\ sent \in Nat
  /\ pending \in [PN -> SUBSET Message]
  /\ submissions \subseteq Token
  /\ activations \in [Token -> Nat]
  /\ frozen \in [PN -> SUBSET Pair]
  /\ bound \in [PN -> SUBSET Token]
  /\ hubStatus \in [PN -> [Token -> HubStatus]]
  /\ before \in [PN -> [Token -> HubStatus]]
  /\ teleports \subseteq Pair
  /\ teleported \in Nat
  /\ changes \in Nat
  /\ standing \in [PN -> [Token -> HubStatus \ {"FROZEN"}]]
  /\ synced \subseteq PN
  /\ newest \in [PN -> [Pair -> Nat]]
  /\ overtaken \in [PN -> SUBSET Pair]

\* When the operator names no chain twice, a PN that missed nothing since its
\* last snapshot has the hub's word on every pair, on its way or in its copy:
\* the newest message about the pair says what the hub's list says, and so
\* does the copy once that message has run, unless an older message about the
\* same pair ran after it.  Overtaking harms no other pair, and only until a
\* newer message or snapshot runs.
CopyFollowsHub ==
  \A p \in synced, x \in Pair :
    \/ \E m \in pending[p] :
         /\ Mentions(m, x)
         /\ m.n > newest[p][x]
         /\ \A k \in pending[p] : Mentions(k, x) => k.n <= m.n
         /\ Says(m, x) <=> x \in HubFrozen
    \/ /\ \A m \in pending[p] : Mentions(m, x) => m.n < newest[p][x]
       /\ x \in overtaken[p] \/ (x \in frozen[p] <=> x \in HubFrozen)

\* A token the issuer activated does not work on the hub layer while the
\* issuer's copy freezes it for the issuer, whichever came first.
IssuerFrozenInactive ==
  \A t \in Token :
    LET p == Issuer[t]
    IN (t \in bound[p] /\ <<t, p>> \in frozen[p]) => ~ isTokenActiveForHub(p, t)

\* Freezing hides the lifecycle decision and thawing brings back that decision,
\* the one made during the freeze if there was one, never an older one.
FreezeKeepsStanding ==
  \A p \in PN, t \in Token :
    standing[p][t] = IF hubStatus[p][t] = "FROZEN" THEN before[p][t]
                     ELSE hubStatus[p][t]

\* "Removes the specified chain IDs from the frozen participants list".
UnfreezeRemoves ==
  [][\A t \in Token, list \in ChainLists :
       UnfreezeToken(t, list) =>
         \A c \in PN : Times(c, list) > 0 => frozenTokens'[t][c] = 0]_vars

\* "the local chain enters FROZEN whenever it is part of the frozen participant
\* set" (PNTokenFreezeManagerV1), mirrors included.
FrozenInactive ==
  \A p \in PN : \A t \in bound[p] :
    <<t, p>> \in frozen[p] => ~ isTokenActiveForHub(p, t)

\* "This ensures all participants are synchronized" (TokenFreezeManagerV1), as
\* far as it holds: once the hub's operator stops, every PN that missed nothing
\* since its last snapshot ends up with the hub's list, unless the last message
\* it ran about some pair is an overtaken one.
EventuallySynchronized ==
  \A p \in PN :
    <>[](p \in synced /\ overtaken[p] = {} => frozen[p] = HubFrozen)
===============================================================================

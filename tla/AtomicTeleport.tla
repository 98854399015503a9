--------------------------- MODULE AtomicTeleport ---------------------------
(***************************************************************************)
(* Atomic teleport of a fungible token between two privacy nodes (PNs).    *)
(*                                                                         *)
(* Three programs take part: the token handler on every PN                 *)
(* (RaylsErc20Handler), the status board on the private network hub        *)
(* (TeleportV1) and the relayers that carry calls between the chains.      *)
(* The relayers are outside the repository: they are modelled from the     *)
(* interface the contracts give them and from the comments in TeleportV1   *)
(* that state how they behave (at-least-once calls, a revert poller with a *)
(* timeout, one reaction to each of the two errors).  A relayer keeps no   *)
(* state here: a call it repeats after a crash is a step that the chain    *)
(* rejects or ignores, so crashes and retries are stuttering steps.        *)
(***************************************************************************)
EXTENDS Naturals, FiniteSets, Totals

CONSTANTS Chain, Account, Token, Id, Amount, InitBalance, NoTransfer,
          Recipients,   \* who a transfer may name as its recipient
          StoreRetry,   \* may a relayer repeat a store of a finished message?
          MaxRows       \* bound on the status rows of one kind for one id

\* Chain ids, addresses and message ids are words of a fixed width.
ASSUME FiniteAssumption ==
  IsFiniteSet(Chain) /\ IsFiniteSet(Account) /\ IsFiniteSet(Id)
ASSUME AmountAssumption == Amount \subseteq Nat \ {0}
ASSUME InitBalanceAssumption == InitBalance \in Nat
ASSUME TokenAssumption == Token \notin Account
ASSUME RecipientsAssumption == Recipients \subseteq Account \cup {Token}
ASSUME StoreRetryAssumption == StoreRetry \in BOOLEAN
ASSUME MaxRowsAssumption == MaxRows \in Nat \ {0}

VARIABLES bal,       \* ERC20 balances, per PN
          locked,    \* lockedAmount, per PN
          frozen,    \* the PNs the hub has frozen this token for
          sent,      \* the message each id names, dispatched by the source PN
          stored,    \* ids announced by AtomicMessageTeleportStartedBatch
          status,    \* atomicTeleportMessages[id].status on the hub
          rows,      \* AtomicMessageStatusChangedBatch events naming an id
          executed   \* the PN executors' executed message ids

vars == <<bal, locked, frozen, sent, stored, status, rows, executed>>

Holder == Account \cup {Token}

Transfer == [src : Chain, dst : Chain, from : Account, to : Holder, value : Amount]

ASSUME NoTransferAssumption == NoTransfer \notin Transfer

\* Utils.MessageStatus; Rejected is never assigned by any contract.
Status == {"Pending", "Executed", "Reverted"}
Terminal == {"Executed", "Reverted"}

\* The four payloads a message carries, each run under a message id of its own.
Leg == {"receive", "unlock", "mint", "burn"}

Done(leg, id) == <<leg, id>> \in executed

TypeOK ==
  /\ bal \in [Chain -> [Holder -> Nat]]
  /\ locked \in [Chain -> [Holder -> Nat]]
  /\ frozen \subseteq Chain
  /\ sent \in [Id -> Transfer \cup {NoTransfer}]
  /\ stored \subseteq Id
  /\ status \in [Id -> Status]
  /\ rows \in [Id -> [Terminal -> Nat]]
  /\ executed \subseteq Leg \X Id

Init ==
  /\ bal = [c \in Chain |-> [h \in Holder |-> IF h = Token THEN 0 ELSE InitBalance]]
  /\ locked = [c \in Chain |-> [h \in Holder |-> 0]]
  /\ frozen = {}
  /\ sent = [id \in Id |-> NoTransfer]
  /\ stored = {}
  /\ status = [id \in Id |-> "Pending"]     \* the zero value of the mapping
  /\ rows = [id \in Id |-> [s \in Terminal |-> 0]]
  /\ executed = {}

Sent(id) == sent[id] # NoTransfer
Row(id, s) == rows[id][s] > 0
Finished(id) == \E s \in Terminal : Row(id, s)

-----------------------------------------------------------------------------
(* The token handler on the source PN.                                     *)

\* A user calls teleportAtomic (or an approved spender teleportAtomicFrom):
\* the value is burnt and the message with its four payloads is dispatched.
\* Both ends must be free of a freeze: whenHubActive at the source, and
\* validateTokenForParticipant for both participants in prepareMessage.
TeleportAtomic(id, t) ==
  /\ ~Sent(id)                           \* the id holds a fresh nonce
  /\ t.to \in Recipients
  /\ t.src # t.dst
  /\ {t.src, t.dst} \cap frozen = {}
  /\ bal[t.src][t.from] >= t.value
  /\ bal' = [bal EXCEPT ![t.src][t.from] = @ - t.value]
  /\ sent' = [sent EXCEPT ![id] = t]
  /\ UNCHANGED <<locked, frozen, stored, status, rows, executed>>

-----------------------------------------------------------------------------
(* The status board on the hub.  A batch is the set of its message ids: a  *)
(* second occurrence of an id meets the status the first one left and is   *)
(* skipped by every one of the three calls.                                *)

\* storeEncryptedDataBatch -> storeAtomicMessageBatch: every status in the
\* batch becomes Pending, whatever it was.
StoreBatch(batch) ==
  /\ batch # {}
  /\ \A id \in batch : Sent(id) /\ (StoreRetry \/ ~Finished(id))
  /\ stored' = stored \cup batch
  /\ status' = [id \in Id |-> IF id \in batch THEN "Pending" ELSE status[id]]
  /\ UNCHANGED <<bal, locked, frozen, sent, rows, executed>>

\* Mutation: a terminal status does not stop the other verdict.
FinishUnguarded(batch, final) ==
  /\ \A id \in batch : rows[id][final] < MaxRows
  /\ status' = [id \in Id |-> IF id \in batch THEN final ELSE status[id]]
  /\ rows' = [id \in Id |->
                IF id \in batch /\ status[id] # final
                THEN [rows[id] EXCEPT ![final] = @ + 1] ELSE rows[id]]
  /\ UNCHANGED <<bal, locked, frozen, sent, stored, executed>>

\* The common shape of executeAtomicMessageBatch and revertAtomicMessageBatch:
\* ids already in `final` are skipped, one id in the other terminal status
\* reverts the whole call, and only ids that were Pending are announced.
Finish(batch, final) ==
  /\ \A id \in batch : status[id] \in {"Pending", final}
  /\ \A id \in batch : rows[id][final] < MaxRows
  /\ status' = [id \in Id |-> IF id \in batch THEN final ELSE status[id]]
  /\ rows' = [id \in Id |->
                IF id \in batch /\ status[id] = "Pending"
                THEN [rows[id] EXCEPT ![final] = @ + 1] ELSE rows[id]]
  /\ UNCHANGED <<bal, locked, frozen, sent, stored, executed>>

\* The destination relayer reports messages its PN has received.
ExecuteAtomicMessageBatch(batch) ==
  /\ batch # {}
  /\ \A id \in batch : Done("receive", id)
  /\ Finish(batch, "Executed")

\* The source relayer's poller gives up on messages it has stored: their
\* expiry is kept off-chain, so it may come at any time.
RevertAtomicMessageBatch(batch) ==
  /\ batch # {}
  /\ batch \subseteq stored
  /\ Finish(batch, "Reverted")

-----------------------------------------------------------------------------
(* The four legs on the PNs.  RaylsMessageExecutor runs a message id once: *)
(* it records the id before the call and the whole transaction fails if    *)
(* the id was recorded or the call reverts, so a failed leg stays runnable.*)


\* Mutation: a message id may run again.
RunLegAgain(leg, id, c) ==
  /\ c \notin frozen
  /\ executed' = executed \cup {<<leg, id>>}
  /\ UNCHANGED <<frozen, sent, stored, status, rows>>

RunLeg(leg, id, c) ==
  /\ ~Done(leg, id)
  /\ c \notin frozen                     \* whenHubActive
  /\ executed' = executed \cup {<<leg, id>>}
  /\ UNCHANGED <<frozen, sent, stored, status, rows>>

\* Mutation: the receive mints but forgets the lock.
ReceiveTeleportAtomicUnlocked(id) ==
  /\ id \in stored
  /\ LET t == sent[id]
     IN /\ RunLeg("receive", id, t.dst)
        /\ bal' = [bal EXCEPT ![t.dst][Token] = @ + t.value]
        /\ UNCHANGED locked

\* receiveTeleportAtomic: mint to the token contract, lock for the recipient.
ReceiveTeleportAtomic(id) ==
  /\ id \in stored
  /\ LET t == sent[id]
     IN /\ RunLeg("receive", id, t.dst)
        /\ bal' = [bal EXCEPT ![t.dst][Token] = @ + t.value]
        /\ locked' = IF t.to = Token THEN locked
                     ELSE [locked EXCEPT ![t.dst][t.to] = @ + t.value]

\* Mutation: an unlock of the whole locked amount is refused (> for >=).
UnlockStrict(id) ==
  /\ Row(id, "Executed")
  /\ Done("receive", id)
  /\ LET t == sent[id]
     IN /\ RunLeg("unlock", id, t.dst)
        /\ locked[t.dst][t.to] > t.value
        /\ locked' = [locked EXCEPT ![t.dst][t.to] = @ - t.value]
        /\ bal' = [bal EXCEPT ![t.dst][Token] = @ - t.value,
                              ![t.dst][t.to] = @ + t.value]

\* unlock: release the lock and pay the recipient; nothing to do when the
\* recipient is the token contract.
Unlock(id) ==
  /\ Row(id, "Executed")
  /\ Done("receive", id)
  /\ LET t == sent[id]
     IN /\ RunLeg("unlock", id, t.dst)
        /\ \/ /\ t.to = Token
              /\ UNCHANGED <<bal, locked>>
           \/ /\ t.to # Token
              /\ locked[t.dst][t.to] >= t.value
              /\ bal[t.dst][Token] >= t.value
              /\ locked' = [locked EXCEPT ![t.dst][t.to] = @ - t.value]
              /\ bal' = [bal EXCEPT ![t.dst][Token] = @ - t.value,
                                    ![t.dst][t.to] = @ + t.value]

\* revertTeleportMint: the sender gets the burnt value back.
RevertTeleportMint(id) ==
  /\ Row(id, "Reverted")
  /\ LET t == sent[id]
     IN /\ RunLeg("mint", id, t.src)
        /\ bal' = [bal EXCEPT ![t.src][t.from] = @ + t.value]
        /\ UNCHANGED locked

\* revertTeleportBurn: the orphan mint of a message that lost to a revert is
\* unlocked and burnt.  _unlock is called whoever the recipient is.
RevertTeleportBurn(id) ==
  /\ Row(id, "Reverted")
  /\ Done("receive", id)
  /\ LET t == sent[id]
     IN /\ RunLeg("burn", id, t.dst)
        /\ locked[t.dst][t.to] >= t.value
        /\ bal[t.dst][Token] >= t.value
        /\ locked' = [locked EXCEPT ![t.dst][t.to] = @ - t.value]
        /\ bal' = [bal EXCEPT ![t.dst][Token] = @ - t.value]

\* The hub freezes or unfreezes the token for a participant; TokenFreeze
\* models how the PNs come to know.
Freeze(c) ==
  /\ c \notin frozen
  /\ frozen' = frozen \cup {c}
  /\ UNCHANGED <<bal, locked, sent, stored, status, rows, executed>>

Unfreeze(c) ==
  /\ c \in frozen
  /\ frozen' = frozen \ {c}
  /\ UNCHANGED <<bal, locked, sent, stored, status, rows, executed>>

-----------------------------------------------------------------------------
Next ==
  \/ \E id \in Id, t \in Transfer : TeleportAtomic(id, t)
  \/ \E batch \in SUBSET Id : \/ StoreBatch(batch)
                              \/ ExecuteAtomicMessageBatch(batch)
                              \/ RevertAtomicMessageBatch(batch)
  \/ \E id \in Id : \/ ReceiveTeleportAtomic(id)
                    \/ Unlock(id)
                    \/ RevertTeleportMint(id)
                    \/ RevertTeleportBurn(id)
  \/ \E c \in Chain : Freeze(c) \/ Unfreeze(c)

Spec == Init /\ [][Next]_vars

\* The relayers keep polling: each call they owe is eventually made.  A single
\* id is a batch of its own, so one bad id cannot starve the others for ever.
\* Nothing is assumed of users or of the hub operator's freezes.
Fairness ==
  \A id \in Id : /\ WF_vars(id \notin stored /\ StoreBatch({id}))
                 /\ WF_vars(ReceiveTeleportAtomic(id))
                 /\ WF_vars(ExecuteAtomicMessageBatch({id}))
                 /\ WF_vars(RevertAtomicMessageBatch({id}))
                 /\ WF_vars(Unlock(id))
                 /\ WF_vars(RevertTeleportMint(id))
                 /\ WF_vars(RevertTeleportBurn(id))

FairSpec == Spec /\ Fairness

-----------------------------------------------------------------------------
(* Properties.                                                             *)

Delivered(id) == Done("unlock", id)
Refunded(id) == Done("mint", id)
InFlight(id) == Sent(id) /\ ~Delivered(id) /\ ~Refunded(id)

\* What a message carries, and what a set of messages does.
Carried == [id \in Id |-> IF Sent(id) THEN sent[id].value ELSE 0]
ValueOf(ids) == Total(Carried, ids)

\* What users can spend, on all chains.
Wallets == Chain \X Account
Spendable == Total([w \in Wallets |-> bal[w[1]][w[2]]], Wallets)

Flying == {id \in Id : InFlight(id)}
PaidToToken == {id \in Id : Delivered(id) /\ sent[id].to = Token}

\* The messages whose value is locked for a on c.
Held(c, a) == {id \in Id : /\ Sent(id) /\ sent[id].dst = c /\ sent[id].to = a
                           /\ Done("receive", id)
                           /\ ~Done("unlock", id) /\ ~Done("burn", id)}

\* A message pays its recipient or pays its sender back, never both: whatever
\* the order of the relayers' calls, unlock on the destination PN and
\* revertTeleportMint on the source PN exclude each other.
NeverBothPaid == \A id \in Id : ~(Delivered(id) /\ Refunded(id))

\* No value is lost or created: what users can spend, what is still in flight
\* and what went to the token contract itself add up to what there was.
ValueConserved ==
  Spendable + ValueOf(Flying) + ValueOf(PaidToToken)
    = Cardinality(Chain) * Cardinality(Account) * InitBalance

\* lockedAmount[a] on a PN is exactly the value of the messages received for a
\* there that have been neither unlocked nor burnt, and the token contract holds
\* the tokens that back every lock.  So an unlock or a burn the relayer owes is
\* never refused for want of locked amount.
LocksAreBacked ==
  \A c \in Chain : /\ \A a \in Account : locked[c][a] = ValueOf(Held(c, a))
                   /\ bal[c][Token] >= Total(locked[c], Account)

\* The hub announces a terminal status once per message: the relayer keys its
\* atomic_status table by message id (TeleportV1 comment in
\* executeAtomicMessageBatch), a second row would be a duplicate or a conflict.
OneStatusRow == \A id \in Id : rows[id]["Executed"] + rows[id]["Reverted"] <= 1

\* "An executed message can NEVER be reverted (the core double-spend guard)",
\* TeleportV1.revertAtomicMessageBatch: once the hub has announced a message as
\* executed no later step announces it as reverted, nor the other way round.
ExecutedNeverReverted ==
  [][\A id \in Id : /\ Row(id, "Executed") => rows'[id]["Reverted"] = rows[id]["Reverted"]
                    /\ Row(id, "Reverted") => rows'[id]["Executed"] = rows[id]["Executed"]]_vars

\* The first half of it, the guard the comment states: what was announced as
\* executed is never announced as reverted.  A relayer that stores a finished
\* message again breaks it, because storeAtomicMessageBatch resets the status.
NoRevertAfterExecution ==
  [][\A id \in Id :
       Row(id, "Executed") => rows'[id]["Reverted"] = rows[id]["Reverted"]]_vars

\* The strengthening that makes NeverBothPaid inductive: the status is the row
\* the hub has emitted, and each leg runs only under its own verdict.
StatusFollowsRows ==
  \A id \in Id : /\ status[id] = "Pending" => ~Finished(id)
                 /\ \A s \in Terminal : status[id] = s => Row(id, s)
VerdictBeforeLeg ==
  \A id \in Id : /\ Delivered(id) => Row(id, "Executed")
                 /\ Refunded(id) => Row(id, "Reverted")
                 /\ Done("burn", id) => Row(id, "Reverted")
KnownIds ==
  \A id \in Id : /\ id \in stored => Sent(id)
                 /\ Finished(id) => id \in stored
                 /\ \A leg \in Leg : Done(leg, id) => id \in stored

\* The strengthening that makes LocksAreBacked inductive: an unlock or a burn
\* follows the receive, and the token contract never locks for itself.
LockDiscipline ==
  /\ \A id \in Id : Done("unlock", id) \/ Done("burn", id) => Done("receive", id)
  /\ \A c \in Chain : locked[c][Token] = 0

SafetyInv == /\ TypeOK /\ StatusFollowsRows /\ VerdictBeforeLeg /\ KnownIds
             /\ OneStatusRow

\* The transfer an id names ends as the abstract specification allows.
Outcome(id) == CASE Delivered(id) -> "delivered"
                 [] Refunded(id) -> "refunded"
                 [] InFlight(id) -> "inflight"
                 [] OTHER -> "unused"

Abstract == INSTANCE AtomicTransfer
              WITH wallet <- [c \in Chain |-> [a \in Account |-> bal[c][a]]],
                   transfer <- sent,
                   outcome <- [id \in Id |-> Outcome(id)]

\* Teleports through the hub implement the abstract transfer.
ImplementsAtomicTransfer == Abstract!Spec

FreezesEnd == <>[](frozen = {})

\* If the hub does not freeze the token for ever, every teleport a user started
\* ends, whichever relayer wins the race to the hub, and leaves no supply
\* behind: the mint that lost to a revert is burnt, as the TeleportV1 comment
\* expects of the relayer.  (A mint to the token contract itself takes no lock
\* and cannot be burnt.)
LosesToRevert(id) == Done("receive", id) /\ Row(id, "Reverted") /\ sent[id].to # Token
EveryTeleportEnds ==
  FreezesEnd =>
    \A id \in Id : /\ Sent(id) ~> (Delivered(id) \/ Refunded(id))
                   /\ LosesToRevert(id) ~> Done("burn", id)
=============================================================================

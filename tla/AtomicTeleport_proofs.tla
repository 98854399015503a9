------------------------ MODULE AtomicTeleport_proofs ------------------------
(***************************************************************************)
(* Proofs about AtomicTeleport, for any chains, accounts, ids and amounts: *)
(* verdicts are final, what is locked is what undecided and unfinished     *)
(* messages hold, no leg that is owed is refused, and value is conserved.  *)
(* They assume that no relayer repeats a store of a finished message       *)
(* (~StoreRetry): without it the run AtomicTeleportStoreRetry finds a      *)
(* message both executed and reverted.                                     *)
(***************************************************************************)
EXTENDS AtomicTeleport, FiniteSetTheorems, TLAPS

\* A change of one field of one chain's ledger keeps the ledger a ledger.
LEMMA LedgerUpdate ==
  ASSUME NEW f \in [Chain -> [Holder -> Nat]], NEW c \in Chain,
         NEW h \in Holder, NEW n \in Nat
  PROVE  [f EXCEPT ![c][h] = n] \in [Chain -> [Holder -> Nat]]
  OBVIOUS

\* The type invariant, action by action.
LEMMA TypeInit == Init => TypeOK
  BY InitBalanceAssumption DEF Init, TypeOK, Holder, Status, Terminal, Leg

LEMMA TransferType ==
  ASSUME TypeOK, NEW id \in Id, Sent(id)
  PROVE  /\ sent[id] \in Transfer
         /\ sent[id].src \in Chain /\ sent[id].dst \in Chain
         /\ sent[id].from \in Account /\ sent[id].from \in Holder
         /\ sent[id].to \in Holder /\ sent[id].value \in Nat
  BY AmountAssumption DEF TypeOK, Sent, Transfer, Holder

LEMMA TypeNext ==
  ASSUME TypeOK, KnownIds, [Next]_vars
  PROVE  TypeOK'
<1>1. ASSUME NEW id \in Id, NEW t \in Transfer, TeleportAtomic(id, t)
      PROVE  TypeOK'
  <2>1. /\ t.src \in Chain /\ t.from \in Holder /\ t.value \in Nat
    BY AmountAssumption DEF Transfer, Holder
  <2>2. bal[t.src][t.from] - t.value \in Nat
    BY <1>1, <2>1 DEF TeleportAtomic, TypeOK
  <2>3. bal' \in [Chain -> [Holder -> Nat]]
    BY <1>1, <2>1, <2>2, LedgerUpdate DEF TeleportAtomic, TypeOK
  <2>4. sent' \in [Id -> Transfer \cup {NoTransfer}]
    BY <1>1 DEF TeleportAtomic, TypeOK
  <2> QED BY <1>1, <2>3, <2>4 DEF TeleportAtomic, TypeOK
<1>2. ASSUME NEW batch \in SUBSET Id, StoreBatch(batch)
      PROVE  TypeOK'
  BY <1>2 DEF StoreBatch, TypeOK, Status
<1>3. ASSUME NEW batch \in SUBSET Id, NEW final \in Terminal, Finish(batch, final)
      PROVE  TypeOK'
  <2>1. status' \in [Id -> Status]
    BY <1>3 DEF Finish, TypeOK, Status, Terminal
  <2>2. rows' \in [Id -> [Terminal -> Nat]]
    BY <1>3 DEF Finish, TypeOK
  <2> QED BY <1>3, <2>1, <2>2 DEF Finish, TypeOK
<1>4. ASSUME NEW id \in Id, ReceiveTeleportAtomic(id)
      PROVE  TypeOK'
  <2> DEFINE t == sent[id]
  <2>0. Sent(id)
    BY <1>4 DEF ReceiveTeleportAtomic, KnownIds
  <2>1. /\ t.src \in Chain /\ t.dst \in Chain /\ t.value \in Nat
        /\ t.from \in Holder /\ t.to \in Holder /\ Token \in Holder
    BY <2>0, TransferType DEF Holder
  <2>2. bal' \in [Chain -> [Holder -> Nat]]
    BY <1>4, <2>1 DEF ReceiveTeleportAtomic, TypeOK
  <2>3. locked' \in [Chain -> [Holder -> Nat]]
    BY <1>4, <2>1 DEF ReceiveTeleportAtomic, TypeOK
  <2> QED BY <1>4, <2>2, <2>3 DEF ReceiveTeleportAtomic, RunLeg, TypeOK, Leg
<1>5. ASSUME NEW id \in Id, Unlock(id)
      PROVE  TypeOK'
  <2> DEFINE t == sent[id]
  <2>0. Sent(id)
    BY <1>5 DEF Unlock, KnownIds, Leg
  <2>1. /\ t.src \in Chain /\ t.dst \in Chain /\ t.value \in Nat
        /\ t.from \in Holder /\ t.to \in Holder /\ Token \in Holder
    BY <2>0, TransferType DEF Holder
  <2>2. CASE t.to = Token
    BY <1>5, <2>2 DEF Unlock, RunLeg, TypeOK, Leg
  <2>3. CASE t.to # Token
    <3> DEFINE mid == [bal EXCEPT ![t.dst][Token] = @ - t.value]
    <3>1. /\ locked[t.dst][t.to] - t.value \in Nat
          /\ bal[t.dst][Token] - t.value \in Nat
      BY <1>5, <2>1, <2>3 DEF Unlock, TypeOK
    <3>2. locked' = [locked EXCEPT ![t.dst][t.to] = locked[t.dst][t.to] - t.value]
      BY <1>5, <2>3 DEF Unlock
    <3>3. locked' \in [Chain -> [Holder -> Nat]]
      BY <2>1, <3>1, <3>2, LedgerUpdate DEF TypeOK
    <3>4. mid \in [Chain -> [Holder -> Nat]]
      BY <2>1, <3>1, LedgerUpdate DEF TypeOK
    <3>5. bal' = [mid EXCEPT ![t.dst][t.to] = mid[t.dst][t.to] + t.value]
      BY <1>5, <2>3 DEF Unlock
    <3>6. mid[t.dst][t.to] + t.value \in Nat
      BY <2>1, <3>4
    <3>7. bal' \in [Chain -> [Holder -> Nat]]
      <4> HIDE DEF mid
      <4> QED BY <2>1, <3>4, <3>5, <3>6, LedgerUpdate
    <3> QED BY <1>5, <3>3, <3>7 DEF Unlock, RunLeg, TypeOK, Leg
  <2> QED BY <2>2, <2>3
<1>6. ASSUME NEW id \in Id, RevertTeleportMint(id)
      PROVE  TypeOK'
  <2> DEFINE t == sent[id]
  <2>0. Sent(id)
    BY <1>6 DEF RevertTeleportMint, KnownIds, Finished, Terminal
  <2>1. /\ t.src \in Chain /\ t.dst \in Chain /\ t.value \in Nat
        /\ t.from \in Holder /\ t.to \in Holder /\ Token \in Holder
    BY <2>0, TransferType DEF Holder
  <2>2. bal' \in [Chain -> [Holder -> Nat]]
    BY <1>6, <2>1 DEF RevertTeleportMint, TypeOK
  <2> QED BY <1>6, <2>2 DEF RevertTeleportMint, RunLeg, TypeOK, Leg
<1>7. ASSUME NEW id \in Id, RevertTeleportBurn(id)
      PROVE  TypeOK'
  <2> DEFINE t == sent[id]
  <2>0. Sent(id)
    BY <1>7 DEF RevertTeleportBurn, KnownIds, Leg
  <2>1. /\ t.src \in Chain /\ t.dst \in Chain /\ t.value \in Nat
        /\ t.from \in Holder /\ t.to \in Holder /\ Token \in Holder
    BY <2>0, TransferType DEF Holder
  <2>2. /\ locked[t.dst][t.to] - t.value \in Nat
        /\ bal[t.dst][Token] - t.value \in Nat
    BY <1>7, <2>1 DEF RevertTeleportBurn, TypeOK
  <2>3. locked' \in [Chain -> [Holder -> Nat]]
    BY <1>7, <2>1, <2>2 DEF RevertTeleportBurn, TypeOK
  <2>4. bal' \in [Chain -> [Holder -> Nat]]
    BY <1>7, <2>1, <2>2 DEF RevertTeleportBurn, TypeOK
  <2> QED BY <1>7, <2>3, <2>4 DEF RevertTeleportBurn, RunLeg, TypeOK, Leg
<1>8. ASSUME NEW c \in Chain, Freeze(c) \/ Unfreeze(c)
      PROVE  TypeOK'
  BY <1>8 DEF Freeze, Unfreeze, TypeOK
<1>9. CASE UNCHANGED vars
  BY <1>9 DEF vars, TypeOK
<1> QED
  BY <1>1, <1>2, <1>3, <1>4, <1>5, <1>6, <1>7, <1>8, <1>9
  DEF Next, ExecuteAtomicMessageBatch, RevertAtomicMessageBatch, Terminal

-----------------------------------------------------------------------------
(* Verdicts: what the hub has announced decides which legs run.            *)

Verdicts == StatusFollowsRows /\ VerdictBeforeLeg /\ KnownIds /\ OneStatusRow

LEMMA VerdictsInit == Init => Verdicts
  BY DEF Init, Verdicts, StatusFollowsRows, VerdictBeforeLeg, KnownIds, OneStatusRow,
         Terminal, Row, Finished, Done, Delivered, Refunded, Leg

\* A pending message has been announced in no terminal status.
LEMMA PendingHasNoRow ==
  ASSUME TypeOK, StatusFollowsRows, NEW id \in Id, status[id] = "Pending"
  PROVE  rows[id]["Executed"] = 0 /\ rows[id]["Reverted"] = 0
  BY DEF TypeOK, StatusFollowsRows, Finished, Row, Terminal

\* A message with no row is pending.
LEMMA NoRowIsPending ==
  ASSUME TypeOK, StatusFollowsRows, NEW id \in Id, ~Finished(id)
  PROVE  status[id] = "Pending"
  BY DEF TypeOK, StatusFollowsRows, Finished, Status, Terminal

\* The three hub calls: the legs do not move, the rows may.
LEMMA FinishKeepsVerdicts ==
  ASSUME TypeOK, Verdicts, NEW batch \in SUBSET Id, NEW final \in Terminal,
         batch \subseteq stored, Finish(batch, final)
  PROVE  Verdicts'
<1>1. ASSUME NEW id \in Id
      PROVE  rows'[id] = IF id \in batch /\ status[id] = "Pending"
                         THEN [rows[id] EXCEPT ![final] = @ + 1] ELSE rows[id]
  BY DEF Finish
<1>2. ASSUME NEW id \in Id, NEW s \in Terminal
      PROVE  Row(id, s) => Row(id, s)'
  <2>1. rows[id] \in [Terminal -> Nat]
    BY DEF TypeOK
  <2>2. rows'[id][s] = rows[id][s] \/ rows'[id][s] = rows[id][s] + 1
    BY <1>1, <2>1
  <2>3. rows[id][s] \in Nat
    BY <2>1
  <2> QED BY <2>2, <2>3 DEF Row
<1>3. StatusFollowsRows'
  <2> SUFFICES ASSUME NEW id \in Id
               PROVE  /\ status'[id] = "Pending" => ~Finished(id)'
                      /\ \A s \in Terminal : status'[id] = s => Row(id, s)'
    BY DEF StatusFollowsRows
  <2>1. CASE id \in batch /\ status[id] = "Pending"
    <3>1. status'[id] = final /\ rows'[id] = [rows[id] EXCEPT ![final] = @ + 1]
      BY <2>1, <1>1 DEF Finish
    <3>2. rows[id] \in [Terminal -> Nat] /\ rows[id][final] \in Nat
      BY DEF TypeOK
    <3>3. rows'[id][final] = rows[id][final] + 1
      BY <3>1, <3>2
    <3>4. rows'[id][final] > 0
      BY <3>2, <3>3
    <3>5. Row(id, final)'
      BY <3>4 DEF Row
    <3>6. status'[id] # "Pending" /\ \A s \in Terminal : status'[id] = s => s = final
      BY <3>1 DEF Terminal
    <3> QED BY <3>5, <3>6
  <2>2. CASE ~(id \in batch /\ status[id] = "Pending")
    <3>1. rows'[id] = rows[id] /\ status'[id] = status[id]
      BY <2>2, <1>1 DEF Finish, TypeOK
    <3> QED BY <3>1 DEF Verdicts, StatusFollowsRows, Finished, Row
  <2> QED BY <2>1, <2>2
<1>4. VerdictBeforeLeg'
  BY <1>2 DEF Verdicts, VerdictBeforeLeg, Finish, Delivered, Refunded, Done, Terminal
<1>5. KnownIds'
  <2> SUFFICES ASSUME NEW id \in Id, Finished(id)'
               PROVE  id \in stored
    BY DEF Verdicts, KnownIds, Finish, Sent, Done
  <2>1. CASE id \in batch
    BY <2>1
  <2>2. CASE id \notin batch
    BY <2>2, <1>1 DEF Verdicts, KnownIds, Finished, Row
  <2> QED BY <2>1, <2>2
<1>6. OneStatusRow'
  <2> SUFFICES ASSUME NEW id \in Id
               PROVE  rows'[id]["Executed"] + rows'[id]["Reverted"] <= 1
    BY DEF OneStatusRow
  <2>1. CASE id \in batch /\ status[id] = "Pending"
    <3>1. rows[id] \in [Terminal -> Nat]
      BY DEF TypeOK
    <3>2. rows[id]["Executed"] = 0 /\ rows[id]["Reverted"] = 0
      BY <2>1, PendingHasNoRow DEF Verdicts
    <3>3. rows'[id] = [rows[id] EXCEPT ![final] = @ + 1]
      BY <2>1, <1>1
    <3> QED BY <3>1, <3>2, <3>3 DEF Terminal
  <2>2. CASE ~(id \in batch /\ status[id] = "Pending")
    BY <2>2, <1>1 DEF Verdicts, OneStatusRow
  <2> QED BY <2>1, <2>2
<1> QED BY <1>3, <1>4, <1>5, <1>6 DEF Verdicts

LEMMA VerdictsNext ==
  ASSUME ~StoreRetry, TypeOK, Verdicts, [Next]_vars
  PROVE  Verdicts'
<1> USE DEF Verdicts
<1>1. ASSUME NEW id \in Id, NEW t \in Transfer, TeleportAtomic(id, t)
      PROVE  Verdicts'
  BY <1>1, NoTransferAssumption
  DEF TeleportAtomic, StatusFollowsRows, VerdictBeforeLeg, KnownIds, OneStatusRow,
      Sent, Row, Finished, Done, Delivered, Refunded, TypeOK
<1>2. ASSUME NEW batch \in SUBSET Id, StoreBatch(batch)
      PROVE  Verdicts'
  <2>1. \A id \in batch : Sent(id) /\ ~Finished(id)
    BY <1>2 DEF StoreBatch
  <2>2. status' = status
    BY <1>2, <2>1, NoRowIsPending DEF StoreBatch, TypeOK
  <2> QED
    BY <1>2, <2>1, <2>2
    DEF StoreBatch, StatusFollowsRows, VerdictBeforeLeg, KnownIds, OneStatusRow,
        Sent, Row, Finished, Done, Delivered, Refunded
<1>3. ASSUME NEW batch \in SUBSET Id, ExecuteAtomicMessageBatch(batch)
      PROVE  Verdicts'
  <2>1. batch \subseteq stored
    BY <1>3 DEF ExecuteAtomicMessageBatch, KnownIds, Leg
  <2> QED BY <1>3, <2>1, FinishKeepsVerdicts DEF ExecuteAtomicMessageBatch, Terminal
<1>4. ASSUME NEW batch \in SUBSET Id, RevertAtomicMessageBatch(batch)
      PROVE  Verdicts'
  BY <1>4, FinishKeepsVerdicts DEF RevertAtomicMessageBatch, Terminal
<1>5. ASSUME NEW id \in Id, ReceiveTeleportAtomic(id)
      PROVE  Verdicts'
  <2>1. executed' = executed \cup {<<"receive", id>>} /\ id \in stored
    BY <1>5 DEF ReceiveTeleportAtomic, RunLeg
  <2> QED
    BY <1>5, <2>1 DEF ReceiveTeleportAtomic, RunLeg, StatusFollowsRows,
        VerdictBeforeLeg, KnownIds, OneStatusRow, Sent, Row, Finished, Done,
        Delivered, Refunded
<1>6. ASSUME NEW id \in Id, Unlock(id)
      PROVE  Verdicts'
  <2>1. executed' = executed \cup {<<"unlock", id>>} /\ id \in stored /\ Row(id, "Executed")
    BY <1>6 DEF Unlock, RunLeg, KnownIds, Leg
  <2> QED
    BY <1>6, <2>1 DEF Unlock, RunLeg, StatusFollowsRows,
        VerdictBeforeLeg, KnownIds, OneStatusRow, Sent, Row, Finished, Done,
        Delivered, Refunded
<1>7. ASSUME NEW id \in Id, RevertTeleportMint(id) \/ RevertTeleportBurn(id)
      PROVE  Verdicts'
  <2>1. PICK leg \in {"mint", "burn"} : executed' = executed \cup {<<leg, id>>}
    BY <1>7 DEF RevertTeleportMint, RevertTeleportBurn, RunLeg
  <2>2. Row(id, "Reverted") /\ id \in stored
    BY <1>7 DEF RevertTeleportMint, RevertTeleportBurn, KnownIds, Finished, Terminal
  <2>3. UNCHANGED <<sent, stored, status, rows>>
    BY <1>7 DEF RevertTeleportMint, RevertTeleportBurn, RunLeg
  <2> QED
    BY <2>1, <2>2, <2>3 DEF StatusFollowsRows, VerdictBeforeLeg, KnownIds,
        OneStatusRow, Sent, Row, Finished, Done, Delivered, Refunded
<1>8. ASSUME UNCHANGED <<sent, stored, status, rows, executed>>
      PROVE  Verdicts'
  BY <1>8 DEF StatusFollowsRows, VerdictBeforeLeg, KnownIds, OneStatusRow, Sent,
              Row, Finished, Done, Delivered, Refunded
<1>9. CASE (\E c \in Chain : Freeze(c) \/ Unfreeze(c)) \/ UNCHANGED vars
  BY <1>8, <1>9 DEF Freeze, Unfreeze, vars
<1> HIDE DEF Verdicts
<1> QED
  BY <1>1, <1>2, <1>3, <1>4, <1>5, <1>6, <1>7, <1>9 DEF Next

\* Type correctness and the inductive invariant, for every reachable state.
THEOREM Safety ==
  ASSUME ~StoreRetry
  PROVE  Spec => []SafetyInv
<1>1. Init => SafetyInv
  BY TypeInit, VerdictsInit DEF SafetyInv, Verdicts
<1>2. SafetyInv /\ [Next]_vars => SafetyInv'
  BY TypeNext, VerdictsNext DEF SafetyInv, Verdicts
<1> QED BY <1>1, <1>2, PTL DEF Spec

\* No teleport is both paid to its recipient and refunded to its sender.
THEOREM NoDoubleSpend ==
  ASSUME ~StoreRetry
  PROVE  Spec => []NeverBothPaid
<1>1. SafetyInv => NeverBothPaid
  BY DEF SafetyInv, TypeOK, NeverBothPaid, VerdictBeforeLeg, OneStatusRow, Row, Terminal
<1> QED BY <1>1, Safety, PTL

\* The hub never announces an executed message as reverted, nor the converse.
THEOREM VerdictIsFinal ==
  ASSUME ~StoreRetry
  PROVE  Spec => ExecutedNeverReverted
<1> DEFINE Keep == \A id \in Id :
             /\ Row(id, "Executed") => rows'[id]["Reverted"] = rows[id]["Reverted"]
             /\ Row(id, "Reverted") => rows'[id]["Executed"] = rows[id]["Executed"]
<1>1. ASSUME SafetyInv, [Next]_vars
      PROVE  [Keep]_vars
  <2>1. ASSUME NEW batch \in SUBSET Id, NEW final \in Terminal, Finish(batch, final)
        PROVE  Keep
    <3> SUFFICES ASSUME NEW id \in Id, rows'[id] # rows[id]
                 PROVE  ~Row(id, "Executed") /\ ~Row(id, "Reverted")
      OBVIOUS
    <3>1. status[id] = "Pending"
      BY <2>1 DEF Finish
    <3>2. rows[id]["Executed"] = 0 /\ rows[id]["Reverted"] = 0
      BY <1>1, <3>1, PendingHasNoRow DEF SafetyInv
    <3> QED BY <3>2 DEF Row
  <2>2. CASE UNCHANGED rows
    BY <2>2
  <2>3. UNCHANGED rows \/ \E batch \in SUBSET Id, final \in Terminal : Finish(batch, final)
    BY <1>1 DEF Next, vars, TeleportAtomic, StoreBatch, ExecuteAtomicMessageBatch,
       RevertAtomicMessageBatch, ReceiveTeleportAtomic, Unlock, RevertTeleportMint,
       RevertTeleportBurn, RunLeg, Freeze, Unfreeze, Terminal
  <2> QED BY <2>1, <2>2, <2>3
<1> QED BY <1>1, Safety, PTL DEF Spec, ExecutedNeverReverted

-----------------------------------------------------------------------------
(* Refinement: a teleport is an abstract transfer.                         *)

\* The outcome of an id as a function of its two paying legs.
LEMMA OutcomeValues ==
  ASSUME NEW id \in Id
  PROVE  /\ Delivered(id) /\ ~Refunded(id) => Outcome(id) = "delivered"
         /\ Refunded(id) /\ ~Delivered(id) => Outcome(id) = "refunded"
         /\ Sent(id) /\ ~Delivered(id) /\ ~Refunded(id) => Outcome(id) = "inflight"
         /\ ~Sent(id) /\ ~Delivered(id) /\ ~Refunded(id) => Outcome(id) = "unused"
  BY DEF Outcome, InFlight

\* An id that is not both paid keeps its outcome while its message and its
\* two paying legs do not change.
LEMMA OutcomeStable ==
  ASSUME NEW id \in Id, NeverBothPaid, Sent(id)' = Sent(id),
         Delivered(id)' = Delivered(id), Refunded(id)' = Refunded(id)
  PROVE  Outcome(id)' = Outcome(id)
  BY DEF Outcome, InFlight

\* Paying one account, seen through the accounts' balances.
LEMMA PayPointwise ==
  ASSUME NEW w \in [Chain -> [Account -> Nat]], NEW x \in [Chain -> [Account -> Nat]],
         NEW c, NEW a, NEW v,
         \A d \in Chain, b \in Account :
            x[d][b] = IF d = c /\ b = a THEN w[d][b] + v ELSE w[d][b]
  PROVE  x = Abstract!Pay(w, c, a, v)
<1>1. ASSUME NEW d \in Chain
      PROVE  x[d] = Abstract!Pay(w, c, a, v)[d]
  <2>1. CASE d = c
    BY <2>1 DEF Abstract!Pay
  <2>2. CASE d # c
    BY <2>2 DEF Abstract!Pay
  <2> QED BY <2>1, <2>2
<1> QED BY <1>1 DEF Abstract!Pay

LEMMA RefinementInit == Init => Abstract!Init
<1> SUFFICES ASSUME Init PROVE Abstract!Init
  OBVIOUS
<1>1. [c \in Chain |-> [a \in Account |-> bal[c][a]]]
        = [c \in Chain |-> [a \in Account |-> InitBalance]]
  BY TokenAssumption DEF Init, Holder
<1>2. \A id \in Id : Outcome(id) = "unused"
  BY OutcomeValues DEF Init, Sent, Delivered, Refunded, Done
<1> QED BY <1>1, <1>2 DEF Abstract!Init, Init

\* Every step of the system is a step of the abstract transfer or changes
\* nothing the abstract transfer sees.
LEMMA RefinementNext ==
  ASSUME SafetyInv, SafetyInv', NeverBothPaid, NeverBothPaid', [Next]_vars
  PROVE  [Abstract!Next]_(Abstract!vars)
<1> DEFINE wallet == [c \in Chain |-> [a \in Account |-> bal[c][a]]]
           outcome == [id \in Id |-> Outcome(id)]
<1>0. TypeOK /\ KnownIds /\ VerdictBeforeLeg /\ OneStatusRow
  BY DEF SafetyInv
<1>1. ASSUME NEW id \in Id, NEW t \in Transfer, TeleportAtomic(id, t)
      PROVE  Abstract!Begin(id, t)
  <2>1. ~Delivered(id) /\ ~Refunded(id) /\ ~Sent(id)
    BY <1>0, <1>1 DEF KnownIds, TeleportAtomic, Delivered, Refunded, Leg
  <2>2. sent' = [sent EXCEPT ![id] = t] /\ Sent(id)'
    BY <1>0, <1>1, NoTransferAssumption DEF TeleportAtomic, Sent, TypeOK
  <2>3. UNCHANGED executed
    BY <1>1 DEF TeleportAtomic
  <2>4. Outcome(id) = "unused" /\ Outcome(id)' = "inflight"
    BY <2>1, <2>2, <2>3, OutcomeValues DEF Outcome, InFlight, Delivered, Refunded, Done
  <2>5. \A i \in Id \ {id} : Outcome(i)' = Outcome(i)
    BY <1>0, <2>2, <2>3, OutcomeStable DEF Sent, Delivered, Refunded, Done, TypeOK
  <2>6. outcome' = [outcome EXCEPT ![id] = "inflight"]
    BY <2>4, <2>5
  <2>7. t.src \in Chain /\ t.from \in Account /\ t.src # t.dst
    BY <1>1 DEF Transfer, TeleportAtomic
  <2>8. wallet[t.src][t.from] >= t.value
    BY <1>1, <2>7 DEF TeleportAtomic
  <2>9. wallet' = [wallet EXCEPT ![t.src][t.from] = @ - t.value]
    BY <1>0, <1>1, <2>7 DEF TeleportAtomic, TypeOK, Holder
  <2> QED BY <2>2, <2>4, <2>6, <2>7, <2>8, <2>9 DEF Abstract!Begin
<1>2. ASSUME UNCHANGED <<sent, executed>>, UNCHANGED wallet
      PROVE  UNCHANGED Abstract!vars
  <2>1. \A i \in Id : Outcome(i)' = Outcome(i)
    BY <1>2 DEF Outcome, InFlight, Sent, Delivered, Refunded, Done
  <2> QED BY <1>2, <2>1 DEF Abstract!vars
<1>3. ASSUME NEW id \in Id, ReceiveTeleportAtomic(id) \/ RevertTeleportBurn(id)
      PROVE  UNCHANGED Abstract!vars
  <2>1. PICK leg \in {"receive", "burn"} : executed' = executed \cup {<<leg, id>>}
    BY <1>3 DEF ReceiveTeleportAtomic, RevertTeleportBurn, RunLeg
  <2>2. sent' = sent /\ Sent(id)
    BY <1>0, <1>3 DEF ReceiveTeleportAtomic, RevertTeleportBurn, RunLeg, KnownIds, Leg
  <2>3. \A i \in Id : Outcome(i)' = Outcome(i)
    BY <2>1, <2>2 DEF Outcome, InFlight, Sent, Delivered, Refunded, Done
  <2> DEFINE t == sent[id]
  <2>6. t.dst \in Chain /\ Token \in Holder
    BY <1>0, <2>2, TransferType DEF Holder
  <2>7. PICK n : bal' = [bal EXCEPT ![t.dst][Token] = n]
    BY <1>3 DEF ReceiveTeleportAtomic, RevertTeleportBurn
  <2>4. \A c \in Chain, a \in Account : bal'[c][a] = bal[c][a]
    BY <1>0, <2>6, <2>7, TokenAssumption DEF TypeOK, Holder
  <2>5. wallet' = wallet
    BY <2>4
  <2> QED BY <2>2, <2>3, <2>5 DEF Abstract!vars
<1>4. ASSUME NEW id \in Id, Unlock(id)
      PROVE  Abstract!Deliver(id)
  <2> DEFINE t == sent[id]
  <2>1. executed' = executed \cup {<<"unlock", id>>} /\ ~Delivered(id)
    BY <1>4 DEF Unlock, RunLeg, Delivered
  <2>2. sent' = sent /\ Sent(id)
    BY <1>0, <1>4 DEF Unlock, RunLeg, KnownIds, Leg
  <2>3. Delivered(id)' /\ ~Refunded(id)' /\ ~Refunded(id)
    BY <2>1 DEF NeverBothPaid, Delivered, Refunded, Done
  <2>4. Outcome(id) = "inflight" /\ Outcome(id)' = "delivered"
    <3>1. Sent(id)' /\ ~Delivered(id) /\ ~Refunded(id)
      BY <2>1, <2>2, <2>3 DEF Sent
    <3> QED BY <2>2, <2>3, <3>1 DEF Outcome, InFlight
  <2>5. \A i \in Id \ {id} : Outcome(i)' = Outcome(i)
    BY <2>1, <2>2 DEF Outcome, InFlight, Sent, Delivered, Refunded, Done
  <2>6. outcome' = [outcome EXCEPT ![id] = "delivered"]
    BY <2>4, <2>5
  <2>7. /\ t.dst \in Chain /\ t.to \in Holder /\ t.value \in Nat
    BY <1>0, <2>2, TransferType
  <2>8. wallet' = Abstract!Pay(wallet, t.dst, t.to, t.value)
    <3>1. CASE t.to = Token
      BY <1>4, <2>7, <3>1, TokenAssumption DEF Unlock, Abstract!Pay
    <3>2. CASE t.to # Token
      <4>1. bal' = [bal EXCEPT ![t.dst][Token] = @ - t.value,
                               ![t.dst][t.to] = @ + t.value]
        BY <1>4, <3>2 DEF Unlock
      <4>2. t.to \in Account /\ bal \in [Chain -> [Holder -> Nat]]
        BY <1>0, <2>7, <3>2 DEF Holder, TypeOK
      <4>3. \A c \in Chain, a \in Account :
              bal'[c][a] = IF c = t.dst /\ a = t.to THEN bal[c][a] + t.value ELSE bal[c][a]
        BY <2>7, <3>2, <4>1, <4>2, TokenAssumption DEF Holder
      <4> DEFINE after == [c \in Chain |-> [a \in Account |-> bal'[c][a]]]
      <4>4. /\ wallet \in [Chain -> [Account -> Nat]]
            /\ after \in [Chain -> [Account -> Nat]]
        BY DEF SafetyInv, TypeOK, Holder
      <4>5. \A c \in Chain, a \in Account :
              after[c][a] = IF c = t.dst /\ a = t.to THEN wallet[c][a] + t.value ELSE wallet[c][a]
        BY <4>3
      <4>6. after = Abstract!Pay(wallet, t.dst, t.to, t.value)
        <5> HIDE DEF wallet, after
        <5> QED BY <4>4, <4>5, PayPointwise
      <4> QED BY <4>6
    <3> QED BY <3>1, <3>2
  <2> QED BY <2>2, <2>4, <2>6, <2>8 DEF Abstract!Deliver
<1>5. ASSUME NEW id \in Id, RevertTeleportMint(id)
      PROVE  Abstract!Refund(id)
  <2> DEFINE t == sent[id]
  <2>1. executed' = executed \cup {<<"mint", id>>} /\ ~Refunded(id)
    BY <1>5 DEF RevertTeleportMint, RunLeg, Refunded
  <2>2. sent' = sent /\ Sent(id)
    BY <1>0, <1>5 DEF RevertTeleportMint, RunLeg, KnownIds, Finished, Terminal
  <2>3. Refunded(id)' /\ ~Delivered(id)' /\ ~Delivered(id)
    BY <2>1 DEF NeverBothPaid, Delivered, Refunded, Done
  <2>4. Outcome(id) = "inflight" /\ Outcome(id)' = "refunded"
    <3>1. Sent(id)' /\ ~Delivered(id) /\ ~Refunded(id)
      BY <2>1, <2>2, <2>3 DEF Sent
    <3> QED BY <2>2, <2>3, <3>1 DEF Outcome, InFlight
  <2>5. \A i \in Id \ {id} : Outcome(i)' = Outcome(i)
    BY <2>1, <2>2 DEF Outcome, InFlight, Sent, Delivered, Refunded, Done
  <2>6. outcome' = [outcome EXCEPT ![id] = "refunded"]
    BY <2>4, <2>5
  <2>7. /\ t.src \in Chain /\ t.from \in Account /\ t.value \in Nat
    BY <1>0, <2>2, TransferType
  <2>8. wallet' = Abstract!Pay(wallet, t.src, t.from, t.value)
    BY <1>0, <1>5, <2>7 DEF RevertTeleportMint, Abstract!Pay, TypeOK, Holder
  <2> QED BY <2>2, <2>4, <2>6, <2>8 DEF Abstract!Refund
<1>6. CASE \/ \E batch \in SUBSET Id : \/ StoreBatch(batch)
                                       \/ ExecuteAtomicMessageBatch(batch)
                                       \/ RevertAtomicMessageBatch(batch)
           \/ \E c \in Chain : Freeze(c) \/ Unfreeze(c)
           \/ UNCHANGED vars
  BY <1>2, <1>6 DEF StoreBatch, ExecuteAtomicMessageBatch, RevertAtomicMessageBatch,
                    Finish, Freeze, Unfreeze, vars
<1> QED
  BY <1>1, <1>3, <1>4, <1>5, <1>6 DEF Next, Abstract!Next, Abstract!Transfer, Transfer, Holder

\* The protocol through the hub implements the abstract transfer.
THEOREM TeleportImplementsTransfer ==
  ASSUME ~StoreRetry
  PROVE  Spec => ImplementsAtomicTransfer
<1>1. Init => Abstract!Init
  BY RefinementInit
<1>2. ASSUME SafetyInv, SafetyInv', NeverBothPaid, NeverBothPaid', [Next]_vars
      PROVE  [Abstract!Next]_(Abstract!vars)
  BY <1>2, RefinementNext
<1> QED
  BY <1>1, <1>2, Safety, NoDoubleSpend, PTL
  DEF Spec, Abstract!Spec, ImplementsAtomicTransfer

-----------------------------------------------------------------------------
(* Sums.                                                                   *)

\* The units of a finite set of holders are finite: a sum is a number.
LEMMA UnitsFinite ==
  ASSUME NEW S, IsFiniteSet(S), NEW f, \A x \in S : f[x] \in Nat
  PROVE  IsFiniteSet(Units(f, S)) /\ Total(f, S) \in Nat
<1> DEFINE g == [x \in S |-> {x} \X (1 .. f[x])]
           T == {{x} \X (1 .. f[x]) : x \in S}
<1>1. g \in Surjection(S, T)
  BY DEF Surjection
<1>2. IsFiniteSet(T)
  <2> HIDE DEF g, T
  <2> QED BY <1>1, FS_Surjection
<1>3. ASSUME NEW x \in S
      PROVE  IsFiniteSet({x} \X (1 .. f[x]))
  <2>1. IsFiniteSet({x})
    BY FS_Singleton
  <2>2. IsFiniteSet(1 .. f[x])
    <3>1. f[x] \in Int /\ 1 \in Int
      OBVIOUS
    <3> QED BY <3>1, FS_Interval
  <2> QED BY <2>1, <2>2, FS_Product
<1>4. \A U \in T : IsFiniteSet(U)
  BY <1>3
<1>5. IsFiniteSet(UNION T)
  <2> HIDE DEF T
  <2> QED BY <1>2, <1>4, FS_UNION
<1> QED BY <1>5, FS_CardinalityType DEF Units, Total

\* Two functions that agree on a set have the same sum over it.
LEMMA TotalEq ==
  ASSUME NEW S, NEW f, NEW g, \A x \in S : f[x] = g[x]
  PROVE  Total(f, S) = Total(g, S)
<1>1. Units(f, S) = Units(g, S)
  BY DEF Units
<1> QED BY <1>1 DEF Total

\* One summand taken out of a sum.
LEMMA TotalSplit ==
  ASSUME NEW S, IsFiniteSet(S), NEW f, \A x \in S : f[x] \in Nat, NEW x \in S
  PROVE  /\ Total(f, S) = Total(f, S \ {x}) + f[x]
         /\ Total(f, S \ {x}) \in Nat /\ Total(f, S) \in Nat
<1> DEFINE X == {x} \X (1 .. f[x])
           R == Units(f, S \ {x})
<1>1. Units(f, S) = R \cup X
  BY DEF Units
<1>2. R \cap X = {}
  BY DEF Units
<1>3. IsFiniteSet(S \ {x}) /\ \A y \in S \ {x} : f[y] \in Nat
  BY FS_RemoveElement
<1>4. IsFiniteSet(R) /\ Cardinality(R) \in Nat /\ Total(f, S) \in Nat
  BY <1>3, UnitsFinite DEF Total
<1>5. IsFiniteSet(X) /\ Cardinality(X) = f[x]
  <2>1. IsFiniteSet({x}) /\ Cardinality({x}) = 1
    BY FS_Singleton
  <2>2. IsFiniteSet(1 .. f[x]) /\ Cardinality(1 .. f[x]) = f[x]
    BY FS_Interval
  <2>3. IsFiniteSet(X) /\ Cardinality(X) = 1 * f[x]
    BY <2>1, <2>2, FS_Product
  <2> QED BY <2>3
<1>6. Cardinality(R \cup X) = Cardinality(R) + Cardinality(X)
  <2> HIDE DEF R, X
  <2>1. Cardinality(R \cup X) = Cardinality(R) + Cardinality(X) - Cardinality(R \cap X)
    BY <1>4, <1>5, FS_Union
  <2>2. Cardinality(R \cap X) = 0
    BY <1>2, FS_EmptySet
  <2> QED BY <1>4, <1>5, <2>1, <2>2
<1> QED BY <1>1, <1>4, <1>5, <1>6 DEF Total

\* One summand changed.
LEMMA TotalChange ==
  ASSUME NEW S, IsFiniteSet(S), NEW f, NEW g, NEW x \in S,
         \A y \in S : f[y] \in Nat /\ g[y] \in Nat,
         \A y \in S \ {x} : g[y] = f[y]
  PROVE  /\ Total(f, S) \in Nat /\ Total(g, S) \in Nat
         /\ Total(g, S) + f[x] = Total(f, S) + g[x]
<1>1. Total(f, S) = Total(f, S \ {x}) + f[x] /\ Total(f, S) \in Nat
  BY TotalSplit
<1>2. Total(g, S) = Total(g, S \ {x}) + g[x] /\ Total(g, S) \in Nat
  BY TotalSplit
<1>3. Total(f, S \ {x}) = Total(g, S \ {x}) /\ Total(f, S \ {x}) \in Nat
  BY TotalEq, TotalSplit
<1> QED BY <1>1, <1>2, <1>3

\* The sum of equal summands, and the empty sum.
LEMMA TotalConst ==
  ASSUME NEW S, IsFiniteSet(S), NEW n \in Nat, NEW f, \A x \in S : f[x] = n
  PROVE  Total(f, S) = Cardinality(S) * n
<1>1. Units(f, S) = S \X (1 .. n)
  BY DEF Units
<1>2. IsFiniteSet(1 .. n) /\ Cardinality(1 .. n) = n
  BY FS_Interval
<1> QED BY <1>1, <1>2, FS_Product DEF Total

LEMMA TotalEmpty == \A f : Total(f, {}) = 0
<1>1. \A f : Units(f, {}) = {}
  BY DEF Units
<1> QED BY <1>1, FS_EmptySet DEF Total

-----------------------------------------------------------------------------
(* Locks: what is locked for an account is the value held for it.          *)

LEMMA CarriedType ==
  ASSUME TypeOK
  PROVE  \A id \in Id : /\ Carried[id] \in Nat
                        /\ Sent(id) => Carried[id] = sent[id].value
  BY TransferType DEF Carried

\* The value of a set of messages, with one of them set apart.
LEMMA ValueOfSplit ==
  ASSUME TypeOK, NEW ids \in SUBSET Id, NEW id \in ids, Sent(id)
  PROVE  /\ ValueOf(ids) = ValueOf(ids \ {id}) + sent[id].value
         /\ ValueOf(ids) \in Nat /\ ValueOf(ids \ {id}) \in Nat
<1>1. IsFiniteSet(ids)
  BY FiniteAssumption, FS_Subset
<1>2. \A i \in ids : Carried[i] \in Nat
  BY CarriedType
<1>3. Carried[id] = sent[id].value
  BY CarriedType
<1> QED BY <1>1, <1>2, <1>3, TotalSplit DEF ValueOf

LEMMA ValueOfType ==
  ASSUME TypeOK, NEW ids \in SUBSET Id
  PROVE  ValueOf(ids) \in Nat
<1>1. IsFiniteSet(ids)
  BY FiniteAssumption, FS_Subset
<1> QED BY <1>1, CarriedType, UnitsFinite DEF ValueOf

\* A step that moves no lock and takes nothing from the token contract.
LEMMA LocksStay ==
  ASSUME LocksAreBacked, TypeOK, TypeOK', locked' = locked,
         \A c \in Chain : bal'[c][Token] >= bal[c][Token],
         \A c \in Chain, a \in Account : Held(c, a)' = Held(c, a),
         \A id \in Id : Sent(id) => sent'[id] = sent[id]
  PROVE  LocksAreBacked'
<1> SUFFICES ASSUME NEW c \in Chain
             PROVE  /\ \A a \in Account : locked'[c][a] = Total(Carried', Held(c, a)')
                    /\ bal'[c][Token] >= Total(locked'[c], Account)
  BY DEF LocksAreBacked, ValueOf
<1>1. ASSUME NEW a \in Account
      PROVE  locked'[c][a] = Total(Carried', Held(c, a)')
  <2>1. \A id \in Held(c, a) : Carried'[id] = Carried[id]
    <3> SUFFICES ASSUME NEW id \in Held(c, a)
                 PROVE  Carried'[id] = Carried[id]
      OBVIOUS
    <3>1. id \in Id /\ Sent(id) /\ Sent(id)'
      BY DEF Held, Sent
    <3> QED BY <3>1 DEF Carried
  <2>2. Total(Carried', Held(c, a)) = Total(Carried, Held(c, a))
    BY <2>1, TotalEq
  <2>3. locked[c][a] = Total(Carried, Held(c, a))
    BY DEF LocksAreBacked, ValueOf
  <2> QED BY <2>2, <2>3
<1>2. /\ bal[c][Token] \in Nat /\ bal'[c][Token] \in Nat /\ Total(locked[c], Account) \in Nat
      /\ bal[c][Token] >= Total(locked[c], Account)
  <2>1. \A a \in Account : locked[c][a] \in Nat
    BY DEF TypeOK, Holder
  <2>2. Total(locked[c], Account) \in Nat
    BY <2>1, FiniteAssumption, UnitsFinite
  <2> QED BY <2>2 DEF TypeOK, Holder, LocksAreBacked
<1>3. bal'[c][Token] >= Total(locked'[c], Account)
  BY <1>2
<1> QED BY <1>1, <1>3

\* What a step that touches one account does to the sum of a chain's locks.
LEMMA LockTotal ==
  ASSUME TypeOK, TypeOK', NEW c \in Chain, NEW to \in Account,
         \A a \in Account : a # to => locked'[c][a] = locked[c][a]
  PROVE  /\ Total(locked[c], Account) \in Nat /\ Total(locked'[c], Account) \in Nat
         /\ Total(locked'[c], Account) + locked[c][to] = Total(locked[c], Account) + locked'[c][to]
<1>1. PICK f : f = locked[c]
  OBVIOUS
<1>2. PICK g : g = locked'[c]
  OBVIOUS
<1>3. \A a \in Account : f[a] \in Nat /\ g[a] \in Nat
  BY <1>1, <1>2 DEF TypeOK, Holder
<1>4. \A a \in Account \ {to} : g[a] = f[a]
  BY <1>1, <1>2
<1>5. IsFiniteSet(Account)
  BY FiniteAssumption
<1>6. /\ Total(f, Account) \in Nat /\ Total(g, Account) \in Nat
      /\ Total(g, Account) + f[to] = Total(f, Account) + g[to]
  BY <1>3, <1>4, <1>5, TotalChange
<1> QED BY <1>1, <1>2, <1>6

\* A step that locks the value of one message for its recipient.
LEMMA LockTaken ==
  ASSUME LocksAreBacked, TypeOK, TypeOK', sent' = sent,
         NEW id \in Id, Sent(id), NEW d \in Chain, NEW to \in Account, NEW v \in Nat,
         d = sent[id].dst, to = sent[id].to, v = sent[id].value,
         id \notin Held(d, to),
         \A c \in Chain, a \in Account : Held(c, a)' =
            IF c = d /\ a = to THEN Held(c, a) \cup {id} ELSE Held(c, a),
         \A c \in Chain, a \in Account : locked'[c][a] =
            IF c = d /\ a = to THEN locked[c][a] + v ELSE locked[c][a],
         \A c \in Chain : bal'[c][Token] =
            IF c = d THEN bal[c][Token] + v ELSE bal[c][Token]
  PROVE  LocksAreBacked'
<1> SUFFICES ASSUME NEW c \in Chain
             PROVE  /\ \A a \in Account : locked'[c][a] = Total(Carried', Held(c, a)')
                    /\ bal'[c][Token] >= Total(locked'[c], Account)
  BY DEF LocksAreBacked, ValueOf
<1>1. Carried' = Carried
  BY DEF Carried, Sent
<1>2. v \in Nat /\ d \in Chain /\ to \in Account
  OBVIOUS
<1>3. \A a \in Account : /\ locked[c][a] \in Nat /\ locked'[c][a] \in Nat
                         /\ locked[c][a] = Total(Carried, Held(c, a))
  BY DEF TypeOK, Holder, LocksAreBacked, ValueOf
<1>4. \A a \in Account : locked'[c][a] = IF c = d /\ a = to THEN locked[c][a] + v
                                         ELSE locked[c][a]
  BY <1>2 DEF TypeOK, Holder
<1>5. ASSUME NEW a \in Account
      PROVE  locked'[c][a] = Total(Carried', Held(c, a)')
  <2>1. CASE c = d /\ a = to
    <3> DEFINE H == Held(c, a) \cup {id}
    <3>1. H \in SUBSET Id /\ H \ {id} = Held(c, a)
      BY <2>1 DEF Held
    <3>2. ValueOf(H) = ValueOf(Held(c, a)) + v
      <4> HIDE DEF H
      <4> QED BY <3>1, ValueOfSplit DEF H
    <3>3. Held(c, a)' = H
      BY <2>1
    <3> QED BY <1>1, <1>3, <1>4, <2>1, <3>2, <3>3 DEF ValueOf
  <2>2. CASE ~(c = d /\ a = to)
    <3>1. Held(c, a)' = Held(c, a) /\ locked'[c][a] = locked[c][a]
      BY <1>4, <2>2
    <3> QED BY <1>1, <1>3, <3>1
  <2> QED BY <2>1, <2>2
<1>6. bal[c][Token] >= Total(locked[c], Account) /\ bal[c][Token] \in Nat
  BY DEF LocksAreBacked, TypeOK, Holder
<1>7. CASE c = d
  <2>1. /\ Total(locked[c], Account) \in Nat /\ Total(locked'[c], Account) \in Nat
        /\ Total(locked'[c], Account) + locked[c][to] = Total(locked[c], Account) + locked'[c][to]
    BY <1>2, <1>4, <1>7, LockTotal
  <2>2. Total(locked'[c], Account) = Total(locked[c], Account) + v
    BY <1>2, <1>3, <1>4, <1>7, <2>1
  <2>3. bal'[c][Token] = bal[c][Token] + v
    BY <1>7 DEF TypeOK, Holder
  <2> QED BY <1>2, <1>5, <1>6, <2>1, <2>2, <2>3
<1>8. CASE c # d
  <2>1. Total(locked'[c], Account) = Total(locked[c], Account)
    BY <1>4, <1>8, TotalEq
  <2>2. bal'[c][Token] = bal[c][Token]
    BY <1>8 DEF TypeOK
  <2> QED BY <1>5, <1>6, <2>1, <2>2
<1> QED BY <1>7, <1>8

\* A step that releases the lock of one message.
LEMMA LockReleased ==
  ASSUME LocksAreBacked, TypeOK, TypeOK', sent' = sent,
         NEW id \in Id, Sent(id), NEW d \in Chain, NEW to \in Account, NEW v \in Nat,
         d = sent[id].dst, to = sent[id].to, v = sent[id].value,
         id \in Held(d, to),
         \A c \in Chain, a \in Account : Held(c, a)' =
            IF c = d /\ a = to THEN Held(c, a) \ {id} ELSE Held(c, a),
         locked[d][to] >= v,
         \A c \in Chain, a \in Account : locked'[c][a] =
            IF c = d /\ a = to THEN locked[c][a] - v ELSE locked[c][a],
         \A c \in Chain : bal'[c][Token] =
            IF c = d THEN bal[c][Token] - v ELSE bal[c][Token]
  PROVE  LocksAreBacked'
<1> SUFFICES ASSUME NEW c \in Chain
             PROVE  /\ \A a \in Account : locked'[c][a] = Total(Carried', Held(c, a)')
                    /\ bal'[c][Token] >= Total(locked'[c], Account)
  BY DEF LocksAreBacked, ValueOf
<1>1. Carried' = Carried
  BY DEF Carried, Sent
<1>2. v \in Nat /\ d \in Chain /\ to \in Account
  OBVIOUS
<1>3. \A a \in Account : /\ locked[c][a] \in Nat /\ locked'[c][a] \in Nat
                         /\ locked[c][a] = Total(Carried, Held(c, a))
  BY DEF TypeOK, Holder, LocksAreBacked, ValueOf
<1>4. \A a \in Account : locked'[c][a] = IF c = d /\ a = to THEN locked[c][a] - v
                                         ELSE locked[c][a]
  BY <1>2 DEF TypeOK, Holder
<1>5. ASSUME NEW a \in Account
      PROVE  locked'[c][a] = Total(Carried', Held(c, a)')
  <2>1. CASE c = d /\ a = to
    <3>1. Held(c, a) \in SUBSET Id /\ id \in Held(c, a)
      BY <2>1 DEF Held
    <3>2. /\ ValueOf(Held(c, a)) = ValueOf(Held(c, a) \ {id}) + v
          /\ ValueOf(Held(c, a) \ {id}) \in Nat
      BY <3>1, ValueOfSplit
    <3>3. Held(c, a)' = Held(c, a) \ {id}
      BY <2>1
    <3>4. locked'[c][a] = locked[c][a] - v
      BY <1>4, <2>1
    <3>5. locked[c][a] = ValueOf(Held(c, a))
      BY <1>3 DEF ValueOf
    <3>6. locked'[c][a] = ValueOf(Held(c, a) \ {id})
      BY <1>2, <3>2, <3>4, <3>5
    <3> QED BY <1>1, <3>3, <3>6 DEF ValueOf
  <2>2. CASE ~(c = d /\ a = to)
    <3>1. Held(c, a)' = Held(c, a) /\ locked'[c][a] = locked[c][a]
      BY <1>4, <2>2
    <3> QED BY <1>1, <1>3, <3>1
  <2> QED BY <2>1, <2>2
<1>6. bal[c][Token] >= Total(locked[c], Account) /\ bal[c][Token] \in Nat
  BY DEF LocksAreBacked, TypeOK, Holder
<1>7. CASE c = d
  <2>1. /\ Total(locked[c], Account) \in Nat /\ Total(locked'[c], Account) \in Nat
        /\ Total(locked'[c], Account) + locked[c][to] = Total(locked[c], Account) + locked'[c][to]
    BY <1>2, <1>4, <1>7, LockTotal
  <2>2. Total(locked'[c], Account) = Total(locked[c], Account) - v
    BY <1>2, <1>3, <1>4, <1>7, <2>1
  <2>3. bal'[c][Token] = bal[c][Token] - v
    BY <1>7
  <2> QED BY <1>2, <1>5, <1>6, <2>1, <2>2, <2>3
<1>8. CASE c # d
  <2>1. Total(locked'[c], Account) = Total(locked[c], Account)
    BY <1>4, <1>8, TotalEq
  <2> QED BY <1>5, <1>6, <1>8, <2>1
<1> QED BY <1>7, <1>8

LEMMA BackInit == Init => LocksAreBacked /\ LockDiscipline
<1> SUFFICES ASSUME Init
             PROVE  LocksAreBacked /\ LockDiscipline
  OBVIOUS
<1>1. LockDiscipline
  BY DEF Init, LockDiscipline, Done, Holder
<1>2. ASSUME NEW c \in Chain
      PROVE  /\ \A a \in Account : locked[c][a] = ValueOf(Held(c, a))
             /\ bal[c][Token] >= Total(locked[c], Account)
  <2>1. \A a \in Account : Held(c, a) = {} /\ locked[c][a] = 0
    BY DEF Init, Held, Sent, Holder
  <2>2. bal[c][Token] = 0
    BY DEF Init, Holder
  <2>3. Total(locked[c], Account) = Cardinality(Account) * 0
    BY <2>1, FiniteAssumption, TotalConst
  <2>4. Total(locked[c], Account) = 0
    BY <2>3, FiniteAssumption, FS_CardinalityType
  <2> QED BY <2>1, <2>2, <2>4, TotalEmpty DEF ValueOf
<1> QED BY <1>1, <1>2 DEF LocksAreBacked

LEMMA Positive == \A v \in Amount : v \in Nat /\ v > 0
<1>1. \A n \in Nat \ {0} : n > 0
  OBVIOUS
<1> QED BY <1>1, AmountAssumption

\* An id runs its unlock or its burn only once, and never both.
LEMMA LegsExclude ==
  ASSUME SafetyInv, NEW id \in Id
  PROVE  /\ Row(id, "Executed") => ~Done("burn", id)
         /\ Row(id, "Reverted") => ~Done("unlock", id)
  BY DEF SafetyInv, TypeOK, VerdictBeforeLeg, OneStatusRow, Row, Terminal, Delivered

LEMMA DisciplineNext ==
  ASSUME SafetyInv, LockDiscipline, [Next]_vars
  PROVE  LockDiscipline'
<1>0. TypeOK /\ KnownIds
  BY DEF SafetyInv
<1>1. ASSUME NEW id \in Id, ReceiveTeleportAtomic(id)
      PROVE  LockDiscipline'
  <2>1. executed' = executed \cup {<<"receive", id>>} /\ Sent(id)
    BY <1>0, <1>1 DEF ReceiveTeleportAtomic, RunLeg, KnownIds
  <2>2. \A c \in Chain : locked'[c][Token] = locked[c][Token]
    BY <1>0, <1>1, <2>1, TransferType DEF ReceiveTeleportAtomic, TypeOK, Holder
  <2> QED BY <2>1, <2>2 DEF LockDiscipline, Done
<1>2. ASSUME NEW id \in Id, Unlock(id)
      PROVE  LockDiscipline'
  <2>1. executed' = executed \cup {<<"unlock", id>>} /\ Done("receive", id) /\ Sent(id)
    BY <1>0, <1>2 DEF Unlock, RunLeg, KnownIds, Leg
  <2>2. \A c \in Chain : locked'[c][Token] = locked[c][Token]
    <3>1. CASE sent[id].to = Token
      BY <1>2, <3>1 DEF Unlock
    <3>2. CASE sent[id].to # Token
      <4>1. locked' = [locked EXCEPT ![sent[id].dst][sent[id].to] = @ - sent[id].value]
        BY <1>2, <3>2 DEF Unlock
      <4> QED BY <1>0, <3>2, <4>1 DEF TypeOK, Holder
    <3> QED BY <3>1, <3>2
  <2> QED BY <2>1, <2>2 DEF LockDiscipline, Done
<1>3. ASSUME NEW id \in Id, RevertTeleportBurn(id)
      PROVE  LockDiscipline'
  <2> DEFINE t == sent[id]
  <2>1. executed' = executed \cup {<<"burn", id>>} /\ Done("receive", id) /\ Sent(id)
    BY <1>0, <1>3 DEF RevertTeleportBurn, RunLeg, KnownIds, Leg
  <2>2. t.to # Token
    <3>1. sent[id] \in Transfer
      BY <1>0, <2>1, TransferType
    <3>3. t.dst \in Chain /\ t.value \in Amount
      BY <3>1 DEF Transfer
    <3>4. t.value > 0
      BY <3>3, Positive
    <3>2. locked[t.dst][t.to] >= t.value /\ t.value \in Nat
      BY <1>0, <1>3, <2>1, TransferType DEF RevertTeleportBurn
    <3> QED BY <3>2, <3>3, <3>4 DEF LockDiscipline
  <2>3. \A c \in Chain : locked'[c][Token] = locked[c][Token]
    BY <1>0, <1>3, <2>1, <2>2, TransferType DEF RevertTeleportBurn, TypeOK, Holder
  <2> QED BY <2>1, <2>3 DEF LockDiscipline, Done
<1>4. ASSUME NEW id \in Id, RevertTeleportMint(id)
      PROVE  LockDiscipline'
  BY <1>4 DEF RevertTeleportMint, RunLeg, LockDiscipline, Done
<1>5. CASE UNCHANGED <<locked, executed>>
  BY <1>5 DEF LockDiscipline, Done
<1> QED
  BY <1>1, <1>2, <1>3, <1>4, <1>5
  DEF Next, vars, TeleportAtomic, StoreBatch, ExecuteAtomicMessageBatch,
      RevertAtomicMessageBatch, Finish, Freeze, Unfreeze

LEMMA BackNext ==
  ASSUME SafetyInv, TypeOK', LockDiscipline, LocksAreBacked, [Next]_vars
  PROVE  LocksAreBacked'
<1>0. TypeOK /\ KnownIds
  BY DEF SafetyInv
<1>t. ASSUME NEW id \in Id, Sent(id)
      PROVE  /\ sent[id].dst \in Chain /\ sent[id].src \in Chain
             /\ sent[id].to \in Holder /\ sent[id].from \in Account /\ sent[id].from # Token
             /\ sent[id].value \in Nat /\ sent[id].value > 0
             /\ Token \notin Account /\ (sent[id].to # Token => sent[id].to \in Account)
  <2>1. sent[id] \in Transfer
    BY <1>0, <1>t, TransferType
  <2>2. /\ sent[id].dst \in Chain /\ sent[id].src \in Chain
        /\ sent[id].to \in Holder /\ sent[id].from \in Account /\ sent[id].value \in Amount
    BY <2>1 DEF Transfer
  <2>3. sent[id].value \in Nat /\ sent[id].value > 0
    BY <2>2, Positive
  <2> QED BY <2>2, <2>3, TokenAssumption DEF Holder
<1>1. ASSUME NEW id \in Id, NEW t \in Transfer, TeleportAtomic(id, t)
      PROVE  LocksAreBacked'
  <2>1. ~Done("receive", id) /\ sent' = [sent EXCEPT ![id] = t] /\ executed' = executed
    BY <1>0, <1>1 DEF KnownIds, TeleportAtomic, Leg
  <2>2. \A i \in Id : i # id => sent'[i] = sent[i]
    BY <1>0, <2>1 DEF TypeOK
  <2>3. \A c \in Chain, a \in Account : Held(c, a)' = Held(c, a)
    BY <2>1, <2>2 DEF Held, Sent, Done
  <2>4. \A c \in Chain : bal'[c][Token] = bal[c][Token]
    BY <1>0, <1>1, TokenAssumption DEF TeleportAtomic, TypeOK, Holder, Transfer
  <2>5. \A c \in Chain : bal[c][Token] \in Nat
    BY <1>0 DEF TypeOK, Holder
  <2>6. \A i \in Id : Sent(i) => sent'[i] = sent[i]
    BY <1>1, <2>2 DEF TeleportAtomic
  <2>7. locked' = locked
    BY <1>1 DEF TeleportAtomic
  <2> QED BY <1>0, <2>3, <2>4, <2>5, <2>6, <2>7, LocksStay
<1>2. ASSUME NEW id \in Id, ReceiveTeleportAtomic(id)
      PROVE  LocksAreBacked'
  <2>0. PICK t : t = sent[id]
    OBVIOUS
  <2>1. /\ executed' = executed \cup {<<"receive", id>>} /\ Sent(id) /\ sent' = sent
        /\ ~Done("receive", id) /\ bal' = [bal EXCEPT ![t.dst][Token] = @ + t.value]
    BY <2>0, <1>0, <1>2 DEF ReceiveTeleportAtomic, RunLeg, KnownIds
  <2>2. ~Done("unlock", id) /\ ~Done("burn", id)
    BY <2>0, <2>1 DEF LockDiscipline
  <2>3. CASE t.to = Token
    <3>1. \A c \in Chain, a \in Account : Held(c, a)' = Held(c, a)
      BY <2>0, <1>t, <2>1, <2>3 DEF Held, Sent, Done
    <3>2. \A c \in Chain : bal'[c][Token] >= bal[c][Token]
      BY <2>0, <1>0, <1>t, <2>1 DEF TypeOK, Holder
    <3>3. locked' = locked
      BY <2>0, <1>2, <2>3 DEF ReceiveTeleportAtomic
    <3> QED BY <2>0, <1>0, <2>1, <3>1, <3>2, <3>3, LocksStay
  <2>4. CASE t.to # Token
    <3>1. id \notin Held(t.dst, t.to)
      BY <2>0, <2>1 DEF Held
    <3>2. \A c \in Chain, a \in Account : Held(c, a)' =
            IF c = t.dst /\ a = t.to THEN Held(c, a) \cup {id} ELSE Held(c, a)
      BY <2>0, <2>1, <2>2 DEF Held, Sent, Done
    <3>4. t.to \in Account /\ t.dst \in Chain /\ t.value \in Nat
      BY <2>0, <1>t, <2>1, <2>4
    <3>3. locked' = [locked EXCEPT ![t.dst][t.to] = @ + t.value]
      BY <2>0, <1>2, <2>4 DEF ReceiveTeleportAtomic
    <3>5. \A c \in Chain, a \in Account : locked'[c][a] =
            IF c = t.dst /\ a = t.to THEN locked[c][a] + t.value ELSE locked[c][a]
      BY <1>0, <3>3, <3>4 DEF TypeOK, Holder
    <3>6. \A c \in Chain : bal'[c][Token] =
            IF c = t.dst THEN bal[c][Token] + t.value ELSE bal[c][Token]
      BY <1>0, <2>1, <3>4 DEF TypeOK, Holder
    <3> QED BY <2>0, <1>0, <2>1, <3>1, <3>2, <3>4, <3>5, <3>6, LockTaken
  <2> QED BY <2>3, <2>4
<1>3. ASSUME NEW id \in Id, Unlock(id)
      PROVE  LocksAreBacked'
  <2>0. PICK t : t = sent[id]
    OBVIOUS
  <2>1. /\ executed' = executed \cup {<<"unlock", id>>} /\ Sent(id) /\ sent' = sent
        /\ Done("receive", id) /\ ~Done("unlock", id) /\ ~Done("burn", id)
    BY <2>0, <1>0, <1>3, LegsExclude DEF Unlock, RunLeg, KnownIds, Leg
  <2>3. CASE t.to = Token
    <3>1. \A c \in Chain, a \in Account : Held(c, a)' = Held(c, a)
      BY <2>0, <1>t, <2>1, <2>3 DEF Held, Sent, Done
    <3>2. \A c \in Chain : bal'[c][Token] >= bal[c][Token]
      BY <2>0, <1>0, <1>3, <2>3 DEF Unlock, TypeOK, Holder
    <3>3. locked' = locked
      BY <2>0, <1>3, <2>3 DEF Unlock
    <3> QED BY <2>0, <1>0, <2>1, <3>1, <3>2, <3>3, LocksStay
  <2>4. CASE t.to # Token
    <3>1. id \in Held(t.dst, t.to)
      BY <2>0, <2>1 DEF Held
    <3>2. \A c \in Chain, a \in Account : Held(c, a)' =
            IF c = t.dst /\ a = t.to THEN Held(c, a) \ {id} ELSE Held(c, a)
      BY <2>0, <2>1 DEF Held, Sent, Done
    <3>3. /\ locked[t.dst][t.to] >= t.value
          /\ locked' = [locked EXCEPT ![t.dst][t.to] = @ - t.value]
      BY <2>0, <1>3, <2>4 DEF Unlock
    <3>4. t.to \in Account /\ t.dst \in Chain /\ t.value \in Nat
      BY <2>0, <1>t, <2>1, <2>4
    <3>6. \A c \in Chain, a \in Account : locked'[c][a] =
            IF c = t.dst /\ a = t.to THEN locked[c][a] - t.value ELSE locked[c][a]
      BY <1>0, <3>3, <3>4 DEF TypeOK, Holder
    <3>5. \A c \in Chain : bal'[c][Token] =
             IF c = t.dst THEN bal[c][Token] - t.value ELSE bal[c][Token]
      BY <2>0, <1>0, <1>3, <1>t, <2>1, <2>4 DEF Unlock, TypeOK, Holder
    <3> QED BY <2>0, <1>0, <2>1, <3>1, <3>2, <3>3, <3>4, <3>5, <3>6, LockReleased
  <2> QED BY <2>3, <2>4
<1>4. ASSUME NEW id \in Id, RevertTeleportBurn(id)
      PROVE  LocksAreBacked'
  <2>0. PICK t : t = sent[id]
    OBVIOUS
  <2>1. /\ executed' = executed \cup {<<"burn", id>>} /\ Sent(id) /\ sent' = sent
        /\ Done("receive", id) /\ ~Done("unlock", id) /\ ~Done("burn", id)
    BY <2>0, <1>0, <1>4, LegsExclude DEF RevertTeleportBurn, RunLeg, KnownIds, Leg
  <2>2. /\ locked[t.dst][t.to] >= t.value
        /\ locked' = [locked EXCEPT ![t.dst][t.to] = @ - t.value]
        /\ bal' = [bal EXCEPT ![t.dst][Token] = @ - t.value]
    BY <2>0, <1>4 DEF RevertTeleportBurn
  <2>3. t.to \in Account /\ t.dst \in Chain /\ t.value \in Nat
    <3>1. t.dst \in Chain /\ t.value \in Nat /\ t.value > 0
      BY <2>0, <1>t, <2>1
    <3>2. t.to # Token
      BY <2>0, <2>2, <3>1 DEF LockDiscipline
    <3> QED BY <2>0, <1>t, <2>1, <3>2
  <2>4. id \in Held(t.dst, t.to)
    BY <2>0, <2>1 DEF Held
  <2>5. \A c \in Chain, a \in Account : Held(c, a)' =
          IF c = t.dst /\ a = t.to THEN Held(c, a) \ {id} ELSE Held(c, a)
    BY <2>0, <2>1 DEF Held, Sent, Done
  <2>6. \A c \in Chain : bal'[c][Token] =
          IF c = t.dst THEN bal[c][Token] - t.value ELSE bal[c][Token]
    BY <2>0, <1>0, <2>2 DEF TypeOK, Holder
  <2>7. \A c \in Chain, a \in Account : locked'[c][a] =
          IF c = t.dst /\ a = t.to THEN locked[c][a] - t.value ELSE locked[c][a]
    BY <1>0, <2>2, <2>3 DEF TypeOK, Holder
  <2> QED BY <2>0, <1>0, <2>1, <2>2, <2>3, <2>4, <2>5, <2>6, <2>7, LockReleased
<1>5. ASSUME NEW id \in Id, RevertTeleportMint(id)
      PROVE  LocksAreBacked'
  <2>1. /\ executed' = executed \cup {<<"mint", id>>} /\ sent' = sent /\ locked' = locked
        /\ Sent(id)
    BY <1>0, <1>5 DEF RevertTeleportMint, RunLeg, KnownIds, Finished, Terminal
  <2>2. \A c \in Chain, a \in Account : Held(c, a)' = Held(c, a)
    BY <2>1 DEF Held, Sent, Done
  <2>3. \A c \in Chain : bal'[c][Token] = bal[c][Token] /\ bal[c][Token] \in Nat
    BY <1>0, <1>5, <1>t, <2>1 DEF RevertTeleportMint, TypeOK, Holder
  <2> QED BY <1>0, <2>1, <2>2, <2>3, LocksStay
<1>6. CASE UNCHANGED <<bal, locked, sent, executed>>
  <2>1. \A c \in Chain, a \in Account : Held(c, a)' = Held(c, a)
    BY <1>6 DEF Held, Sent, Done
  <2>2. \A c \in Chain : bal'[c][Token] = bal[c][Token] /\ bal[c][Token] \in Nat
    BY <1>0, <1>6 DEF TypeOK, Holder
  <2> QED BY <1>0, <1>6, <2>1, <2>2, LocksStay
<1> QED
  BY <1>1, <1>2, <1>3, <1>4, <1>5, <1>6
  DEF Next, vars, StoreBatch, ExecuteAtomicMessageBatch, RevertAtomicMessageBatch,
      Finish, Freeze, Unfreeze

\* Every lock is exactly the value held for its account and is backed by the
\* tokens of the token contract, on every chain.
THEOREM LocksBacked ==
  ASSUME ~StoreRetry
  PROVE  Spec => [](LocksAreBacked /\ LockDiscipline)
<1>1. Init => LocksAreBacked /\ LockDiscipline
  BY BackInit
<1>2. /\ SafetyInv /\ SafetyInv' /\ LocksAreBacked /\ LockDiscipline /\ [Next]_vars
      => LocksAreBacked' /\ LockDiscipline'
  <2> SUFFICES ASSUME SafetyInv, SafetyInv', LocksAreBacked, LockDiscipline, [Next]_vars
               PROVE  LocksAreBacked' /\ LockDiscipline'
    OBVIOUS
  <2>1. TypeOK'
    BY DEF SafetyInv
  <2> QED BY <2>1, DisciplineNext, BackNext
<1> QED BY <1>1, <1>2, Safety, PTL DEF Spec

\* No unlock and no burn that is owed for an account is refused for want of
\* locked amount or of tokens: the two conditions of _unlock hold whenever the
\* executor may run the leg.
Owed(id) == /\ Sent(id) /\ sent[id].to # Token
            /\ Done("receive", id) /\ ~Done("unlock", id) /\ ~Done("burn", id)
Pass(id) == /\ locked[sent[id].dst][sent[id].to] >= sent[id].value
            /\ bal[sent[id].dst][Token] >= sent[id].value
OwedLegsPass == \A id \in Id : Owed(id) => Pass(id)

THEOREM LegsAreNeverRefused ==
  ASSUME ~StoreRetry
  PROVE  Spec => []OwedLegsPass
<1>1. SafetyInv /\ LocksAreBacked => OwedLegsPass
  <2> SUFFICES ASSUME SafetyInv, LocksAreBacked, NEW id \in Id, Owed(id)
               PROVE  Pass(id)
    BY DEF OwedLegsPass
  <2>0. TypeOK
    BY DEF SafetyInv
  <2>1. PICK c, a : c = sent[id].dst /\ a = sent[id].to
    OBVIOUS
  <2>2. /\ sent[id].value \in Nat /\ c \in Chain /\ a \in Holder /\ a # Token
    BY <2>0, <2>1, TransferType DEF Owed
  <2>3. a \in Account
    BY <2>2 DEF Holder
  <2>4. id \in Held(c, a) /\ Held(c, a) \in SUBSET Id
    BY <2>1 DEF Held, Owed
  <2>5. /\ ValueOf(Held(c, a)) = ValueOf(Held(c, a) \ {id}) + sent[id].value
        /\ ValueOf(Held(c, a) \ {id}) \in Nat
    BY <2>0, <2>4, ValueOfSplit DEF Owed
  <2>6. locked[c][a] >= sent[id].value
    BY <2>2, <2>3, <2>5 DEF LocksAreBacked
  <2>7. \A b \in Account : locked[c][b] \in Nat
    BY <2>0, <2>2 DEF TypeOK, Holder
  <2>8. /\ Total(locked[c], Account) = Total(locked[c], Account \ {a}) + locked[c][a]
        /\ Total(locked[c], Account \ {a}) \in Nat
    BY <2>3, <2>7, FiniteAssumption, TotalSplit
  <2>9. bal[c][Token] >= Total(locked[c], Account) /\ bal[c][Token] \in Nat
    BY <2>0, <2>2 DEF LocksAreBacked, TypeOK, Holder
  <2>10. bal[c][Token] >= sent[id].value
    BY <2>2, <2>3, <2>6, <2>7, <2>8, <2>9
  <2> QED BY <2>1, <2>6, <2>10 DEF Pass
<1> QED BY <1>1, Safety, LocksBacked, PTL

-----------------------------------------------------------------------------
(* Value: what users can spend and what is in flight add up.               *)

LEMMA WalletsFinite == IsFiniteSet(Wallets) /\ Cardinality(Wallets) = Cardinality(Chain) * Cardinality(Account)
  BY FiniteAssumption, FS_Product DEF Wallets

\* A step that touches one wallet.
LEMMA SpendableChange ==
  ASSUME TypeOK, TypeOK', NEW c \in Chain, NEW a \in Account,
         \A d \in Chain, b \in Account : d # c \/ b # a => bal'[d][b] = bal[d][b]
  PROVE  /\ Spendable \in Nat /\ Spendable' \in Nat
         /\ Spendable' + bal[c][a] = Spendable + bal'[c][a]
<1>1. PICK f : f = [w \in Wallets |-> bal[w[1]][w[2]]]
  OBVIOUS
<1>2. PICK g : g = [w \in Wallets |-> bal'[w[1]][w[2]]]
  OBVIOUS
<1>3. \A w \in Wallets : f[w] \in Nat /\ g[w] \in Nat
  BY <1>1, <1>2 DEF TypeOK, Holder, Wallets
<1>4. PICK x \in Wallets : x = <<c, a>>
  BY DEF Wallets
<1>5. \A w \in Wallets \ {x} : g[w] = f[w]
  BY <1>1, <1>2, <1>4 DEF Wallets
<1>6. /\ Total(f, Wallets) \in Nat /\ Total(g, Wallets) \in Nat
      /\ Total(g, Wallets) + f[x] = Total(f, Wallets) + g[x]
  BY <1>3, <1>5, WalletsFinite, TotalChange
<1>7. f[x] = bal[c][a] /\ g[x] = bal'[c][a]
  BY <1>1, <1>2, <1>4
<1>8. Spendable = Total(f, Wallets) /\ Spendable' = Total(g, Wallets)
  BY <1>1, <1>2 DEF Spendable, Wallets
<1> QED BY <1>6, <1>7, <1>8

\* A step that touches no wallet.
LEMMA SpendableStays ==
  ASSUME \A d \in Chain, b \in Account : bal'[d][b] = bal[d][b]
  PROVE  Spendable' = Spendable
<1>1. [w \in Wallets |-> bal'[w[1]][w[2]]] = [w \in Wallets |-> bal[w[1]][w[2]]]
  BY DEF Wallets
<1> QED BY <1>1 DEF Spendable, Wallets

LEMMA SpendableType == TypeOK => Spendable \in Nat
<1> SUFFICES ASSUME TypeOK
             PROVE  Spendable \in Nat
  OBVIOUS
<1>1. PICK f : f = [w \in Wallets |-> bal[w[1]][w[2]]]
  OBVIOUS
<1>2. \A w \in Wallets : f[w] \in Nat
  BY <1>1 DEF TypeOK, Holder, Wallets
<1>3. Total(f, Wallets) \in Nat
  BY <1>2, WalletsFinite, UnitsFinite
<1> QED BY <1>1, <1>3 DEF Spendable

LEMMA ConservedInit == Init => ValueConserved
<1> SUFFICES ASSUME Init
             PROVE  ValueConserved
  OBVIOUS
<1>1. PICK f : f = [w \in Wallets |-> bal[w[1]][w[2]]]
  OBVIOUS
<1>2. \A w \in Wallets : f[w] = InitBalance
  BY <1>1, TokenAssumption DEF Init, Wallets, Holder
<1>3. Spendable = Cardinality(Wallets) * InitBalance
  BY <1>1, <1>2, WalletsFinite, InitBalanceAssumption, TotalConst DEF Spendable
<1>4. Flying = {} /\ PaidToToken = {}
  BY DEF Init, Flying, PaidToToken, InFlight, Sent, Delivered, Done
<1>5. ValueOf(Flying) = 0 /\ ValueOf(PaidToToken) = 0
  BY <1>4, TotalEmpty DEF ValueOf
<1>6. Spendable \in Nat
  BY TypeInit, SpendableType
<1> QED BY <1>3, <1>5, <1>6, WalletsFinite DEF ValueConserved

\* The messages of a set that a step neither adds to nor sends again.
LEMMA ValueOfStays ==
  ASSUME NEW ids \in SUBSET Id, \A i \in ids : Sent(i) /\ sent'[i] = sent[i]
  PROVE  Total(Carried', ids) = ValueOf(ids)
<1>1. \A i \in ids : Carried'[i] = Carried[i]
  BY DEF Carried, Sent
<1> QED BY <1>1, TotalEq DEF ValueOf

\* A message that leaves a set, or joins it, while no message is sent.
LEMMA ValueOfMoves ==
  ASSUME TypeOK, sent' = sent, NEW id \in Id, Sent(id), NEW small \in SUBSET Id,
         id \notin small
  PROVE  /\ Total(Carried', small \cup {id}) = Total(Carried', small) + sent[id].value
         /\ ValueOf(small \cup {id}) = ValueOf(small) + sent[id].value
         /\ Total(Carried', small) = ValueOf(small) /\ ValueOf(small) \in Nat
<1>1. Carried' = Carried
  BY DEF Carried, Sent
<1> DEFINE big == small \cup {id}
<1>2. big \in SUBSET Id /\ id \in big /\ big \ {id} = small
  OBVIOUS
<1>3. ValueOf(big) = ValueOf(small) + sent[id].value /\ ValueOf(small) \in Nat
  <2> HIDE DEF big
  <2> QED BY <1>2, ValueOfSplit
<1> QED BY <1>1, <1>3 DEF ValueOf

LEMMA ConservedNext ==
  ASSUME SafetyInv, SafetyInv', NeverBothPaid, NeverBothPaid', ValueConserved, [Next]_vars
  PROVE  ValueConserved'
<1> DEFINE there == Cardinality(Chain) * Cardinality(Account) * InitBalance
<1>0. TypeOK /\ TypeOK' /\ KnownIds
  BY DEF SafetyInv
<1>p. ASSUME NEW id \in Id
      PROVE  /\ id \in Flying => Sent(id)
             /\ id \in PaidToToken => Sent(id)
  BY <1>0 DEF Flying, PaidToToken, InFlight, KnownIds, Delivered, Leg
<1>n. /\ Spendable \in Nat /\ Spendable' \in Nat
      /\ ValueOf(Flying) \in Nat /\ ValueOf(PaidToToken) \in Nat
      /\ Flying \in SUBSET Id /\ PaidToToken \in SUBSET Id
      /\ Spendable + ValueOf(Flying) + ValueOf(PaidToToken) = there
  <2>1. Flying \in SUBSET Id /\ PaidToToken \in SUBSET Id
    BY DEF Flying, PaidToToken
  <2>2. Spendable \in Nat /\ ValueOf(Flying) \in Nat /\ ValueOf(PaidToToken) \in Nat
    BY <1>0, <2>1, SpendableType, ValueOfType
  <2>3. Spendable' \in Nat
    <3>1. PICK f : f = [w \in Wallets |-> bal'[w[1]][w[2]]]
      OBVIOUS
    <3>2. \A w \in Wallets : f[w] \in Nat
      BY <1>0, <3>1 DEF TypeOK, Holder, Wallets
    <3>3. Total(f, Wallets) \in Nat
      BY <3>2, WalletsFinite, UnitsFinite
    <3> QED BY <3>1, <3>3 DEF Spendable, Wallets
  <2> QED BY <2>1, <2>2, <2>3 DEF ValueConserved
<1> HIDE DEF there
<1>q. /\ Spendable' + Total(Carried', Flying') + Total(Carried', PaidToToken') = there
      => ValueConserved'
  BY DEF ValueConserved, ValueOf, there
<1>t. ASSUME NEW id \in Id, Sent(id)
      PROVE  /\ sent[id].dst \in Chain /\ sent[id].src \in Chain
             /\ sent[id].to \in Holder /\ sent[id].from \in Account
             /\ sent[id].value \in Nat
             /\ Token \notin Account /\ (sent[id].to # Token => sent[id].to \in Account)
  <2>1. sent[id] \in Transfer
    BY <1>0, <1>t, TransferType
  <2> QED BY <2>1, Positive, TokenAssumption DEF Transfer, Holder
<1>1. ASSUME NEW id \in Id, NEW t \in Transfer, TeleportAtomic(id, t)
      PROVE  ValueConserved'
  <2>1. /\ ~Sent(id) /\ sent' = [sent EXCEPT ![id] = t] /\ executed' = executed
        /\ ~Delivered(id) /\ ~Refunded(id)
    BY <1>0, <1>1 DEF KnownIds, TeleportAtomic, Delivered, Refunded, Leg
  <2>2. /\ \A i \in Id : i # id => sent'[i] = sent[i]
        /\ sent'[id] = t /\ Sent(id)'
    BY <1>0, <2>1, NoTransferAssumption DEF TypeOK, Sent
  <2>3. Flying' = Flying \cup {id} /\ id \notin Flying
    BY <2>1, <2>2 DEF Flying, InFlight, Sent, Delivered, Refunded, Done
  <2>4. PaidToToken' = PaidToToken /\ id \notin PaidToToken
    BY <2>1, <2>2 DEF PaidToToken, Sent, Delivered, Done
  <2>5. \A i \in Flying \cup PaidToToken : Sent(i) /\ sent'[i] = sent[i]
    BY <1>n, <1>p, <2>2, <2>3, <2>4
  <2>6. /\ Total(Carried', Flying) = ValueOf(Flying)
        /\ Total(Carried', PaidToToken) = ValueOf(PaidToToken)
    BY <1>n, <2>5, ValueOfStays
  <2>7. t.src \in Chain /\ t.from \in Account /\ t.value \in Nat
    BY Positive DEF Transfer
  <2>8. Total(Carried', Flying') = ValueOf(Flying) + t.value
    <3>1. PICK f : f = Carried'
      OBVIOUS
    <3>2. \A i \in Id : f[i] \in Nat
      BY <1>0, <3>1, Positive DEF Carried, TypeOK, Sent, Transfer
    <3>3. f[id] = t.value
      BY <2>2, <3>1 DEF Carried
    <3>4. IsFiniteSet(Flying') /\ Flying' \in SUBSET Id /\ id \in Flying' /\ Flying' \ {id} = Flying
      BY <1>n, <2>3, FiniteAssumption, FS_Subset
    <3>5. Total(f, Flying') = Total(f, Flying' \ {id}) + f[id]
      BY <3>2, <3>4, TotalSplit
    <3> QED BY <2>6, <3>1, <3>3, <3>4, <3>5
  <2>9. Spendable' + t.value = Spendable
    <3>1. /\ \A d \in Chain, b \in Account : d # t.src \/ b # t.from => bal'[d][b] = bal[d][b]
          /\ bal'[t.src][t.from] = bal[t.src][t.from] - t.value
          /\ bal[t.src][t.from] \in Nat
      BY <1>0, <1>1, <2>7 DEF TeleportAtomic, TypeOK, Holder
    <3>2. Spendable' + bal[t.src][t.from] = Spendable + bal'[t.src][t.from]
      BY <1>0, <2>7, <3>1, SpendableChange
    <3> QED BY <1>n, <2>7, <3>1, <3>2
  <2> QED BY <1>n, <1>q, <2>4, <2>6, <2>7, <2>8, <2>9
<1>2. ASSUME NEW id \in Id, Unlock(id)
      PROVE  ValueConserved'
  <2>0. PICK t : t = sent[id]
    OBVIOUS
  <2>1. /\ executed' = executed \cup {<<"unlock", id>>} /\ Sent(id) /\ sent' = sent
        /\ ~Delivered(id) /\ ~Refunded(id)
    <3>1. /\ executed' = executed \cup {<<"unlock", id>>} /\ Sent(id) /\ sent' = sent
          /\ ~Delivered(id)
      BY <1>0, <1>2 DEF Unlock, RunLeg, KnownIds, Leg, Delivered
    <3> QED BY <3>1 DEF NeverBothPaid, Delivered, Refunded, Done
  <2>2. PICK rest \in SUBSET Id : rest = Flying'
    BY DEF Flying
  <2>3. Flying = rest \cup {id} /\ id \notin rest
    BY <2>1, <2>2 DEF Flying, InFlight, Sent, Delivered, Refunded, Done
  <2>4. /\ ValueOf(Flying) = ValueOf(rest) + t.value /\ Total(Carried', Flying') = ValueOf(rest)
        /\ ValueOf(rest) \in Nat /\ t.value \in Nat
    BY <1>0, <1>t, <2>0, <2>1, <2>2, <2>3, ValueOfMoves
  <2>5. CASE t.to = Token
    <3>1. PaidToToken' = PaidToToken \cup {id} /\ id \notin PaidToToken
      BY <2>0, <2>1, <2>5 DEF PaidToToken, Delivered, Done
    <3>2. Total(Carried', PaidToToken') = ValueOf(PaidToToken) + t.value
      BY <1>0, <1>n, <2>0, <2>1, <3>1, ValueOfMoves
    <3>3. Spendable' = Spendable
      BY <1>2, <2>0, <2>5, SpendableStays DEF Unlock
    <3> QED BY <1>n, <1>q, <2>4, <3>2, <3>3
  <2>6. CASE t.to # Token
    <3>1. PaidToToken' = PaidToToken
      BY <2>0, <2>1, <2>6 DEF PaidToToken, Delivered, Done
    <3>2. Total(Carried', PaidToToken') = ValueOf(PaidToToken)
      BY <1>n, <1>p, <2>1, <3>1, ValueOfStays
    <3>3. t.dst \in Chain /\ t.to \in Account /\ Token \notin Account
      BY <1>t, <2>0, <2>1, <2>6
    <3>4. bal' = [bal EXCEPT ![t.dst][Token] = @ - t.value,
                             ![t.dst][t.to] = @ + t.value]
      BY <1>2, <2>0, <2>6 DEF Unlock
    <3>5. /\ \A d \in Chain, b \in Account : d # t.dst \/ b # t.to => bal'[d][b] = bal[d][b]
          /\ bal'[t.dst][t.to] = bal[t.dst][t.to] + t.value
          /\ bal[t.dst][t.to] \in Nat
      BY <1>0, <3>3, <3>4 DEF TypeOK, Holder
    <3>6. Spendable' + bal[t.dst][t.to] = Spendable + bal'[t.dst][t.to]
      BY <1>0, <3>3, <3>5, SpendableChange
    <3>7. Spendable' = Spendable + t.value
      BY <1>n, <2>4, <3>5, <3>6
    <3> QED BY <1>n, <1>q, <2>4, <3>2, <3>7
  <2> QED BY <2>5, <2>6
<1>3. ASSUME NEW id \in Id, RevertTeleportMint(id)
      PROVE  ValueConserved'
  <2>0. PICK t : t = sent[id]
    OBVIOUS
  <2>1. /\ executed' = executed \cup {<<"mint", id>>} /\ Sent(id) /\ sent' = sent
        /\ ~Delivered(id) /\ ~Refunded(id)
    <3>1. /\ executed' = executed \cup {<<"mint", id>>} /\ Sent(id) /\ sent' = sent
          /\ ~Refunded(id)
      BY <1>0, <1>3 DEF RevertTeleportMint, RunLeg, KnownIds, Finished, Terminal, Refunded
    <3> QED BY <3>1 DEF NeverBothPaid, Delivered, Refunded, Done
  <2>2. PICK rest \in SUBSET Id : rest = Flying'
    BY DEF Flying
  <2>3. Flying = rest \cup {id} /\ id \notin rest
    BY <2>1, <2>2 DEF Flying, InFlight, Sent, Delivered, Refunded, Done
  <2>4. /\ ValueOf(Flying) = ValueOf(rest) + t.value /\ Total(Carried', Flying') = ValueOf(rest)
        /\ ValueOf(rest) \in Nat /\ t.value \in Nat
    BY <1>0, <1>t, <2>0, <2>1, <2>2, <2>3, ValueOfMoves
  <2>5. PaidToToken' = PaidToToken
    BY <2>1 DEF PaidToToken, Delivered, Done
  <2>6. Total(Carried', PaidToToken') = ValueOf(PaidToToken)
    BY <1>n, <1>p, <2>1, <2>5, ValueOfStays
  <2>7. t.src \in Chain /\ t.from \in Account /\ Token \notin Account
    BY <1>t, <2>0, <2>1
  <2>8. /\ \A d \in Chain, b \in Account : d # t.src \/ b # t.from => bal'[d][b] = bal[d][b]
        /\ bal'[t.src][t.from] = bal[t.src][t.from] + t.value
        /\ bal[t.src][t.from] \in Nat
    BY <1>0, <1>3, <2>0, <2>7 DEF RevertTeleportMint, TypeOK, Holder
  <2>9. Spendable' + bal[t.src][t.from] = Spendable + bal'[t.src][t.from]
    BY <1>0, <2>7, <2>8, SpendableChange
  <2>10. Spendable' = Spendable + t.value
    BY <1>n, <2>4, <2>8, <2>9
  <2> QED BY <1>n, <1>q, <2>4, <2>6, <2>10
<1>4. ASSUME sent' = sent, Spendable' = Spendable,
             \A id \in Id : Delivered(id)' = Delivered(id) /\ Refunded(id)' = Refunded(id)
      PROVE  ValueConserved'
  <2>1. Flying' = Flying /\ PaidToToken' = PaidToToken
    BY <1>4 DEF Flying, PaidToToken, InFlight, Sent
  <2>2. /\ Total(Carried', Flying') = ValueOf(Flying)
        /\ Total(Carried', PaidToToken') = ValueOf(PaidToToken)
    BY <1>4, <1>n, <1>p, <2>1, ValueOfStays
  <2> QED BY <1>4, <1>n, <1>q, <2>2
<1>5. ASSUME NEW id \in Id, ReceiveTeleportAtomic(id) \/ RevertTeleportBurn(id)
      PROVE  ValueConserved'
  <2>1. PICK leg \in {"receive", "burn"} : executed' = executed \cup {<<leg, id>>}
    BY <1>5 DEF ReceiveTeleportAtomic, RevertTeleportBurn, RunLeg
  <2>2. sent' = sent /\ Sent(id)
    BY <1>0, <1>5 DEF ReceiveTeleportAtomic, RevertTeleportBurn, RunLeg, KnownIds, Leg
  <2>3. PICK n : bal' = [bal EXCEPT ![sent[id].dst][Token] = n]
    BY <1>5 DEF ReceiveTeleportAtomic, RevertTeleportBurn
  <2>4. \A c \in Chain, a \in Account : bal'[c][a] = bal[c][a]
    BY <1>0, <2>3, TokenAssumption DEF TypeOK, Holder
  <2> QED BY <1>4, <2>1, <2>2, <2>4, SpendableStays DEF Delivered, Refunded, Done
<1>6. CASE UNCHANGED <<bal, sent, executed>>
  BY <1>4, <1>6, SpendableStays DEF Delivered, Refunded, Done
<1> QED
  BY <1>1, <1>2, <1>3, <1>5, <1>6
  DEF Next, vars, StoreBatch, ExecuteAtomicMessageBatch, RevertAtomicMessageBatch,
      Finish, Freeze, Unfreeze

\* No order of the relayers' calls creates or loses value.
THEOREM ValueIsConserved ==
  ASSUME ~StoreRetry
  PROVE  Spec => []ValueConserved
<1>1. Init => ValueConserved
  BY ConservedInit
<1>2. /\ SafetyInv /\ SafetyInv' /\ NeverBothPaid /\ NeverBothPaid'
      /\ ValueConserved /\ [Next]_vars
      => ValueConserved'
  BY ConservedNext
<1> QED BY <1>1, <1>2, Safety, NoDoubleSpend, PTL DEF Spec
=============================================================================

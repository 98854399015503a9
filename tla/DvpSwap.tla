------------------------------- MODULE DvpSwap -------------------------------
(***************************************************************************)
(* Delivery versus payment on the hub.  Assets are deposited into coin     *)
(* vaults, each a Merkle tree of coin commitments with the nullifiers of   *)
(* the coins spent and a lock on the coins a pending swap holds.  The Dvp  *)
(* contract swaps coins of two vaults: the initiator's proof is stored and *)
(* its coins locked; the responder's proof completes the swap, or the      *)
(* initiator cancels it, or anyone expires it after its validity time.     *)
(*                                                                         *)
(* A proof receipt is data that a wallet makes off chain and submits when  *)
(* it likes; which receipts exist is a constant.  A valid receipt spends   *)
(* coins of one vault (ins) and names the commitments it creates: out for  *)
(* the other party, change for itself, and back, which replaces both when  *)
(* the swap fails.  message is the commitment it wants in exchange.  The   *)
(* zero-knowledge proof, the padding with dummy inputs and the numbering   *)
(* of a vault's trees are abstracted; a call that reverts is no step.      *)
(***************************************************************************)
EXTENDS Integers, FiniteSets, Totals

CONSTANTS
  Vault,        \* the coin vaults
  Coin,         \* the commitments
  NoCoin,       \* commitment 0
  Minted,       \* the coins that deposits create
  Home,         \* [Coin -> Vault]
  Value,        \* [Coin -> Nat]
  Receipt,      \* the proof receipts the wallets can make
  Opened,       \* the commitments whose opening a withdrawal can show
  GroupMember,  \* <<kind, vault>>: the vault is a member of the kind's group
  SharedId,     \* ids of swaps
  NoReceipt,    \* of an id without a swap
  Validity,     \* the validity times of swaps
  MaxTime       \* bound: the last instant, which every validity time ends by

Kind == {"Payment", "Delivery"}   \* SwapProofType

ProofReceipt ==
  [vault : Vault, kind : Kind, ins : SUBSET Coin, out : Coin,
   change : Coin \union {NoCoin}, back : Coin \union {NoCoin},
   message : Coin \union {NoCoin}]

\* The commitments a receipt creates if its coins change hands.
Leaves(r) == {r.out, r.change} \ {NoCoin}

\* All commitments a receipt names.
Fresh(r) == {r.out, r.change, r.back} \ {NoCoin}

\* A commitment is a field element and hides a random salt, so no two coins
\* share one.
ASSUME DvpAssumption ==
  /\ Receipt \subseteq ProofReceipt
  /\ Minted \subseteq Coin /\ Opened \subseteq Coin
  /\ NoCoin \notin Coin
  /\ IsFiniteSet(Coin)
  /\ NoReceipt \notin Receipt
  /\ Home \in [Coin -> Vault]
  /\ Validity \subseteq Nat
  /\ MaxTime \in Nat
  /\ \A r \in Receipt :
       /\ r.ins # {}
       /\ Fresh(r) \intersect Minted = {}
       /\ r.out # r.change /\ r.out # r.back
       /\ r.change = r.back => r.change = NoCoin
       /\ \A q \in Receipt : q # r => Fresh(q) \intersect Fresh(r) = {}

\* What a set of coins is worth.
Worth(C) == Total(Value, C)

\* What the proof of a receipt proves: its coins are of one vault and nothing
\* is created or lost.
ASSUME ProofAssumption ==
  /\ Value \in [Coin -> Nat]
  /\ \A r \in Receipt :
       /\ \A c \in r.ins \union Fresh(r) : Home[c] = r.vault
       /\ Worth(Leaves(r)) = Worth(r.ins)
       /\ r.back # NoCoin => Value[r.back] = Worth(r.ins)

\* A wallet makes the receipt of a swap for that swap: it names what it wants.
\* No vault knows: whoever has the receipt can submit it anywhere.
Offer == {r \in Receipt : r.message # NoCoin}

VARIABLES
  tree,       \* commitments in the vaults' trees
  nullified,  \* coins whose nullifier is set
  locked,     \* coins whose nullifier is locked
  status,     \* [SharedId -> SwapStatus]
  receipt,    \* [SharedId -> initiatorReceipt]
  expiresAt,  \* [SharedId -> time]
  now,        \* block.timestamp
  mixed,      \* history: receipts that a transfer executed
  withdrawn   \* history: receipts whose value has left the vaults

vars == <<tree, nullified, locked, status, receipt, expiresAt, now, mixed,
          withdrawn>>

SwapStatus == {"None", "Pending", "Completed", "Cancelled", "TimedOut"}

Init ==
  /\ tree = {} /\ nullified = {} /\ locked = {}
  /\ status = [s \in SharedId |-> "None"]
  /\ receipt = [s \in SharedId |-> NoReceipt]
  /\ expiresAt = [s \in SharedId |-> 0]
  /\ now = 0
  /\ mixed = {} /\ withdrawn = {}

-------------------------------------------------------------------------------
(* Vaults                                                                  *)

\* checkReceiptConditions: the inputs are in a tree and their nullifiers are
\* not set.  It does not look at locks.
Checked(r) == r.ins \subseteq tree /\ r.ins \intersect nullified = {}

\* deposit
Deposit(c) ==
  /\ c \in Minted \ tree
  /\ tree' = tree \union {c}
  /\ UNCHANGED <<nullified, locked, status, receipt, expiresAt, now, mixed,
                 withdrawn>>

\* transfer (mixFunds), of any receipt: nullifyFromReceipt refuses locked coins.
TransferLocked(r) == \* mutation
  /\ Checked(r)
  /\ tree' = tree \union Leaves(r)
  /\ nullified' = nullified \union r.ins
  /\ mixed' = mixed \union {r}
  /\ UNCHANGED <<locked, status, receipt, expiresAt, now, withdrawn>>
Transfer(r) ==
  /\ Checked(r)
  /\ r.ins \intersect locked = {}
  /\ tree' = tree \union Leaves(r)
  /\ nullified' = nullified \union r.ins
  /\ mixed' = mixed \union {r}
  /\ UNCHANGED <<locked, status, receipt, expiresAt, now, withdrawn>>

\* withdraw: the coins are spent, locked or not, the asset leaves for the first
\* commitment, and no commitment is inserted, not even the change.
Withdraw(r) ==
  /\ r.out \in Opened
  /\ Checked(r)
  /\ nullified' = nullified \union r.ins
  /\ withdrawn' = withdrawn \union {r}
  /\ UNCHANGED <<tree, locked, status, receipt, expiresAt, now, mixed>>

-------------------------------------------------------------------------------
(* Swaps                                                                   *)

\* _computeDvpId, as the initiator calls it; the responder swaps the two.
DvpId(r) == <<r.out, r.message>>

InitiateUnlocked(s, r, v) == \* mutation
  /\ now + v <= MaxTime
  /\ status[s] = "None"
  /\ Checked(r)
  /\ r.back # NoCoin
  /\ \A t \in SharedId : status[t] # "None" => DvpId(receipt[t]) # DvpId(r)
  /\ status' = [status EXCEPT ![s] = "Pending"]
  /\ receipt' = [receipt EXCEPT ![s] = r]
  /\ expiresAt' = [expiresAt EXCEPT ![s] = now + v]
  /\ UNCHANGED <<tree, nullified, locked, now, mixed, withdrawn>>
InitiateSwap(s, r, v) ==
  /\ now + v <= MaxTime
  /\ status[s] = "None"
  /\ Checked(r)
  /\ r.back # NoCoin
  /\ locked' = locked \union r.ins
  /\ \A t \in SharedId : status[t] # "None" => DvpId(receipt[t]) # DvpId(r)
  /\ status' = [status EXCEPT ![s] = "Pending"]
  /\ receipt' = [receipt EXCEPT ![s] = r]
  /\ expiresAt' = [expiresAt EXCEPT ![s] = now + v]
  /\ UNCHANGED <<tree, nullified, now, mixed, withdrawn>>

isSwapExpired(s) == status[s] # "None" /\ now >= expiresAt[s]

\* unlockCoin on every input of the initiator reverts unless all are locked
\* and unspent.
Unlockable(s) == receipt[s].ins \subseteq locked \ nullified

\* _revertSwap: the coins are spent and the back commitment replaces them.
RevertSwapUnspent(s, end) == \* mutation
  /\ status[s] = "Pending"
  /\ Unlockable(s)
  /\ tree' = tree \union {receipt[s].back}
  /\ locked' = locked \ receipt[s].ins
  /\ status' = [status EXCEPT ![s] = end]
  /\ UNCHANGED <<nullified, receipt, expiresAt, now, mixed, withdrawn>>
RevertSwapLocked(s, end) == \* mutation
  /\ status[s] = "Pending"
  /\ Unlockable(s)
  /\ tree' = tree \union {receipt[s].back}
  /\ nullified' = nullified \union receipt[s].ins
  /\ status' = [status EXCEPT ![s] = end]
  /\ UNCHANGED <<locked, receipt, expiresAt, now, mixed, withdrawn>>
RevertSwap(s, end) ==
  /\ status[s] = "Pending"
  /\ Unlockable(s)
  /\ tree' = tree \union {receipt[s].back}
  /\ locked' = locked \ receipt[s].ins
  /\ nullified' = nullified \union receipt[s].ins
  /\ status' = [status EXCEPT ![s] = end]
  /\ UNCHANGED <<receipt, expiresAt, now, mixed, withdrawn>>

\* _settleOnGroupPair of the initiator's receipt p and the responder's q,
\* after p's coins were unlocked.
SettleOnePart(p, q) == \* mutation
  /\ {<<p.kind, p.vault>>, <<q.kind, q.vault>>} \subseteq GroupMember
  /\ Checked(q)
  /\ tree' = tree \union Leaves(p)
  /\ q.ins \intersect ((locked \ p.ins) \union p.ins) = {}
  /\ nullified' = nullified \union p.ins \union q.ins
SettleOnGroupPair(p, q) ==
  /\ {<<p.kind, p.vault>>, <<q.kind, q.vault>>} \subseteq GroupMember
  /\ Checked(q)
  /\ tree' = tree \union Leaves(p) \union Leaves(q)
  /\ q.ins \intersect (locked \ p.ins) = {}    \* nullifyFromReceipt(q)
  /\ q.ins \intersect p.ins = {}               \* setNullifier of p's inputs
  /\ nullified' = nullified \union p.ins \union q.ins

\* completeSwap by a responder in time ...
CompleteSwap(s, q) ==
  /\ status[s] = "Pending" /\ ~isSwapExpired(s)
  /\ DvpId(receipt[s]) = <<q.message, q.out>>
  /\ Unlockable(s)
  /\ locked' = locked \ receipt[s].ins
  /\ SettleOnGroupPair(receipt[s], q)
  /\ status' = [status EXCEPT ![s] = "Completed"]
  /\ UNCHANGED <<receipt, expiresAt, now, mixed, withdrawn>>

\* ... and expireSwap by anyone later, which a late completeSwap also does.
ExpireSwap(s) == isSwapExpired(s) /\ RevertSwap(s, "TimedOut")

\* cancelSwap by the initiator, who knows the preimage of the passphrase.
CancelSwap(s) == RevertSwap(s, "Cancelled")

Tick == /\ now < MaxTime
        /\ now' = now + 1
        /\ UNCHANGED <<tree, nullified, locked, status, receipt, expiresAt,
                       mixed, withdrawn>>

Next ==
  \/ \E c \in Minted : Deposit(c)
  \/ \E r \in Receipt : Transfer(r) \/ Withdraw(r)
  \/ \E s \in SharedId, r \in Receipt, v \in Validity : InitiateSwap(s, r, v)
  \/ \E s \in SharedId, q \in Receipt : CompleteSwap(s, q)
  \/ \E s \in SharedId : ExpireSwap(s) \/ CancelSwap(s)
  \/ Tick

Spec == Init /\ [][Next]_vars

-------------------------------------------------------------------------------
(* Properties                                                              *)

\* The variables keep their types, and only inserted coins are spent or locked.
TypeOK ==
  /\ tree \subseteq Coin
  /\ nullified \subseteq tree
  /\ locked \subseteq tree
  /\ status \in [SharedId -> SwapStatus]
  /\ receipt \in [SharedId -> Receipt \union {NoReceipt}]
  /\ expiresAt \in [SharedId -> Nat]
  /\ now \in 0 .. MaxTime
  /\ mixed \subseteq Receipt
  /\ withdrawn \subseteq Receipt

\* The coins of C that belong to a vault.
In(v, C) == {c \in C : Home[c] = v}

\* What each vault owes its coins' owners is what was deposited and neither
\* withdrawn nor left behind as the change of a withdrawal (wallets consolidate
\* before they withdraw): settling, reverting and mixing create and lose nothing.
ValueConserved ==
  \A v \in Vault :
    Worth(In(v, tree \ nullified)) + Worth(In(v, UNION {Leaves(r) : r \in withdrawn}))
      = Worth(In(v, tree \intersect Minted))

\* A receipt took effect if one of its commitments or its value came out.
Effective(r) == Fresh(r) \intersect tree # {} \/ r \in withdrawn

\* Of the receipts that spend one coin, at most one ever takes effect, however
\* swaps, their ends, transfers and withdrawals of the coin interleave.
SpentOnce ==
  \A q, r \in Receipt :
    Effective(q) /\ Effective(r) /\ q # r => q.ins \intersect r.ins = {}

\* A lock that no pending swap holds would freeze its coin for good.
LocksAreHeld ==
  \A c \in locked :
    \E s \in SharedId : status[s] = "Pending" /\ c \in receipt[s].ins

\* The owner used coins of the swap in another swap or withdrew them.
Disturbed(s) ==
  \/ \E t \in SharedId \ {s} :
       status[t] # "None" /\ receipt[t].ins \intersect receipt[s].ins # {}
  \/ \E r \in withdrawn : r.ins \intersect receipt[s].ins # {}

\* Unless its owner disturbed it, a pending swap can always be ended: its
\* coins are locked and unspent, whatever the other swaps do.
PendingIsBacked ==
  \A s \in SharedId :
    status[s] = "Pending" /\ ~Disturbed(s) => Unlockable(s)

\* "Can be called by anyone once the swap's validity window has elapsed.
\* Reverts if the swap is not expired or not in Pending status" (expireSwap).
ExpiryIsPossible ==
  \A s \in SharedId : status[s] = "Pending" /\ isSwapExpired(s) => Unlockable(s)

-------------------------------------------------------------------------------
(* The swaps implement the abstract exchange                               *)

Pledged(r) == \E s \in SharedId : status[s] = "Pending" /\ receipt[s] = r

Outcome(r) ==
  IF r \in withdrawn THEN "withdrawn"
  ELSE IF r \in mixed THEN "mixed"
  ELSE IF r.out \in tree THEN "settled"
  ELSE IF r.back \in tree THEN "refunded"
  ELSE IF Pledged(r) THEN "pledged" ELSE "open"

Exchange == INSTANCE AtomicSwap
              WITH Gives <- [r \in Offer |-> r.out],
                   Wants <- [r \in Offer |-> r.message],
                   outcome <- [r \in Offer |-> Outcome(r)]

\* A pledged receipt settles together with the one it matches, or is refunded,
\* unless someone withdraws its coins with it; no transfer can take them.
ImplementsAtomicSwap == Exchange!Spec

-------------------------------------------------------------------------------
(* Liveness: time passes, and someone expires the swaps                    *)

FairSpec == /\ Spec
            /\ WF_vars(Tick)
            /\ \A s \in SharedId : WF_vars(ExpireSwap(s))

\* A pending swap ends, or its owner has disturbed it: coins do not stay
\* locked because the other party never answers.
SwapsEnd ==
  \A s \in SharedId :
    status[s] = "Pending" ~> (status[s] # "Pending" \/ Disturbed(s))
===============================================================================

--------------------------- MODULE DvpSwap_proofs ---------------------------
(***************************************************************************)
(* Proofs about DvpSwap, for any vaults, coins, receipts and swaps. The    *)
(* argument: every step executes a set of receipts whose coins are unspent *)
(* and disjoint, and spends those coins, so a receipt that took effect has *)
(* its coins spent and no other receipt of one of them can follow; and the *)
(* coins it creates are worth what it spends, so vaults conserve value.    *)
(***************************************************************************)
EXTENDS DvpSwap, FiniteSetTheorems, TLAPS

\* A receipt that took effect has spent its coins.
EffectsArePaid == \A r \in Receipt : Effective(r) => r.ins \subseteq nullified

\* A receipt is settled or refunded, not both.
EndsOnce == \A r \in Receipt : r.out \in tree => r.back \notin tree

\* A swap that was initiated holds a receipt that can be reverted.
SwapsHaveReceipts ==
  \A s \in SharedId :
    status[s] # "None" => receipt[s] \in Receipt /\ receipt[s].back # NoCoin

\* A mixed receipt shows in the tree.
MixedShow == \A r \in mixed : r.out \in tree

\* The inductive invariant of the coins, and with it that of the locks.
CoinInv == /\ TypeOK /\ SwapsHaveReceipts /\ MixedShow
           /\ EffectsArePaid /\ EndsOnce /\ SpentOnce

LockInv == CoinInv /\ LocksAreHeld /\ PendingIsBacked

LEMMA ReceiptFacts ==
  ASSUME NEW r \in Receipt
  PROVE  /\ r.ins \subseteq Coin /\ r.ins # {}
         /\ r.out \in Coin /\ r.out \in Fresh(r) /\ r.out \in Leaves(r)
         /\ Leaves(r) \subseteq Coin /\ Leaves(r) \subseteq Fresh(r)
         /\ r.back \in Coin \union {NoCoin}
         /\ r.back # NoCoin => r.back \in Fresh(r) \ Leaves(r)
         /\ Fresh(r) \subseteq Coin
         /\ Fresh(r) \intersect Minted = {}
<1>1. r \in ProofReceipt /\ NoCoin \notin Coin
  BY DvpAssumption
<1>2. /\ r.ins \in SUBSET Coin /\ r.out \in Coin
      /\ r.change \in Coin \union {NoCoin} /\ r.back \in Coin \union {NoCoin}
  BY <1>1 DEF ProofReceipt
<1>3. /\ r.ins # {} /\ Fresh(r) \intersect Minted = {} /\ r.out # r.change
      /\ r.out # r.back /\ (r.change = r.back => r.change = NoCoin)
  BY DvpAssumption
<1> QED BY <1>1, <1>2, <1>3 DEF Fresh, Leaves

LEMMA FreshIsOwn ==
  ASSUME NEW q \in Receipt, NEW r \in Receipt, q # r
  PROVE  Fresh(q) \intersect Fresh(r) = {}
  BY DvpAssumption

-------------------------------------------------------------------------------
(* What a step does to the coins                                           *)

\* The receipts R take effect: their coins were unspent and disjoint, and are
\* now spent; nothing else appears but deposits.
Executes(R) ==
  /\ \A r \in R : r.ins \intersect nullified = {}
  /\ \A q, r \in R : q # r => q.ins \intersect r.ins = {}
  /\ tree \subseteq tree'
  /\ tree' \subseteq tree \union Minted \union UNION {Fresh(r) : r \in R}
  /\ nullified' = nullified \union UNION {r.ins : r \in R}
  /\ withdrawn \subseteq withdrawn' /\ withdrawn' \subseteq withdrawn \union R
  /\ mixed \subseteq mixed' /\ mixed' \subseteq mixed \union R

LEMMA OthersStay ==
  ASSUME NEW R \in SUBSET Receipt, Executes(R), NEW r \in Receipt \ R
  PROVE  /\ Fresh(r) \intersect tree' = Fresh(r) \intersect tree
         /\ Effective(r)' <=> Effective(r)
         /\ r \in withdrawn' <=> r \in withdrawn
         /\ r \in mixed' <=> r \in mixed
<1>1. ASSUME NEW c \in Fresh(r), c \in tree'
      PROVE  c \in tree
  <2>1. c \notin Minted
    BY ReceiptFacts
  <2>2. ASSUME NEW q \in R
        PROVE  c \notin Fresh(q)
    BY <2>2, FreshIsOwn
  <2> QED BY <1>1, <2>1, <2>2 DEF Executes
<1>2. Fresh(r) \intersect tree' = Fresh(r) \intersect tree
  BY <1>1 DEF Executes
<1>3. (r \in withdrawn' <=> r \in withdrawn) /\ (r \in mixed' <=> r \in mixed)
  BY DEF Executes
<1> QED BY <1>2, <1>3 DEF Effective, Fresh

LEMMA ExecutionPays ==
  ASSUME CoinInv, NEW R \in SUBSET Receipt, Executes(R)
  PROVE  EffectsArePaid' /\ SpentOnce'
<1>1. ASSUME NEW r \in Receipt, Effective(r)'
      PROVE  \/ r \in R
             \/ Effective(r) /\ r \notin R /\ r.ins \subseteq nullified
  <2>1. CASE r \in R
    BY <2>1
  <2>2. CASE r \notin R
    BY <1>1, <2>2, OthersStay DEF CoinInv, EffectsArePaid
  <2> QED BY <2>1, <2>2
<1>2. ASSUME NEW r \in Receipt, Effective(r)'
      PROVE  r.ins \subseteq nullified'
  BY <1>1, <1>2 DEF Executes
<1>3. ASSUME NEW q \in Receipt, NEW r \in Receipt, Effective(q)', Effective(r)', q # r
      PROVE  q.ins \intersect r.ins = {}
  <2>1. CASE q \in R /\ r \in R
    BY <1>3, <2>1 DEF Executes
  <2>2. CASE q \in R /\ r \notin R
    <3>1. r.ins \subseteq nullified
      BY <1>1, <1>3, <2>2
    <3>2. q.ins \intersect nullified = {}
      BY <2>2 DEF Executes
    <3> QED BY <3>1, <3>2
  <2>3. CASE q \notin R /\ r \in R
    <3>1. q.ins \subseteq nullified
      BY <1>1, <1>3, <2>3
    <3>2. r.ins \intersect nullified = {}
      BY <2>3 DEF Executes
    <3> QED BY <3>1, <3>2
  <2>4. CASE q \notin R /\ r \notin R
    <3>1. Effective(q) /\ Effective(r)
      BY <1>1, <1>3, <2>4
    <3> QED BY <3>1, <1>3 DEF CoinInv, SpentOnce
  <2> QED BY <2>1, <2>2, <2>3, <2>4
<1>4. EffectsArePaid'
  BY <1>2 DEF EffectsArePaid, Effective, Fresh
<1>5. SpentOnce'
  BY <1>3 DEF SpentOnce, Effective, Fresh
<1> QED BY <1>4, <1>5

\* A receipt with an unspent coin has no effect yet.
LEMMA UnspentIsOpen ==
  ASSUME CoinInv, NEW r \in Receipt, r.ins \intersect nullified = {}
  PROVE  /\ ~Effective(r) /\ r \notin withdrawn /\ r \notin mixed
         /\ r.out \notin tree /\ r.change \notin tree /\ r.back \notin tree
<1>1. ~Effective(r)
  BY ReceiptFacts DEF CoinInv, EffectsArePaid
<1>2. NoCoin \notin tree
  BY DvpAssumption DEF CoinInv, TypeOK
<1>3. r.out \notin tree /\ r \notin withdrawn
  BY <1>1, ReceiptFacts DEF Effective
<1> QED BY <1>1, <1>2, <1>3 DEF Effective, Fresh, CoinInv, MixedShow

-------------------------------------------------------------------------------
(* Which receipts each step executes                                       *)

LEMMA RevertExecutes ==
  ASSUME CoinInv, NEW s \in SharedId, NEW end \in {"TimedOut", "Cancelled"},
         RevertSwap(s, end)
  PROVE  /\ receipt[s] \in Receipt /\ receipt[s].back # NoCoin
         /\ Executes({receipt[s]})
<1>1. receipt[s] \in Receipt /\ receipt[s].back # NoCoin
  BY DEF RevertSwap, CoinInv, SwapsHaveReceipts
<1>2. receipt[s].back \in Fresh(receipt[s])
  BY <1>1, ReceiptFacts
<1> QED BY <1>1, <1>2 DEF RevertSwap, Unlockable, Executes

LEMMA CompleteExecutes ==
  ASSUME CoinInv, NEW s \in SharedId, NEW q \in Receipt, CompleteSwap(s, q)
  PROVE  /\ receipt[s] \in Receipt
         /\ Executes({receipt[s], q})
         /\ q # receipt[s]
<1>1. receipt[s] \in Receipt
  BY DEF CompleteSwap, CoinInv, SwapsHaveReceipts
<1>2. /\ Leaves(q) \subseteq Fresh(q)
      /\ Leaves(receipt[s]) \subseteq Fresh(receipt[s])
      /\ q.ins # {}
  BY <1>1, ReceiptFacts
<1>3. /\ q.ins \intersect nullified = {}
      /\ receipt[s].ins \intersect nullified = {}
      /\ q.ins \intersect receipt[s].ins = {}
      /\ tree' = tree \union Leaves(receipt[s]) \union Leaves(q)
      /\ nullified' = nullified \union receipt[s].ins \union q.ins
      /\ withdrawn' = withdrawn /\ mixed' = mixed
  BY DEF CompleteSwap, SettleOnGroupPair, Unlockable, Checked
<1> QED BY <1>1, <1>2, <1>3 DEF Executes

LEMMA TransferExecutes ==
  ASSUME NEW r \in Receipt, Transfer(r) \/ Withdraw(r)
  PROVE  Executes({r})
<1>1. Leaves(r) \subseteq Fresh(r)
  BY ReceiptFacts
<1> QED BY <1>1 DEF Transfer, Withdraw, Checked, Executes

\* Every step executes some receipts.
LEMMA StepExecutes ==
  ASSUME CoinInv, [Next]_vars
  PROVE  \E R \in SUBSET Receipt : Executes(R)
<1>1. ASSUME NEW c \in Minted, Deposit(c)
      PROVE  Executes({})
  BY <1>1 DEF Deposit, Executes
<1>2. ASSUME NEW s \in SharedId, NEW r \in Receipt, NEW v \in Validity,
             InitiateSwap(s, r, v)
      PROVE  Executes({})
  BY <1>2 DEF InitiateSwap, Executes
<1>3. ASSUME Tick \/ UNCHANGED vars
      PROVE  Executes({})
  BY <1>3 DEF Tick, vars, Executes
<1>4. ASSUME NEW s \in SharedId, ExpireSwap(s) \/ CancelSwap(s)
      PROVE  \E R \in SUBSET Receipt : Executes(R)
  BY <1>4, RevertExecutes DEF ExpireSwap, CancelSwap
<1>5. ASSUME NEW s \in SharedId, NEW q \in Receipt, CompleteSwap(s, q)
      PROVE  \E R \in SUBSET Receipt : Executes(R)
  BY <1>5, CompleteExecutes
<1>6. ASSUME NEW r \in Receipt, Transfer(r) \/ Withdraw(r)
      PROVE  \E R \in SUBSET Receipt : Executes(R)
  BY <1>6, TransferExecutes
<1> QED BY <1>1, <1>2, <1>3, <1>4, <1>5, <1>6 DEF Next

-------------------------------------------------------------------------------
(* The invariant of the coins                                              *)

LEMMA TypeNext ==
  ASSUME CoinInv, [Next]_vars
  PROVE  TypeOK'
<1> USE DEF CoinInv
<1>1. ASSUME NEW c \in Minted, Deposit(c)
      PROVE  TypeOK'
  BY <1>1, DvpAssumption DEF Deposit, TypeOK
<1>2. ASSUME NEW r \in Receipt, Transfer(r) \/ Withdraw(r)
      PROVE  TypeOK'
  <2>1. Leaves(r) \subseteq Coin
    BY ReceiptFacts
  <2> QED BY <1>2, <2>1 DEF Transfer, Withdraw, Checked, TypeOK
<1>3. ASSUME NEW s \in SharedId, NEW r \in Receipt, NEW v \in Validity,
             InitiateSwap(s, r, v)
      PROVE  TypeOK'
  <2>1. now + v \in Nat
    BY DvpAssumption DEF TypeOK
  <2>2. /\ status' \in [SharedId -> SwapStatus]
        /\ receipt' \in [SharedId -> Receipt \union {NoReceipt}]
        /\ expiresAt' \in [SharedId -> Nat]
    BY <1>3, <2>1 DEF InitiateSwap, TypeOK, SwapStatus
  <2> QED BY <1>3, <2>2 DEF InitiateSwap, Checked, TypeOK
<1>4. ASSUME NEW s \in SharedId, NEW end \in {"TimedOut", "Cancelled"},
             RevertSwap(s, end)
      PROVE  TypeOK'
  <2>1. receipt[s].back \in Coin
    BY <1>4, RevertExecutes, ReceiptFacts
  <2>2. status' \in [SharedId -> SwapStatus]
    BY <1>4 DEF RevertSwap, TypeOK, SwapStatus
  <2> QED BY <1>4, <2>1, <2>2 DEF RevertSwap, Unlockable, TypeOK
<1>5. ASSUME NEW s \in SharedId, NEW q \in Receipt, CompleteSwap(s, q)
      PROVE  TypeOK'
  <2>1. Leaves(receipt[s]) \subseteq Coin /\ Leaves(q) \subseteq Coin
    BY <1>5, CompleteExecutes, ReceiptFacts
  <2>2. status' \in [SharedId -> SwapStatus]
    BY <1>5 DEF CompleteSwap, TypeOK, SwapStatus
  <2>3. tree' \subseteq Coin /\ nullified' \subseteq tree' /\ locked' \subseteq tree'
    BY <1>5, <2>1 DEF CompleteSwap, SettleOnGroupPair, Unlockable, Checked, TypeOK
  <2> QED BY <1>5, <2>2, <2>3 DEF CompleteSwap, TypeOK
<1>6. ASSUME Tick
      PROVE  TypeOK'
  BY <1>6, DvpAssumption DEF Tick, TypeOK
<1>7. ASSUME UNCHANGED vars
      PROVE  TypeOK'
  BY <1>7 DEF vars, TypeOK
<1> QED BY <1>1, <1>2, <1>3, <1>4, <1>5, <1>6, <1>7 DEF Next, ExpireSwap, CancelSwap

\* The status and the receipt of a swap change at its start and its end only.
LEMMA SwapsNext ==
  ASSUME CoinInv, [Next]_vars
  PROVE  SwapsHaveReceipts'
<1>1. ASSUME NEW s \in SharedId, NEW r \in Receipt, NEW v \in Validity,
             InitiateSwap(s, r, v)
      PROVE  SwapsHaveReceipts'
  BY <1>1 DEF InitiateSwap, CoinInv, SwapsHaveReceipts, TypeOK
<1>2. ASSUME NEW s \in SharedId, NEW end \in {"TimedOut", "Cancelled"},
             RevertSwap(s, end)
      PROVE  SwapsHaveReceipts'
  BY <1>2 DEF RevertSwap, CoinInv, SwapsHaveReceipts, TypeOK
<1>3. ASSUME NEW s \in SharedId, NEW q \in Receipt, CompleteSwap(s, q)
      PROVE  SwapsHaveReceipts'
  BY <1>3 DEF CompleteSwap, CoinInv, SwapsHaveReceipts, TypeOK
<1>4. CASE UNCHANGED <<status, receipt>>
  BY <1>4 DEF CoinInv, SwapsHaveReceipts
<1> QED
  BY <1>1, <1>2, <1>3, <1>4
  DEF Next, vars, Deposit, Transfer, Withdraw, Tick, ExpireSwap, CancelSwap

\* Only a settlement inserts what a receipt gives away, and only a revert
\* inserts what it takes back, both while the receipt is open.
LEMMA EndsNext ==
  ASSUME CoinInv, [Next]_vars
  PROVE  EndsOnce'
<1>1. ASSUME NEW R \in SUBSET Receipt, Executes(R),
             \A q \in R : q.back \notin tree' \/ q.out \notin tree'
      PROVE  EndsOnce'
  <2> SUFFICES ASSUME NEW r \in Receipt, r.out \in tree', r.back \in tree', r \notin R
               PROVE  FALSE
    BY <1>1 DEF EndsOnce
  <2>1. Fresh(r) \intersect tree' = Fresh(r) \intersect tree
    BY <1>1, OthersStay
  <2>2. r.back # NoCoin
    BY TypeNext, DvpAssumption DEF TypeOK
  <2>3. r.out \in Fresh(r) /\ r.back \in Fresh(r)
    BY <2>2, ReceiptFacts
  <2> QED BY <2>1, <2>3 DEF CoinInv, EndsOnce
<1>2. ASSUME NEW c \in Minted, Deposit(c)
      PROVE  Executes({})
  BY <1>2 DEF Deposit, Executes
<1>3. ASSUME NEW s \in SharedId, NEW end \in {"TimedOut", "Cancelled"},
             RevertSwap(s, end)
      PROVE  EndsOnce'
  <2>1. receipt[s] \in Receipt /\ Executes({receipt[s]})
    BY <1>3, RevertExecutes
  <2>2. receipt[s].out \notin tree /\ receipt[s].out # receipt[s].back
    BY <1>3, <2>1, UnspentIsOpen, DvpAssumption DEF RevertSwap, Unlockable
  <2> QED BY <1>1, <1>3, <2>1, <2>2 DEF RevertSwap
<1>4. ASSUME NEW s \in SharedId, NEW q \in Receipt, CompleteSwap(s, q)
      PROVE  EndsOnce'
  <2> DEFINE p == receipt[s]
  <2>1. p \in Receipt /\ Executes({p, q}) /\ q # p
    BY <1>4, CompleteExecutes
  <2>2. p.back \notin tree /\ q.back \notin tree
    BY <1>4, <2>1, UnspentIsOpen DEF CompleteSwap, SettleOnGroupPair, Unlockable, Checked
  <2>3. ASSUME NEW r \in {p, q}, r.back \in tree'
        PROVE  FALSE
    <3>1. r \in Receipt /\ r.back # NoCoin
      BY <2>1, <2>3, TypeNext, DvpAssumption DEF TypeOK
    <3>2. r.back \in Fresh(r) \ Leaves(r)
      BY <3>1, ReceiptFacts
    <3>3. r.back \notin Leaves(p) /\ r.back \notin Leaves(q)
      BY <2>1, <3>1, <3>2, FreshIsOwn, ReceiptFacts
    <3> QED BY <1>4, <2>2, <2>3, <3>3 DEF CompleteSwap, SettleOnGroupPair
  <2> QED BY <1>1, <2>1, <2>3
<1>5. ASSUME NEW r \in Receipt, Transfer(r) \/ Withdraw(r)
      PROVE  EndsOnce'
  <2>1. r.back \notin tree
    BY <1>5, UnspentIsOpen DEF Transfer, Withdraw, Checked
  <2>2. r.back \notin Leaves(r)
    BY ReceiptFacts, DvpAssumption DEF Leaves
  <2>3. r.back \notin tree'
    BY <1>5, <2>1, <2>2 DEF Transfer, Withdraw
  <2> QED BY <1>1, <1>5, <2>3, TransferExecutes
<1>6. CASE UNCHANGED tree
  BY <1>6 DEF CoinInv, EndsOnce
<1> QED
  BY <1>1, <1>2, <1>3, <1>4, <1>5, <1>6
  DEF Next, vars, InitiateSwap, Tick, ExpireSwap, CancelSwap

LEMMA MixedNext ==
  ASSUME CoinInv, [Next]_vars
  PROVE  MixedShow'
<1>1. ASSUME NEW r \in Receipt, Transfer(r)
      PROVE  MixedShow'
  <2>1. r.out \in Leaves(r)
    BY ReceiptFacts
  <2> QED BY <1>1, <2>1 DEF Transfer, CoinInv, MixedShow
<1>2. CASE mixed' = mixed /\ tree \subseteq tree'
  BY <1>2 DEF CoinInv, MixedShow
<1> QED
  BY <1>1, <1>2 DEF Next, vars, Deposit, Withdraw, InitiateSwap, CompleteSwap,
     SettleOnGroupPair, ExpireSwap, CancelSwap, RevertSwap, Tick

LEMMA CoinInit == Init => CoinInv
<1> SUFFICES ASSUME Init PROVE CoinInv
  OBVIOUS
<1>1. TypeOK
  BY DvpAssumption DEF Init, TypeOK, SwapStatus
<1>2. \A r \in Receipt : ~Effective(r)
  BY DEF Init, Effective
<1> QED BY <1>1, <1>2 DEF Init, CoinInv, SwapsHaveReceipts, MixedShow, EffectsArePaid, EndsOnce, SpentOnce

LEMMA CoinNext ==
  ASSUME CoinInv, [Next]_vars
  PROVE  CoinInv'
<1>1. EffectsArePaid' /\ SpentOnce'
  BY StepExecutes, ExecutionPays
<1> QED BY <1>1, TypeNext, SwapsNext, MixedNext, EndsNext DEF CoinInv

\* The types, and what the receipts of a coin can come to, in every behaviour.
THEOREM Coins == Spec => []CoinInv
  BY CoinInit, CoinNext, PTL DEF Spec

\* Only inserted coins are ever spent or locked.
THEOREM TypeCorrect == Spec => []TypeOK
  BY Coins, PTL DEF CoinInv

\* No coin is spent twice, whatever the interleaving of swaps, their ends,
\* transfers and withdrawals.
THEOREM CoinsAreSpentOnce == Spec => []SpentOnce
  BY Coins, PTL DEF CoinInv

-------------------------------------------------------------------------------
(* The invariant of the locks                                              *)

LEMMA LocksNext ==
  ASSUME LockInv, [Next]_vars
  PROVE  LocksAreHeld'
<1> USE DEF LockInv, CoinInv, TypeOK
<1>1. ASSUME NEW s \in SharedId, NEW r \in Receipt, NEW v \in Validity,
             InitiateSwap(s, r, v)
      PROVE  LocksAreHeld'
  <2>1. /\ status' = [status EXCEPT ![s] = "Pending"]
        /\ receipt' = [receipt EXCEPT ![s] = r]
        /\ locked' = locked \union r.ins /\ status[s] = "None"
    BY <1>1 DEF InitiateSwap
  <2>2. status'[s] = "Pending" /\ receipt'[s] = r
    BY <2>1
  <2>3. ASSUME NEW t \in SharedId, status[t] = "Pending"
        PROVE  status'[t] = "Pending" /\ receipt'[t] = receipt[t]
    BY <2>1, <2>3
  <2> QED BY <2>1, <2>2, <2>3 DEF LocksAreHeld
<1>2. ASSUME NEW s \in SharedId, NEW end \in {"TimedOut", "Cancelled", "Completed"},
             locked' = locked \ receipt[s].ins,
             status' = [status EXCEPT ![s] = end], receipt' = receipt
      PROVE  LocksAreHeld'
  BY <1>2 DEF LocksAreHeld
<1>3. ASSUME NEW s \in SharedId, NEW q \in Receipt, CompleteSwap(s, q)
      PROVE  LocksAreHeld'
  BY <1>2, <1>3 DEF CompleteSwap
<1>4. ASSUME NEW s \in SharedId, ExpireSwap(s) \/ CancelSwap(s)
      PROVE  LocksAreHeld'
  BY <1>2, <1>4 DEF ExpireSwap, CancelSwap, RevertSwap
<1>5. CASE UNCHANGED <<locked, status, receipt>>
  BY <1>5 DEF LocksAreHeld
<1> QED
  BY <1>1, <1>3, <1>4, <1>5 DEF Next, vars, Deposit, Transfer, Withdraw, Tick

\* What disturbs a swap stays.
LEMMA DisturbedStays ==
  ASSUME LockInv, [Next]_vars, NEW s \in SharedId, status[s] # "None", Disturbed(s)
  PROVE  Disturbed(s)'
<1>1. ASSUME NEW t \in SharedId, status[t] # "None"
      PROVE  status'[t] # "None" /\ receipt'[t] = receipt[t]
  BY <1>1 DEF Next, vars, Deposit, Transfer, Withdraw, InitiateSwap, CompleteSwap,
     ExpireSwap, CancelSwap, RevertSwap, Tick, LockInv, CoinInv, TypeOK
<1>2. withdrawn \subseteq withdrawn'
  BY DEF Next, vars, Deposit, Transfer, Withdraw, InitiateSwap, CompleteSwap,
     ExpireSwap, CancelSwap, RevertSwap, Tick
<1> QED BY <1>1, <1>2 DEF Disturbed

LEMMA BackedNext ==
  ASSUME LockInv, [Next]_vars
  PROVE  PendingIsBacked'
<1> SUFFICES ASSUME NEW s \in SharedId, status'[s] = "Pending", ~Disturbed(s)'
             PROVE  receipt'[s].ins \subseteq locked' \ nullified'
  BY DEF PendingIsBacked, Unlockable
<1>0. ASSUME status[s] = "Pending"
      PROVE  ~Disturbed(s) /\ receipt[s].ins \subseteq locked \ nullified
  <2>1. ~Disturbed(s)
    BY <1>0, DisturbedStays
  <2> QED BY <1>0, <2>1 DEF LockInv, PendingIsBacked, Unlockable
<1>1. CASE UNCHANGED <<nullified, locked, status, receipt>>
  BY <1>0, <1>1
<1>2. ASSUME NEW r \in Receipt, Transfer(r)
      PROVE  receipt'[s].ins \subseteq locked' \ nullified'
  BY <1>0, <1>2 DEF Transfer
<1>3. ASSUME NEW r \in Receipt, Withdraw(r)
      PROVE  receipt'[s].ins \subseteq locked' \ nullified'
  <2>1. r.ins \intersect receipt[s].ins = {}
    BY <1>3 DEF Withdraw, Disturbed
  <2> QED BY <1>0, <1>3, <2>1 DEF Withdraw
<1>4. ASSUME NEW t \in SharedId, NEW r \in Receipt, NEW v \in Validity,
             InitiateSwap(t, r, v)
      PROVE  receipt'[s].ins \subseteq locked' \ nullified'
  <2> USE DEF LockInv, CoinInv, TypeOK
  <2>1. CASE s = t
    BY <1>4, <2>1 DEF InitiateSwap, Checked
  <2>2. CASE s # t
    BY <1>0, <1>4, <2>2 DEF InitiateSwap
  <2> QED BY <2>1, <2>2
<1>5. ASSUME NEW t \in SharedId, NEW end, end \notin {"Pending", "None"},
             status[t] = "Pending", status' = [status EXCEPT ![t] = end],
             receipt' = receipt
      PROVE  /\ status[s] = "Pending"
             /\ receipt[t].ins \intersect receipt[s].ins = {}
  <2>1. status \in [SharedId -> SwapStatus]
    BY DEF LockInv, CoinInv, TypeOK
  <2>2. s # t /\ status[s] = "Pending" /\ status[t] # "None"
    BY <1>5, <2>1
  <2> QED BY <1>0, <2>2 DEF Disturbed
<1>6. ASSUME NEW t \in SharedId, NEW end \in {"TimedOut", "Cancelled"},
             RevertSwap(t, end)
      PROVE  receipt'[s].ins \subseteq locked' \ nullified'
  <2>1. status[s] = "Pending" /\ receipt[t].ins \intersect receipt[s].ins = {}
    BY <1>5, <1>6 DEF RevertSwap
  <2> QED BY <1>0, <1>6, <2>1 DEF RevertSwap
<1>7. ASSUME NEW t \in SharedId, NEW q \in Receipt, CompleteSwap(t, q)
      PROVE  receipt'[s].ins \subseteq locked' \ nullified'
  <2>1. status[s] = "Pending" /\ receipt[t].ins \intersect receipt[s].ins = {}
    BY <1>5, <1>7 DEF CompleteSwap
  <2> QED BY <1>0, <1>7, <2>1 DEF CompleteSwap, SettleOnGroupPair
<1> QED
  BY <1>1, <1>2, <1>3, <1>4, <1>6, <1>7
  DEF Next, vars, Deposit, Tick, ExpireSwap, CancelSwap

LEMMA LockInit == Init => LockInv
  BY CoinInit DEF Init, LockInv, LocksAreHeld, PendingIsBacked

THEOREM Locks == Spec => []LockInv
<1>1. LockInv /\ [Next]_vars => LockInv'
  BY CoinNext, LocksNext, BackedNext DEF LockInv
<1> QED BY LockInit, <1>1, PTL DEF Spec

\* No lock outlives its swap.
THEOREM EveryLockIsHeld == Spec => []LocksAreHeld
  BY Locks, PTL DEF LockInv

\* A pending swap that its owner left alone can always be ended.
THEOREM PendingSwapsAreBacked == Spec => []PendingIsBacked
  BY Locks, PTL DEF LockInv

-------------------------------------------------------------------------------
(* Value: every execution replaces coins by coins of the same worth        *)

\* The coins of a finite set are worth a number.
LEMMA WorthType ==
  ASSUME NEW C \in SUBSET Coin
  PROVE  /\ IsFiniteSet(Units(Value, C))
         /\ Worth(C) \in Nat /\ Worth(C) = Cardinality(Units(Value, C))
<1> DEFINE g == [c \in C |-> {c} \X (1 .. Value[c])]
           T == {{c} \X (1 .. Value[c]) : c \in C}
<1>1. IsFiniteSet(C)
  BY DvpAssumption, FS_Subset
<1>2. g \in Surjection(C, T)
  BY DEF Surjection
<1>3. IsFiniteSet(T)
  <2> HIDE DEF g, T
  <2> QED BY <1>1, <1>2, FS_Surjection
<1>4. ASSUME NEW c \in C
      PROVE  IsFiniteSet({c} \X (1 .. Value[c]))
  <2>1. Value[c] \in Int /\ 1 \in Int
    BY ProofAssumption
  <2>2. IsFiniteSet({c}) /\ IsFiniteSet(1 .. Value[c])
    BY <2>1, FS_Singleton, FS_Interval
  <2> QED BY <2>2, FS_Product
<1>5. \A U \in T : IsFiniteSet(U)
  BY <1>4
<1>6. IsFiniteSet(UNION T)
  <2> HIDE DEF T
  <2> QED BY <1>3, <1>5, FS_UNION
<1> QED BY <1>6, FS_CardinalityType DEF Units, Worth, Total

\* Disjoint sets of coins add up.
LEMMA WorthUnion ==
  ASSUME NEW C \in SUBSET Coin, NEW D \in SUBSET Coin, C \intersect D = {}
  PROVE  /\ Worth(C \union D) = Worth(C) + Worth(D)
         /\ Worth(C) \in Nat /\ Worth(D) \in Nat
<1> DEFINE X == Units(Value, C)
           Y == Units(Value, D)
<1>1. Units(Value, C \union D) = X \union Y
  BY DEF Units
<1>2. X \intersect Y = {}
  BY DEF Units
<1>3. /\ IsFiniteSet(X) /\ IsFiniteSet(Y)
      /\ Worth(C) \in Nat /\ Worth(C) = Cardinality(X)
      /\ Worth(D) \in Nat /\ Worth(D) = Cardinality(Y)
  BY WorthType
<1> HIDE DEF X, Y
<1>4. Cardinality(X \union Y) = Cardinality(X) + Cardinality(Y) - Cardinality(X \intersect Y)
  BY <1>3, FS_Union
<1>5. Cardinality(X \intersect Y) = 0
  BY <1>2, FS_EmptySet
<1>6. Worth(C \union D) = Cardinality(X \union Y)
  BY <1>1 DEF Worth, Total
<1> QED BY <1>3, <1>4, <1>5, <1>6

LEMMA WorthSingle ==
  ASSUME NEW c \in Coin
  PROVE  Worth({c}) = Value[c]
<1>1. Units(Value, {c}) = {c} \X (1 .. Value[c])
  BY DEF Units
<1>2. Value[c] \in Nat /\ 1 \in Int /\ Value[c] \in Int
  BY ProofAssumption
<1>3. IsFiniteSet(1 .. Value[c]) /\ Cardinality(1 .. Value[c]) = Value[c]
  BY <1>2, FS_Interval
<1>4. IsFiniteSet({c}) /\ Cardinality({c}) = 1
  BY FS_Singleton
<1>5. Cardinality({c} \X (1 .. Value[c])) = 1 * Value[c]
  BY <1>3, <1>4, FS_Product
<1>6. 1 * Value[c] = Value[c]
  BY <1>2
<1> QED BY <1>1, <1>5, <1>6 DEF Worth, Total

\* Coins I of one vault are replaced by coins L of that vault, worth as much.
LEMMA Replace ==
  ASSUME NEW U \in SUBSET Coin, NEW I \in SUBSET U, NEW L \in SUBSET Coin,
         L \intersect U = {}, Worth(L) = Worth(I),
         NEW w \in Vault, \A c \in I \union L : Home[c] = w,
         NEW v \in Vault
  PROVE  Worth(In(v, (U \ I) \union L)) = Worth(In(v, U))
<1>1. CASE v = w
  <2> DEFINE R == In(v, U \ I)
  <2>1. In(v, (U \ I) \union L) = R \union L /\ In(v, U) = R \union I
    BY <1>1 DEF In
  <2>2. R \in SUBSET Coin /\ R \intersect L = {} /\ R \intersect I = {} /\ I \in SUBSET Coin
    BY DEF In
  <2> HIDE DEF R
  <2>3. Worth(R \union L) = Worth(R) + Worth(L) /\ Worth(R \union I) = Worth(R) + Worth(I)
    BY <2>2, WorthUnion
  <2> QED BY <2>1, <2>3
<1>2. CASE v # w
  <2>1. In(v, (U \ I) \union L) = In(v, U)
    BY <1>2 DEF In
  <2> QED BY <2>1
<1> QED BY <1>1, <1>2

\* What the proof of a receipt shows.
LEMMA ReceiptBalances ==
  ASSUME NEW r \in Receipt
  PROVE  /\ \A c \in r.ins \union Fresh(r) : Home[c] = r.vault
         /\ r.vault \in Vault
         /\ Worth(Leaves(r)) = Worth(r.ins)
         /\ r.back # NoCoin => Worth({r.back}) = Worth(r.ins)
<1>1. r.vault \in Vault
  BY DvpAssumption DEF ProofReceipt
<1> QED BY <1>1, ProofAssumption, ReceiptFacts, WorthSingle

Unspent == tree \ nullified
Left == UNION {Leaves(r) : r \in withdrawn}

\* A step that leaves what is deposited and withdrawn alone conserves value if
\* the unspent coins of every vault keep their worth.
LEMMA ConservedBy ==
  ASSUME CoinInv, ValueConserved, withdrawn' = withdrawn,
         tree' \intersect Minted = tree \intersect Minted,
         \A v \in Vault : Worth(In(v, Unspent')) = Worth(In(v, Unspent))
  PROVE  ValueConserved'
<1> SUFFICES ASSUME NEW v \in Vault
             PROVE  Worth(In(v, Unspent')) + Worth(In(v, Left'))
                      = Worth(In(v, tree' \intersect Minted))
  BY DEF ValueConserved, Unspent, Left
<1>1. Left' = Left
  BY DEF Left
<1>2. Worth(In(v, Unspent)) + Worth(In(v, Left)) = Worth(In(v, tree \intersect Minted))
  BY DEF ValueConserved, Unspent, Left
<1> QED BY <1>1, <1>2

LEMMA TransferConserves ==
  ASSUME CoinInv, ValueConserved, NEW r \in Receipt, Transfer(r)
  PROVE  ValueConserved'
<1>1. /\ r.ins \subseteq tree /\ r.ins \intersect nullified = {}
      /\ tree' = tree \union Leaves(r) /\ nullified' = nullified \union r.ins
      /\ withdrawn' = withdrawn
  BY DEF Transfer, Checked
<1>2. /\ Leaves(r) \intersect tree = {} /\ Leaves(r) \subseteq Fresh(r)
      /\ Leaves(r) \subseteq Coin /\ Leaves(r) \intersect Minted = {}
      /\ tree \subseteq Coin /\ nullified \subseteq tree
  BY <1>1, ReceiptFacts, UnspentIsOpen DEF Leaves, CoinInv, TypeOK
<1>3. Unspent' = (Unspent \ r.ins) \union Leaves(r)
  BY <1>1, <1>2 DEF Unspent
<1>4. /\ Unspent \in SUBSET Coin /\ r.ins \in SUBSET Unspent
      /\ Leaves(r) \in SUBSET Coin /\ Leaves(r) \intersect Unspent = {}
  BY <1>1, <1>2 DEF Unspent
<1>5. /\ Worth(Leaves(r)) = Worth(r.ins) /\ r.vault \in Vault
      /\ \A c \in r.ins \union Leaves(r) : Home[c] = r.vault
  BY <1>2, ReceiptBalances
<1>6. \A v \in Vault : Worth(In(v, Unspent')) = Worth(In(v, Unspent))
  BY <1>3, <1>4, <1>5, Replace
<1>7. tree' \intersect Minted = tree \intersect Minted
  BY <1>1, <1>2
<1> QED BY <1>1, <1>6, <1>7, ConservedBy

LEMMA RevertConserves ==
  ASSUME CoinInv, ValueConserved, NEW s \in SharedId,
         NEW end \in {"TimedOut", "Cancelled"}, RevertSwap(s, end)
  PROVE  ValueConserved'
<1>0. PICK r \in Receipt : r = receipt[s] /\ r.back # NoCoin
  BY RevertExecutes
<1>1. /\ r.ins \subseteq tree /\ r.ins \intersect nullified = {}
      /\ tree' = tree \union {r.back} /\ nullified' = nullified \union r.ins
      /\ withdrawn' = withdrawn
  BY <1>0 DEF RevertSwap, Unlockable, CoinInv, TypeOK
<1>2. /\ r.back \notin tree /\ r.back \in Fresh(r)
      /\ r.back \in Coin /\ r.back \notin Minted
      /\ tree \subseteq Coin /\ nullified \subseteq tree
  BY <1>0, <1>1, ReceiptFacts, UnspentIsOpen DEF CoinInv, TypeOK
<1>3. Unspent' = (Unspent \ r.ins) \union {r.back}
  BY <1>1, <1>2 DEF Unspent
<1>4. /\ Unspent \in SUBSET Coin /\ r.ins \in SUBSET Unspent
      /\ {r.back} \in SUBSET Coin /\ {r.back} \intersect Unspent = {}
  BY <1>1, <1>2 DEF Unspent
<1>5. /\ Worth({r.back}) = Worth(r.ins) /\ r.vault \in Vault
      /\ \A c \in r.ins \union {r.back} : Home[c] = r.vault
  BY <1>0, <1>2, ReceiptBalances
<1>6. ASSUME NEW v \in Vault
      PROVE  Worth(In(v, Unspent')) = Worth(In(v, Unspent))
  <2>1. PICK U, L : U = Unspent /\ L = {r.back}
    OBVIOUS
  <2>2. Worth(In(v, (U \ r.ins) \union L)) = Worth(In(v, U))
    BY <1>4, <1>5, <2>1, Replace
  <2> QED BY <1>3, <2>1, <2>2
<1>7. tree' \intersect Minted = tree \intersect Minted
  BY <1>1, <1>2
<1> QED BY <1>1, <1>6, <1>7, ConservedBy

LEMMA CompleteConserves ==
  ASSUME CoinInv, ValueConserved, NEW s \in SharedId, NEW q \in Receipt,
         CompleteSwap(s, q)
  PROVE  ValueConserved'
<1>0. PICK p \in Receipt : p = receipt[s] /\ q # p
  BY CompleteExecutes
<1>1. /\ p.ins \subseteq tree /\ p.ins \intersect nullified = {}
      /\ q.ins \subseteq tree /\ q.ins \intersect nullified = {}
      /\ q.ins \intersect p.ins = {}
      /\ tree' = tree \union Leaves(p) \union Leaves(q)
      /\ nullified' = nullified \union p.ins \union q.ins
      /\ withdrawn' = withdrawn
  BY <1>0 DEF CompleteSwap, SettleOnGroupPair, Checked, Unlockable, CoinInv, TypeOK
<1>2. ASSUME NEW r \in {p, q}
      PROVE  /\ Leaves(r) \intersect tree = {} /\ Leaves(r) \subseteq Fresh(r)
             /\ Leaves(r) \subseteq Coin /\ Leaves(r) \intersect Minted = {}
             /\ Worth(Leaves(r)) = Worth(r.ins) /\ r.vault \in Vault
             /\ \A c \in r.ins \union Leaves(r) : Home[c] = r.vault
  <2>1. r \in Receipt /\ r.ins \intersect nullified = {}
    BY <1>0, <1>1
  <2>2. /\ Leaves(r) \intersect tree = {} /\ Leaves(r) \subseteq Fresh(r)
        /\ Leaves(r) \subseteq Coin /\ Leaves(r) \intersect Minted = {}
    BY <2>1, ReceiptFacts, UnspentIsOpen DEF Leaves
  <2> QED BY <2>1, <2>2, ReceiptBalances
<1>3. Leaves(p) \intersect Leaves(q) = {}
  BY <1>0, <1>2, FreshIsOwn
<1>4. tree \subseteq Coin /\ nullified \subseteq tree
  BY DEF CoinInv, TypeOK
<1>5. PICK M : M = (Unspent \ p.ins) \union Leaves(p)
  OBVIOUS
<1>6. Unspent' = (M \ q.ins) \union Leaves(q)
  BY <1>1, <1>2, <1>3, <1>4, <1>5 DEF Unspent
<1>7. /\ Unspent \in SUBSET Coin /\ p.ins \in SUBSET Unspent
      /\ Leaves(p) \in SUBSET Coin /\ Leaves(p) \intersect Unspent = {}
      /\ M \in SUBSET Coin /\ q.ins \in SUBSET M
      /\ Leaves(q) \in SUBSET Coin /\ Leaves(q) \intersect M = {}
  BY <1>1, <1>2, <1>3, <1>4, <1>5 DEF Unspent
<1>8. ASSUME NEW v \in Vault
      PROVE  Worth(In(v, M)) = Worth(In(v, Unspent))
  <2>1. PICK U : U = Unspent
    OBVIOUS
  <2>2. /\ Worth(Leaves(p)) = Worth(p.ins) /\ p.vault \in Vault
        /\ \A c \in p.ins \union Leaves(p) : Home[c] = p.vault
    BY <1>2
  <2>3. Worth(In(v, (U \ p.ins) \union Leaves(p))) = Worth(In(v, U))
    BY <1>7, <2>1, <2>2, Replace
  <2> QED BY <1>5, <2>1, <2>3
<1>9. ASSUME NEW v \in Vault
      PROVE  Worth(In(v, Unspent')) = Worth(In(v, M))
  <2>1. /\ Worth(Leaves(q)) = Worth(q.ins) /\ q.vault \in Vault
        /\ \A c \in q.ins \union Leaves(q) : Home[c] = q.vault
    BY <1>2
  <2>2. Worth(In(v, (M \ q.ins) \union Leaves(q))) = Worth(In(v, M))
    BY <1>7, <2>1, Replace
  <2> QED BY <1>6, <2>2
<1>10. tree' \intersect Minted = tree \intersect Minted
  BY <1>1, <1>2
<1> QED BY <1>1, <1>8, <1>9, <1>10, ConservedBy

LEMMA DepositConserves ==
  ASSUME CoinInv, ValueConserved, NEW c \in Minted, Deposit(c)
  PROVE  ValueConserved'
<1>1. /\ c \notin tree /\ c \notin nullified /\ c \in Coin /\ tree \subseteq Coin
      /\ tree' = tree \union {c} /\ nullified' = nullified /\ withdrawn' = withdrawn
  BY DvpAssumption DEF Deposit, CoinInv, TypeOK
<1> SUFFICES ASSUME NEW v \in Vault
             PROVE  Worth(In(v, Unspent')) + Worth(In(v, Left))
                      = Worth(In(v, tree' \intersect Minted))
  BY <1>1 DEF ValueConserved, Unspent, Left
<1>2. PICK U, D, N : /\ U = In(v, Unspent) /\ D = In(v, tree \intersect Minted)
                     /\ N = In(v, {c})
  OBVIOUS
<1>3. /\ In(v, Unspent') = U \union N /\ In(v, tree' \intersect Minted) = D \union N
      /\ U \in SUBSET Coin /\ D \in SUBSET Coin /\ N \in SUBSET Coin
      /\ U \intersect N = {} /\ D \intersect N = {}
  BY <1>1, <1>2 DEF In, Unspent
<1>4. Worth(U \union N) = Worth(U) + Worth(N) /\ Worth(D \union N) = Worth(D) + Worth(N)
  BY <1>3, WorthUnion
<1>5. Worth(U) + Worth(In(v, Left)) = Worth(D)
  BY <1>2 DEF ValueConserved, Unspent, Left
<1>6. Worth(U) \in Nat /\ Worth(N) \in Nat /\ Worth(D) \in Nat
  BY <1>3, WorthUnion
<1>7. Worth(In(v, Left)) \in Nat
  <2>1. In(v, Left) \in SUBSET Coin
    <3>1. \A r \in withdrawn : Leaves(r) \subseteq Coin
      BY ReceiptFacts DEF CoinInv, TypeOK
    <3> QED BY <3>1 DEF Left, In
  <2> QED BY <2>1, WorthType
<1>8. /\ Worth(In(v, Unspent')) = Worth(U) + Worth(N)
      /\ Worth(In(v, tree' \intersect Minted)) = Worth(D) + Worth(N)
  BY <1>3, <1>4
<1> QED BY <1>5, <1>6, <1>7, <1>8

LEMMA WithdrawConserves ==
  ASSUME CoinInv, ValueConserved, NEW r \in Receipt, Withdraw(r)
  PROVE  ValueConserved'
<1>1. /\ r.ins \subseteq tree /\ r.ins \intersect nullified = {}
      /\ tree' = tree /\ nullified' = nullified \union r.ins
      /\ withdrawn' = withdrawn \union {r}
  BY DEF Withdraw, Checked
<1> DEFINE L == Leaves(r)
<1>2. /\ r \notin withdrawn /\ L \subseteq Coin /\ L \subseteq Fresh(r)
      /\ tree \subseteq Coin /\ nullified \subseteq tree /\ withdrawn \subseteq Receipt
  BY <1>1, ReceiptFacts, UnspentIsOpen DEF CoinInv, TypeOK
<1>3. \A q \in withdrawn : Leaves(q) \subseteq Coin /\ Leaves(q) \intersect L = {}
  <2> SUFFICES ASSUME NEW q \in withdrawn
               PROVE  Leaves(q) \subseteq Coin /\ Leaves(q) \intersect L = {}
    OBVIOUS
  <2>1. q \in Receipt /\ q # r
    BY <1>2
  <2>2. Leaves(q) \subseteq Coin /\ Leaves(q) \subseteq Fresh(q)
    BY <2>1, ReceiptFacts
  <2>3. Fresh(q) \intersect Fresh(r) = {}
    BY <2>1, FreshIsOwn
  <2> QED BY <1>2, <2>2, <2>3
<1>4. Worth(L) = Worth(r.ins) /\ \A c \in r.ins \union L : Home[c] = r.vault
  BY <1>2, ReceiptBalances
<1>5. /\ Unspent' = Unspent \ r.ins /\ r.ins \subseteq Unspent
      /\ Left' = Left \union L /\ Left \subseteq Coin /\ Left \intersect L = {}
  <2>1. /\ Unspent' = Unspent \ r.ins /\ r.ins \subseteq Unspent
    BY <1>1, <1>2 DEF Unspent
  <2>2. Left' = Left \union L
    BY <1>1 DEF Left
  <2>3. Left \subseteq Coin /\ Left \intersect L = {}
    BY <1>3 DEF Left
  <2> QED BY <2>1, <2>2, <2>3
<1> HIDE DEF L
<1> SUFFICES ASSUME NEW v \in Vault
             PROVE  Worth(In(v, Unspent')) + Worth(In(v, Left'))
                      = Worth(In(v, tree \intersect Minted))
  BY <1>1 DEF ValueConserved, Unspent, Left
<1>6. PICK R, I, O, N : /\ R = In(v, Unspent') /\ I = In(v, r.ins)
                        /\ O = In(v, Left) /\ N = In(v, L)
  OBVIOUS
<1>7. /\ In(v, Unspent) = R \union I /\ R \intersect I = {}
      /\ In(v, Left') = O \union N /\ O \intersect N = {}
      /\ R \in SUBSET Coin /\ I \in SUBSET Coin /\ O \in SUBSET Coin /\ N \in SUBSET Coin
  BY <1>1, <1>2, <1>5, <1>6 DEF In, Unspent
<1>8. Worth(I) = Worth(N)
  <2>1. CASE v = r.vault
    <3>1. I = r.ins /\ N = L
      BY <1>4, <1>6, <2>1 DEF In
    <3> QED BY <1>4, <3>1
  <2>2. CASE v # r.vault
    <3>1. I = {} /\ N = {}
      BY <1>4, <1>6, <2>2 DEF In
    <3> QED BY <3>1
  <2> QED BY <2>1, <2>2
<1>9. /\ Worth(R \union I) = Worth(R) + Worth(I) /\ Worth(O \union N) = Worth(O) + Worth(N)
      /\ Worth(R) \in Nat /\ Worth(I) \in Nat /\ Worth(O) \in Nat /\ Worth(N) \in Nat
  BY <1>7, WorthUnion
<1>10. Worth(R \union I) + Worth(O) = Worth(In(v, tree \intersect Minted))
  BY <1>6, <1>7 DEF ValueConserved, Unspent, Left
<1> QED BY <1>6, <1>7, <1>8, <1>9, <1>10

LEMMA ConservedInit == Init => ValueConserved
<1> SUFFICES ASSUME Init, NEW v \in Vault
             PROVE  Worth(In(v, Unspent)) + Worth(In(v, Left))
                      = Worth(In(v, tree \intersect Minted))
  BY DEF ValueConserved, Unspent, Left
<1>1. In(v, Unspent) = {} /\ In(v, Left) = {} /\ In(v, tree \intersect Minted) = {}
  BY DEF Init, In, Unspent, Left
<1>2. Worth({}) = 0
  <2>1. Units(Value, {}) = {}
    BY DEF Units
  <2> QED BY <2>1, FS_EmptySet DEF Worth, Total
<1> QED BY <1>1, <1>2

LEMMA ConservedNext ==
  ASSUME CoinInv, ValueConserved, [Next]_vars
  PROVE  ValueConserved'
<1>1. ASSUME NEW s \in SharedId, ExpireSwap(s) \/ CancelSwap(s)
      PROVE  ValueConserved'
  BY <1>1, RevertConserves DEF ExpireSwap, CancelSwap
<1>2. CASE UNCHANGED <<tree, nullified, withdrawn>>
  BY <1>2 DEF ValueConserved
<1> QED
  BY <1>1, <1>2, TransferConserves, WithdrawConserves, CompleteConserves, DepositConserves
  DEF Next, vars, InitiateSwap, Tick

\* In every vault, what the unspent coins are worth and what was withdrawn add
\* up to what was deposited.
THEOREM VaultsConserveValue == Spec => []ValueConserved
<1>1. CoinInv /\ ValueConserved /\ [Next]_vars => ValueConserved'
  BY ConservedNext
<1> QED BY ConservedInit, <1>1, Coins, PTL DEF Spec

-------------------------------------------------------------------------------
(* Refinement: a swap is an abstract exchange of two offers                *)

\* The coins of a pending swap are locked, or spent behind its back.
PledgesHeld ==
  \A s \in SharedId :
    status[s] = "Pending" => receipt[s].ins \subseteq locked \union nullified

PledgeInv == CoinInv /\ PledgesHeld

LEMMA HeldNext ==
  ASSUME PledgeInv, [Next]_vars
  PROVE  PledgesHeld'
<1> USE DEF PledgeInv, CoinInv, TypeOK
<1>1. ASSUME NEW s \in SharedId, NEW r \in Receipt, NEW v \in Validity,
             InitiateSwap(s, r, v)
      PROVE  PledgesHeld'
  BY <1>1 DEF InitiateSwap, PledgesHeld
<1>2. ASSUME NEW s \in SharedId, NEW end \in {"TimedOut", "Cancelled", "Completed"},
             locked' = locked \ receipt[s].ins,
             nullified \union receipt[s].ins \subseteq nullified',
             status' = [status EXCEPT ![s] = end], receipt' = receipt
      PROVE  PledgesHeld'
  BY <1>2 DEF PledgesHeld
<1>3. ASSUME NEW s \in SharedId, NEW q \in Receipt, CompleteSwap(s, q)
      PROVE  PledgesHeld'
  BY <1>2, <1>3 DEF CompleteSwap, SettleOnGroupPair
<1>4. ASSUME NEW s \in SharedId, ExpireSwap(s) \/ CancelSwap(s)
      PROVE  PledgesHeld'
  BY <1>2, <1>4 DEF ExpireSwap, CancelSwap, RevertSwap
<1>5. CASE UNCHANGED <<locked, status, receipt>> /\ nullified \subseteq nullified'
  BY <1>5 DEF PledgesHeld
<1> QED
  BY <1>1, <1>3, <1>4, <1>5 DEF Next, vars, Deposit, Transfer, Withdraw, Tick

LEMMA PledgeInit == Init => PledgeInv
  BY CoinInit DEF Init, PledgeInv, PledgesHeld

THEOREM Pledges == Spec => []PledgeInv
<1>1. PledgeInv /\ [Next]_vars => PledgeInv'
  BY CoinNext, HeldNext DEF PledgeInv
<1> QED BY PledgeInit, <1>1, PTL DEF Spec

Outcomes == [r \in Offer |-> Outcome(r)]

LEMMA OfferIsReceipt ==
  ASSUME NEW r \in Offer
  PROVE  r \in Receipt /\ r.message # NoCoin
  BY DEF Offer

\* A receipt with its coins unspent is open or pledged.
LEMMA UnspentOutcome ==
  ASSUME CoinInv, NEW r \in Receipt, r.ins \intersect nullified = {}
  PROVE  Outcome(r) = IF Pledged(r) THEN "pledged" ELSE "open"
  BY UnspentIsOpen DEF Outcome

\* A receipt with coins that are neither spent nor locked is not pledged.
LEMMA FreeIsOpen ==
  ASSUME PledgeInv, NEW r \in Receipt, r.ins \intersect nullified = {},
         NEW c \in r.ins, c \notin locked
  PROVE  ~Pledged(r) /\ Outcome(r) = "open"
<1>1. ~Pledged(r)
  BY DEF Pledged, PledgeInv, PledgesHeld
<1> QED BY <1>1, UnspentOutcome DEF PledgeInv

\* The offers outside the executed receipts keep their outcomes, but for a
\* pledge.
LEMMA OutcomesStay ==
  ASSUME CoinInv, [Next]_vars, NEW R \in SUBSET Receipt, Executes(R),
         NEW r \in Receipt \ R, Pledged(r)' <=> Pledged(r)
  PROVE  Outcome(r)' = Outcome(r)
<1>2. /\ Fresh(r) \intersect tree' = Fresh(r) \intersect tree
      /\ r \in withdrawn' <=> r \in withdrawn
      /\ r \in mixed' <=> r \in mixed
  BY OthersStay
<1>3. NoCoin \notin tree /\ NoCoin \notin tree'
  BY TypeNext, DvpAssumption DEF CoinInv, TypeOK
<1>4. r.out \in tree' <=> r.out \in tree
  BY <1>2, ReceiptFacts
<1>5. r.back \in tree' <=> r.back \in tree
  BY <1>2, <1>3, ReceiptFacts
<1> QED BY <1>2, <1>4, <1>5 DEF Outcome

\* A step that changes the outcome of one offer.
LEMMA OneBecomes ==
  ASSUME NEW p \in Receipt, NEW end,
         Outcome(p)' = end, \A r \in Receipt : r # p => Outcome(r)' = Outcome(r)
  PROVE  \/ UNCHANGED Outcomes
         \/ p \in Offer /\ Outcomes' = [Outcomes EXCEPT ![p] = end]
<1>1. \A r \in Offer : r # p => Outcome(r)' = Outcome(r)
  BY OfferIsReceipt
<1>2. CASE p \notin Offer
  BY <1>1, <1>2 DEF Outcomes
<1>3. CASE p \in Offer
  <2>1. \A r \in Offer : Outcomes'[r] = [Outcomes EXCEPT ![p] = end][r]
    BY <1>1, <1>3 DEF Outcomes
  <2>2. Outcomes' = [Outcomes EXCEPT ![p] = end]
    BY <2>1 DEF Outcomes
  <2> QED BY <1>3, <2>2
<1> QED BY <1>2, <1>3

\* The end of a swap changes the pledge of its own receipt only.
LEMMA EndKeepsPledges ==
  ASSUME PledgeInv, NEW s \in SharedId, NEW end,
         end # "Pending", status[s] = "Pending",
         status' = [status EXCEPT ![s] = end], receipt' = receipt
  PROVE  /\ Pledged(receipt[s])
         /\ \A r \in Receipt : r # receipt[s] => (Pledged(r)' <=> Pledged(r))
<1>1. status \in [SharedId -> SwapStatus]
  BY DEF PledgeInv, CoinInv, TypeOK
<1> QED BY <1>1 DEF Pledged

LEMMA InitiateIsPledge ==
  ASSUME PledgeInv, [Next]_vars, NEW s \in SharedId, NEW r \in Receipt,
         NEW v \in Validity, InitiateSwap(s, r, v)
  PROVE  \/ UNCHANGED Outcomes
         \/ /\ r \in Offer /\ Outcome(r) = "open"
            /\ Outcomes' = [Outcomes EXCEPT ![r] = "pledged"]
<1>1. /\ Executes({}) /\ r.ins \intersect nullified = {} /\ status[s] = "None"
      /\ status' = [status EXCEPT ![s] = "Pending"]
      /\ receipt' = [receipt EXCEPT ![s] = r]
      /\ tree' = tree /\ mixed' = mixed /\ withdrawn' = withdrawn
  BY DEF InitiateSwap, Checked, Executes
<1>2. /\ status \in [SharedId -> SwapStatus]
      /\ receipt \in [SharedId -> Receipt \union {NoReceipt}]
  BY DEF PledgeInv, CoinInv, TypeOK
<1>3. ~Pledged(r)
  BY DEF InitiateSwap, Pledged
<1>4. status'[s] = "Pending" /\ receipt'[s] = r
  BY <1>1, <1>2
<1>5. Pledged(r)'
  BY <1>4 DEF Pledged
<1>6. \A q \in Receipt : q # r => (Pledged(q)' <=> Pledged(q))
  BY <1>1, <1>2 DEF Pledged
<1>7. \A q \in Receipt : q # r => Outcome(q)' = Outcome(q)
  BY <1>1, <1>6, OutcomesStay DEF PledgeInv
<1>8. Outcome(r) = "open"
  BY <1>1, <1>3, UnspentOutcome DEF PledgeInv
<1>9. Outcome(r)' = "pledged"
  <2>1. r \notin withdrawn /\ r \notin mixed /\ r.out \notin tree /\ r.back \notin tree
    BY <1>1, UnspentIsOpen DEF PledgeInv
  <2> QED BY <1>1, <1>5, <2>1 DEF Outcome
<1> QED BY <1>7, <1>8, <1>9, OneBecomes

LEMMA RevertIsRefund ==
  ASSUME PledgeInv, [Next]_vars, NEW s \in SharedId,
         NEW end \in {"TimedOut", "Cancelled"}, RevertSwap(s, end)
  PROVE  \/ UNCHANGED Outcomes
         \/ \E r \in Offer :
              /\ Outcome(r) = "pledged"
              /\ Outcomes' = [Outcomes EXCEPT ![r] = "refunded"]
<1>1. PICK p \in Receipt : p = receipt[s] /\ p.back # NoCoin /\ Executes({p})
  BY RevertExecutes DEF PledgeInv
<1>2. /\ p.ins \intersect nullified = {} /\ tree' = tree \union {p.back}
      /\ mixed' = mixed /\ withdrawn' = withdrawn
  BY <1>1 DEF RevertSwap, Unlockable
<1>3. Pledged(p) /\ \A r \in Receipt : r # p => (Pledged(r)' <=> Pledged(r))
  BY <1>1, EndKeepsPledges DEF RevertSwap
<1>4. \A r \in Receipt : r # p => Outcome(r)' = Outcome(r)
  BY <1>1, <1>3, OutcomesStay DEF PledgeInv
<1>5. Outcome(p) = "pledged"
  BY <1>2, <1>3, UnspentOutcome DEF PledgeInv
<1>6. Outcome(p)' = "refunded"
  <2>1. p \notin withdrawn /\ p \notin mixed /\ p.out \notin tree
    BY <1>2, UnspentIsOpen DEF PledgeInv
  <2>2. p.out # p.back
    BY DvpAssumption
  <2> QED BY <1>2, <2>1, <2>2 DEF Outcome
<1> QED BY <1>4, <1>5, <1>6, OneBecomes

LEMMA CompleteIsSettle ==
  ASSUME PledgeInv, [Next]_vars, NEW s \in SharedId, NEW q \in Receipt,
         CompleteSwap(s, q)
  PROVE  \E p \in Offer :
           /\ q \in Offer /\ p # q
           /\ p.out = q.message /\ q.out = p.message
           /\ Outcome(p) = "pledged" /\ Outcome(q) = "open"
           /\ Outcomes' = [Outcomes EXCEPT ![p] = "settled", ![q] = "settled"]
<1>1. PICK p \in Receipt : p = receipt[s] /\ Executes({p, q}) /\ q # p
  BY CompleteExecutes DEF PledgeInv
<1>2. /\ p.out = q.message /\ q.out = p.message
      /\ p.ins \intersect nullified = {} /\ q.ins \intersect nullified = {}
      /\ q.ins \intersect p.ins = {} /\ q.ins \intersect locked = {}
      /\ tree' = tree \union Leaves(p) \union Leaves(q)
      /\ mixed' = mixed /\ withdrawn' = withdrawn
  BY <1>1 DEF CompleteSwap, SettleOnGroupPair, Unlockable, Checked, DvpId
<1>3. p \in Offer /\ q \in Offer
  BY <1>1, <1>2, ReceiptFacts, DvpAssumption DEF Offer
<1>4. Pledged(p) /\ \A r \in Receipt : r # p => (Pledged(r)' <=> Pledged(r))
  BY <1>1, EndKeepsPledges DEF CompleteSwap
<1>5. Outcome(p) = "pledged"
  BY <1>2, <1>4, UnspentOutcome DEF PledgeInv
<1>6. Outcome(q) = "open"
  <2>1. PICK c \in q.ins : TRUE
    BY ReceiptFacts
  <2> QED BY <1>2, <2>1, FreeIsOpen
<1>7. \A r \in Offer : r # p /\ r # q => Outcome(r)' = Outcome(r)
  BY <1>1, <1>4, OfferIsReceipt, OutcomesStay DEF PledgeInv
<1>8. Outcome(p)' = "settled" /\ Outcome(q)' = "settled"
  <2>1. /\ p \notin withdrawn /\ p \notin mixed
        /\ q \notin withdrawn /\ q \notin mixed
    BY <1>2, UnspentIsOpen DEF PledgeInv
  <2>2. p.out \in tree' /\ q.out \in tree'
    BY <1>2, ReceiptFacts
  <2> QED BY <1>2, <2>1, <2>2 DEF Outcome
<1>9. \A r \in Offer :
        Outcomes'[r] = [Outcomes EXCEPT ![p] = "settled", ![q] = "settled"][r]
  BY <1>3, <1>7, <1>8 DEF Outcomes
<1>10. Outcomes' = [Outcomes EXCEPT ![p] = "settled", ![q] = "settled"]
  BY <1>9 DEF Outcomes
<1> QED BY <1>1, <1>2, <1>3, <1>5, <1>6, <1>10

LEMMA TransferIsMix ==
  ASSUME PledgeInv, [Next]_vars, NEW p \in Receipt, Transfer(p)
  PROVE  \/ UNCHANGED Outcomes
         \/ /\ p \in Offer /\ Outcome(p) = "open"
            /\ Outcomes' = [Outcomes EXCEPT ![p] = "mixed"]
<1>1. /\ Executes({p}) /\ p.ins \intersect nullified = {}
      /\ p.ins \intersect locked = {}
      /\ mixed' = mixed \union {p} /\ withdrawn' = withdrawn
      /\ UNCHANGED <<status, receipt>>
  BY TransferExecutes DEF Transfer, Checked
<1>2. \A r \in Receipt : r # p => Outcome(r)' = Outcome(r)
  <2>1. \A r \in Receipt : Pledged(r)' <=> Pledged(r)
    BY <1>1 DEF Pledged
  <2> QED BY <1>1, <2>1, OutcomesStay DEF PledgeInv
<1>3. Outcome(p) = "open"
  <2>1. PICK c \in p.ins : TRUE
    BY ReceiptFacts
  <2> QED BY <1>1, <2>1, FreeIsOpen
<1>4. Outcome(p)' = "mixed"
  <2>1. p \notin withdrawn
    BY <1>1, UnspentIsOpen DEF PledgeInv
  <2> QED BY <1>1, <2>1 DEF Outcome
<1> QED BY <1>2, <1>3, <1>4, OneBecomes

LEMMA WithdrawIsWithdraw ==
  ASSUME PledgeInv, [Next]_vars, NEW p \in Receipt, Withdraw(p)
  PROVE  \/ UNCHANGED Outcomes
         \/ /\ p \in Offer /\ Outcome(p) \in {"open", "pledged"}
            /\ Outcomes' = [Outcomes EXCEPT ![p] = "withdrawn"]
<1>1. /\ Executes({p}) /\ p.ins \intersect nullified = {}
      /\ withdrawn' = withdrawn \union {p} /\ UNCHANGED <<status, receipt>>
  BY TransferExecutes DEF Withdraw, Checked
<1>2. \A r \in Receipt : r # p => Outcome(r)' = Outcome(r)
  <2>1. \A r \in Receipt : Pledged(r)' <=> Pledged(r)
    BY <1>1 DEF Pledged
  <2> QED BY <1>1, <2>1, OutcomesStay DEF PledgeInv
<1>3. Outcome(p) \in {"open", "pledged"}
  BY <1>1, UnspentOutcome DEF PledgeInv
<1>4. Outcome(p)' = "withdrawn"
  BY <1>1 DEF Outcome
<1> QED BY <1>2, <1>3, <1>4, OneBecomes

LEMMA RefinementNext ==
  ASSUME PledgeInv, [Next]_vars
  PROVE  [Exchange!Next]_Outcomes
<1>0. \A r \in Offer : Outcomes[r] = Outcome(r)
  BY DEF Outcomes
<1>1. ASSUME NEW s \in SharedId, ExpireSwap(s) \/ CancelSwap(s)
      PROVE  [Exchange!Next]_Outcomes
  <2>1. \/ UNCHANGED Outcomes
        \/ \E r \in Offer :
             /\ Outcome(r) = "pledged"
             /\ Outcomes' = [Outcomes EXCEPT ![r] = "refunded"]
    BY <1>1, RevertIsRefund DEF ExpireSwap, CancelSwap
  <2> QED BY <2>1 DEF Exchange!Next, Exchange!Refund, Exchange!Becomes, Outcomes
<1>2. ASSUME NEW s \in SharedId, NEW q \in Receipt, CompleteSwap(s, q)
      PROVE  [Exchange!Next]_Outcomes
  <2>1. PICK p \in Offer :
          /\ q \in Offer /\ p # q
          /\ p.out = q.message /\ q.out = p.message
          /\ Outcome(p) = "pledged" /\ Outcome(q) = "open"
          /\ Outcomes' = [Outcomes EXCEPT ![p] = "settled", ![q] = "settled"]
    BY <1>2, CompleteIsSettle
  <2> QED BY <2>1 DEF Exchange!Next, Exchange!Settle, Exchange!Match, Outcomes
<1>3. ASSUME NEW s \in SharedId, NEW r \in Receipt, NEW v \in Validity,
             InitiateSwap(s, r, v)
      PROVE  [Exchange!Next]_Outcomes
  BY <1>3, InitiateIsPledge
  DEF Exchange!Next, Exchange!Pledge, Exchange!Becomes, Outcomes
<1>4. ASSUME NEW r \in Receipt, Transfer(r)
      PROVE  [Exchange!Next]_Outcomes
  BY <1>4, TransferIsMix DEF Exchange!Next, Exchange!Mix, Exchange!Becomes, Outcomes
<1>5. ASSUME NEW r \in Receipt, Withdraw(r)
      PROVE  [Exchange!Next]_Outcomes
  BY <1>5, WithdrawIsWithdraw
  DEF Exchange!Next, Exchange!Withdraw, Exchange!Becomes, Outcomes
<1>6. ASSUME NEW c \in Minted, Deposit(c)
      PROVE  UNCHANGED Outcomes
  <2>1. Executes({}) /\ UNCHANGED <<status, receipt>>
    BY <1>6 DEF Deposit, Executes
  <2>2. \A r \in Receipt : Outcome(r)' = Outcome(r)
    BY <2>1, OutcomesStay DEF Pledged, PledgeInv
  <2> QED BY <2>2, OfferIsReceipt DEF Outcomes
<1>7. CASE UNCHANGED <<tree, mixed, withdrawn, status, receipt>>
  BY <1>7 DEF Outcomes, Outcome, Pledged
<1> QED
  BY <1>1, <1>2, <1>3, <1>4, <1>5, <1>6, <1>7 DEF Next, vars, Tick

LEMMA RefinementInit == Init => Exchange!Init
  BY DEF Init, Exchange!Init, Outcome, Pledged

\* A pledged offer settles together with the offer it matches, or is refunded,
\* or someone withdraws its coins with it: no transfer takes them, and nothing
\* follows an end.
THEOREM DvpImplementsExchange == Spec => ImplementsAtomicSwap
<1>1. PledgeInv /\ [Next]_vars => [Exchange!Next]_[r \in Offer |-> Outcome(r)]
  BY RefinementNext DEF Outcomes
<1> QED
  BY RefinementInit, <1>1, Pledges, PTL DEF Spec, Exchange!Spec, ImplementsAtomicSwap
=============================================================================

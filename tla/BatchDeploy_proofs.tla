-------------------------- MODULE BatchDeploy_proofs --------------------------
(***************************************************************************)
(* Proofs about BatchDeploy, for any batches, sizes, stages, faults and    *)
(* runs. Nonces: an allocation hands out the numbers from the counter on,  *)
(* the counter then stands past them, and nothing lowers it while a run    *)
(* lasts. Ledger: what the chain has executed and the pool holds, in the   *)
(* order of the nonces, is the task's own order, so a success that is      *)
(* reported has consumed its nonce, and nothing is executed twice or       *)
(* early.                                                                  *)
(***************************************************************************)
EXTENDS BatchDeploy, Integers, FiniteSetTheorems, TLAPS

\* Every nonce that a transaction holds is below the counter.
HeldBelowNext == \A j \in Job : nonce[j] # NoNonce => nonce[j] < next

NonceInv == /\ TypeOK /\ IsFiniteSet(DOMAIN pool)
            /\ HeldBelowNext /\ UniqueNonces

\* The transactions that are allocated together: those of a batch whose
\* numbers are first .. last.
Slice(b, first, last) == {j \in Job : j[1] = b /\ first <= j[2] /\ j[2] <= last}

-----------------------------------------------------------------------------
LEMMA JobType ==
  /\ \A j \in Job : j[1] \in Batch /\ j[2] \in Nat /\ 1 <= j[2] /\ j[2] <= Txs(j[1])
  /\ \A b \in Batch : Txs(b) \in Nat
  /\ \A b \in Batch, n \in Nat : 1 <= n /\ n <= Txs(b) => <<b, n>> \in Job
  /\ \A j \in Job : j = <<j[1], j[2]>>
<1>1. \A b \in Batch : Txs(b) \in Nat
  BY BatchAssumption DEF Txs
<1>2. \A j : j \in Job <=> \E b \in Batch : \E n \in 1 .. Txs(b) : j = <<b, n>>
  <2>1. \A b \in Batch : \A j : j \in {b} \X (1 .. Txs(b)) <=> \E n \in 1 .. Txs(b) : j = <<b, n>>
    OBVIOUS
  <2> QED BY <2>1 DEF Job
<1> QED BY <1>1, <1>2

\* The size of an allocation bounds the offsets in it.
LEMMA SliceSize ==
  ASSUME NEW b \in Batch, NEW first \in Nat, NEW last \in Nat,
         1 <= first, first <= last, last <= Txs(b)
  PROVE  /\ Cardinality(Slice(b, first, last)) = last - first + 1
         /\ \A j \in Slice(b, first, last) : j[1] = b /\ j[2] \in first .. last
<1> DEFINE f == [n \in first .. last |-> <<b, n>>]
           S == Slice(b, first, last)
<1>1. \A n \in first .. last : <<b, n>> \in S
  BY JobType DEF Slice
<1>2. f \in Injection(first .. last, S)
  BY <1>1 DEF Injection, IsInjective
<1>3. f \in Surjection(first .. last, S)
  <2>1. \A j \in S : j[2] \in first .. last /\ j = <<b, j[2]>>
    BY JobType DEF Slice
  <2> QED BY <1>1, <2>1 DEF Surjection
<1>4. ExistsBijection(first .. last, S)
  BY <1>2, <1>3 DEF ExistsBijection, Bijection
<1>5. IsFiniteSet(first .. last) /\ Cardinality(first .. last) = last - first + 1
  BY FS_Interval
<1> QED BY <1>4, <1>5, FS_Bijection, JobType DEF Slice

LEMMA AllocateSlice ==
  ASSUME NEW b \in Batch, NEW first \in Nat, NEW last \in Nat,
         1 <= first, first <= last, last <= Txs(b),
         next \in Nat, nonce \in [Job -> Nat \cup {NoNonce}], HeldBelowNext, UniqueNonces,
         Allocate(b, Slice(b, first, last))
  PROVE  /\ next' \in Nat /\ nonce' \in [Job -> Nat \cup {NoNonce}]
         /\ HeldBelowNext' /\ UniqueNonces'
         /\ next' = next + (last - first + 1)
         /\ \A j \in Slice(b, first, last) : nonce'[j] = next + (j[2] - first)
         /\ \A j \in Job \ Slice(b, first, last) : nonce'[j] = nonce[j]
<1> DEFINE J == Slice(b, first, last)
           IsFirst(m) == <<b, m>> \in J /\ \A j \in J : m <= j[2]
<1>1. /\ Txs(b) \in Nat /\ Cardinality(J) = last - first + 1
      /\ \A j \in J : j[1] = b /\ j[2] \in first .. last /\ j \in Job
      /\ <<b, first>> \in J
  BY SliceSize, JobType DEF Slice
<1>2. (CHOOSE m \in 1 .. Txs(b) : IsFirst(m)) = first
  <2>1. first \in 1 .. Txs(b) /\ IsFirst(first)
    BY <1>1
  <2>2. \A m \in 1 .. Txs(b) : IsFirst(m) => m = first
    BY <1>1
  <2> HIDE DEF IsFirst
  <2> QED BY <2>1, <2>2
<1>3. /\ nonce' = [j \in Job |-> IF j \in J THEN next + (j[2] - first) ELSE nonce[j]]
      /\ next' = next + (last - first + 1)
  <2> DEFINE least == CHOOSE m \in 1 .. Txs(b) : IsFirst(m)
  <2>1. /\ nonce' = [j \in Job |-> IF j \in J THEN next + (j[2] - least) ELSE nonce[j]]
        /\ next' = next + Cardinality(J)
    BY Zenon DEF Allocate
  <2>2. least = first
    BY <1>2
  <2> HIDE DEF least, J
  <2> QED BY <1>1, <2>1, <2>2
<1>4. \A j \in J : nonce'[j] \in Nat /\ next <= nonce'[j] /\ nonce'[j] < next'
  BY <1>1, <1>3
<1>5. next' \in Nat /\ next < next'
  BY <1>3
<1>6. nonce' \in [Job -> Nat \cup {NoNonce}]
  BY <1>1, <1>3, <1>4
<1>7. \A j \in Job \ J : nonce'[j] = nonce[j]
  BY <1>3
<1>8. \A j \in Job \ J : nonce[j] # NoNonce => nonce[j] \in Nat /\ nonce[j] < next
  BY DEF HeldBelowNext
<1>9. HeldBelowNext'
  BY <1>4, <1>5, <1>7, <1>8 DEF HeldBelowNext
<1>10. UniqueNonces'
  <2> SUFFICES ASSUME NEW j \in Job, NEW k \in Job, j # k, nonce'[j] # NoNonce
               PROVE  nonce'[j] # nonce'[k]
    BY DEF UniqueNonces
  <2>1. CASE j \in J /\ k \in J
    <3>1. j[2] # k[2] /\ j[2] \in Nat /\ k[2] \in Nat
      BY <1>1, <2>1, JobType
    <3> QED BY <1>3, <2>1, <3>1
  <2>2. CASE j \in J /\ k \notin J
    BY <1>4, <1>7, <1>8, <2>2, BatchAssumption
  <2>3. CASE j \notin J /\ k \in J
    BY <1>4, <1>7, <1>8, <2>3
  <2>4. CASE j \notin J /\ k \notin J
    BY <1>7, <2>4 DEF UniqueNonces
  <2> QED BY <2>1, <2>2, <2>3, <2>4
<1>11. \A j \in J : nonce'[j] = next + (j[2] - first)
  BY <1>1, <1>3
<1> QED BY <1>3, <1>5, <1>6, <1>7, <1>9, <1>10, <1>11

\* The transactions that are numbered when chunk c of a batch begins: those
\* of the chunk, those of the batch, or none.
Fresh(b, c) == IF Kind[b] = "proxies" THEN ChunkOf(b, c)
               ELSE IF c = 1 THEN {j \in Job : j[1] = b} ELSE {}

LEMMA FreshShape ==
  ASSUME NEW b \in Batch, NEW c \in Nat \ {0},
         next \in Nat, nonce \in [Job -> Nat \cup {NoNonce}], AllocateFor(b, c)
  PROVE  \/ Fresh(b, c) = {} /\ nonce' = nonce /\ next' = next
         \/ \E first, last \in Nat :
              /\ 1 <= first /\ first <= last /\ last <= Txs(b)
              /\ Fresh(b, c) = Slice(b, first, last)
              /\ Allocate(b, Slice(b, first, last))
<1>1. Txs(b) \in Nat /\ 1 <= Txs(b)
  BY BatchAssumption DEF Txs
<1>2. CASE Kind[b] = "proxies"
  <2> DEFINE lo == (c - 1) * Width(b)
  <2>1. Width(b) \in Nat /\ 1 <= Width(b)
    BY BatchAssumption DEF Width
  <2>2. \A m, n \in Nat : m * n \in Nat /\ (m + 1) * n = m * n + n
    OBVIOUS
  <2>3. c - 1 \in Nat /\ c = (c - 1) + 1
    OBVIOUS
  <2>4. lo \in Nat /\ c * Width(b) = lo + Width(b)
    BY <2>1, <2>2, <2>3
  <2> HIDE DEF lo
  <2>5. ChunkOf(b, c) = {j \in Job : j[1] = b /\ lo < j[2] /\ j[2] <= lo + Width(b)}
    BY <2>4 DEF ChunkOf, lo
  <2>6. Allocate(b, ChunkOf(b, c))
    BY <1>2 DEF AllocateFor
  <2>7. CASE Txs(b) <= lo
    <3>1. ChunkOf(b, c) = {}
      BY <1>1, <2>4, <2>5, <2>7, JobType
    <3>2. nonce' = [j \in Job |-> nonce[j]] /\ next' = next + Cardinality({})
      BY <2>6, <3>1 DEF Allocate
    <3>3. nonce' = nonce /\ next' = next
      BY <3>2, FS_EmptySet
    <3> QED BY <1>2, <3>1, <3>3 DEF Fresh
  <2>8. CASE lo < Txs(b)
    <3> DEFINE last == IF Txs(b) <= lo + Width(b) THEN Txs(b) ELSE lo + Width(b)
    <3>1. /\ lo + 1 \in Nat /\ last \in Nat
          /\ 1 <= lo + 1 /\ lo + 1 <= last /\ last <= Txs(b)
      BY <1>1, <2>1, <2>4, <2>8
    <3>2. ChunkOf(b, c) = Slice(b, lo + 1, last)
      BY <1>1, <2>1, <2>4, <2>5, JobType DEF Slice
    <3> HIDE DEF last
    <3>3. Allocate(b, Slice(b, lo + 1, last))
      BY <2>6, <3>2
    <3> QED BY <1>2, <3>1, <3>2, <3>3 DEF Fresh
  <2> QED BY <1>1, <2>4, <2>7, <2>8
<1>3. CASE Kind[b] # "proxies" /\ c = 1
  <2>1. {j \in Job : j[1] = b} = Slice(b, 1, Txs(b))
    BY JobType DEF Slice
  <2>2. Allocate(b, Slice(b, 1, Txs(b)))
    BY <1>3, <2>1 DEF AllocateFor
  <2>3. Fresh(b, c) = Slice(b, 1, Txs(b))
    BY <1>3, <2>1 DEF Fresh
  <2> QED BY <1>1, <2>2, <2>3
<1>4. CASE Kind[b] # "proxies" /\ c # 1
  BY <1>4 DEF AllocateFor, Fresh
<1> QED BY <1>2, <1>3, <1>4

\* A batch or a chunk that begins keeps the nonces apart: it numbers its
\* transactions from the counter on, in order, and leaves no number out.
LEMMA AllocateForKeeps ==
  ASSUME NEW b \in Batch, NEW c \in Nat \ {0},
         next \in Nat, nonce \in [Job -> Nat \cup {NoNonce}], HeldBelowNext, UniqueNonces,
         AllocateFor(b, c)
  PROVE  /\ next' \in Nat /\ nonce' \in [Job -> Nat \cup {NoNonce}]
         /\ HeldBelowNext' /\ UniqueNonces'
         /\ next <= next'
         /\ \A j \in Fresh(b, c) : j \in Job /\ j[1] = b /\ nonce'[j] \in Nat /\ next <= nonce'[j]
         /\ \A j \in Job \ Fresh(b, c) : nonce'[j] = nonce[j]
         /\ \A j, k \in Fresh(b, c) : j[2] < k[2] => nonce'[j] < nonce'[k]
         /\ \A n \in next .. (next' - 1) : \E j \in Job : nonce'[j] = n
<1>1. CASE Fresh(b, c) = {} /\ nonce' = nonce /\ next' = next
  BY <1>1 DEF HeldBelowNext, UniqueNonces
<1>2. CASE \E first, last \in Nat :
              /\ 1 <= first /\ first <= last /\ last <= Txs(b)
              /\ Fresh(b, c) = Slice(b, first, last)
              /\ Allocate(b, Slice(b, first, last))
  <2>1. PICK first \in Nat, last \in Nat :
              /\ 1 <= first /\ first <= last /\ last <= Txs(b)
              /\ Fresh(b, c) = Slice(b, first, last)
              /\ Allocate(b, Slice(b, first, last))
    BY <1>2
  <2>2. /\ next' \in Nat /\ nonce' \in [Job -> Nat \cup {NoNonce}]
        /\ HeldBelowNext' /\ UniqueNonces'
        /\ next' = next + (last - first + 1)
        /\ \A j \in Fresh(b, c) : nonce'[j] = next + (j[2] - first)
        /\ \A j \in Job \ Fresh(b, c) : nonce'[j] = nonce[j]
    BY <2>1, AllocateSlice
  <2>3. \A j \in Fresh(b, c) : j \in Job /\ j[1] = b /\ j[2] \in first .. last
    BY <2>1, JobType DEF Slice
  <2>4. \A n \in first .. last : <<b, n>> \in Fresh(b, c) /\ <<b, n>> \in Job
    BY <2>1, JobType DEF Slice
  <2>5. ASSUME NEW n \in next .. (next' - 1)
        PROVE  \E j \in Job : nonce'[j] = n
    <3>1. n - next + first \in first .. last
      BY <2>2
    <3>2. nonce'[<<b, n - next + first>>] = n
      BY <2>2, <2>4, <3>1
    <3> QED BY <2>4, <3>1, <3>2
  <2>6. \A j \in Fresh(b, c) : j[2] \in Nat /\ first <= j[2]
    BY <2>3
  <2>7. \A j \in Fresh(b, c) : nonce'[j] \in Nat /\ next <= nonce'[j]
    BY <2>2, <2>6
  <2>8. \A j, k \in Fresh(b, c) : j[2] < k[2] => nonce'[j] < nonce'[k]
    BY <2>2, <2>6
  <2>9. next <= next'
    BY <2>1, <2>2
  <2> QED BY <2>2, <2>3, <2>5, <2>7, <2>8, <2>9
<1> QED BY <1>1, <1>2, FreshShape

-----------------------------------------------------------------------------
\* What the node counts is a number.
LEMMA PendingType ==
  ASSUME TypeOK, IsFiniteSet(DOMAIN pool)
  PROVE  PendingCount \in Nat
<1> DEFINE ready == {n \in DOMAIN pool : ChainNonce .. n \subseteq DOMAIN pool}
<1>1. Cardinality(ready) \in Nat
  <2>1. ready \in SUBSET DOMAIN pool
    OBVIOUS
  <2> QED BY <2>1, FS_Subset, FS_CardinalityType
<1>2. ChainNonce \in Nat
  BY DEF TypeOK, ChainNonce
<1> QED BY <1>1, <1>2 DEF PendingCount

\* A transaction that the node accepts is one of the tasks'.
LEMMA AcceptType ==
  ASSUME TypeOK, IsFiniteSet(DOMAIN pool), NEW j \in Job, Accept(j)
  PROVE  pool' \in [DOMAIN pool' -> Transaction] /\ IsFiniteSet(DOMAIN pool')
<1> DEFINE tx == [job |-> j, run |-> run]
<1>1. tx \in Transaction
  BY DEF TypeOK, Transaction
<1>2. \A n \in DOMAIN pool : pool[n] \in Transaction
  BY DEF TypeOK
<1>3. /\ DOMAIN pool' = DOMAIN pool \cup {SendNonce(j)}
      /\ \A n \in DOMAIN pool' : pool'[n] = IF n = SendNonce(j) THEN tx ELSE pool[n]
      /\ pool' = [n \in DOMAIN pool' |-> pool'[n]]
  BY DEF Accept
<1>4. IsFiniteSet(DOMAIN pool')
  BY <1>3, FS_AddElement
<1> HIDE DEF tx
<1>5. \A n \in DOMAIN pool' : pool'[n] \in Transaction
  BY <1>1, <1>2, <1>3
<1> QED BY <1>3, <1>4, <1>5

\* The state of the calls keeps its type however a call is answered.
LEMMA AnswerType ==
  ASSUME TypeOK, NEW j \in Job, NEW how \in {"transient", "fatal"}, Reject(j, how) \/ Report(j)
  PROVE  /\ call' \in [Job -> {"idle", "sending", "waiting", "ok", "failed"}]
         /\ verdict' \in [Batch -> {"none", "transient", "fatal"}]
<1>1. j[1] \in Batch
  BY JobType
<1> QED BY <1>1 DEF TypeOK, Reject, Report

LEMMA TransportType ==
  ASSUME TypeOK, NEW j \in Job, NEW sending \in BOOLEAN, Transport(j, sending)
  PROVE  /\ call' \in [Job -> {"idle", "sending", "waiting", "ok", "failed"}]
         /\ verdict' \in [Batch -> {"none", "transient", "fatal"}]
         /\ tries' \in [Job -> 0 .. MaxRetries]
<1>1. CASE Kind[j[1]] \in {"contracts", "config"}
  <2>1. Reject(j, "transient") /\ UNCHANGED tries
    BY <1>1 DEF Transport
  <2> QED BY <2>1, AnswerType DEF TypeOK
<1>2. CASE Kind[j[1]] = "proxies" /\ sending /\ tries[j] < MaxRetries
  <2>1. tries' = [tries EXCEPT ![j] = @ + 1] /\ UNCHANGED <<call, verdict>>
    BY <1>2 DEF Transport
  <2>2. tries[j] + 1 \in 0 .. MaxRetries
    BY <1>2, BatchAssumption DEF TypeOK
  <2> QED BY <2>1, <2>2 DEF TypeOK
<1>3. CASE /\ Kind[j[1]] \notin {"contracts", "config"}
           /\ ~(Kind[j[1]] = "proxies" /\ sending /\ tries[j] < MaxRetries)
  <2>1. Reject(j, "fatal") /\ UNCHANGED tries
    BY <1>3 DEF Transport
  <2> QED BY <2>1, AnswerType DEF TypeOK
<1> QED BY <1>1, <1>2, <1>3

\* A step that leaves the counter and the nonces alone.
LEMMA QuietKeeps ==
  ASSUME NonceInv, UNCHANGED <<next, nonce>>, TypeOK', IsFiniteSet(DOMAIN pool')
  PROVE  NonceInv'
BY DEF NonceInv, HeldBelowNext, UniqueNonces

LEMMA SendKeeps ==
  ASSUME NonceInv, NEW j \in Job, Send(j)
  PROVE  NonceInv'
<1>1. /\ pool' \in [DOMAIN pool' -> Transaction] /\ IsFiniteSet(DOMAIN pool')
      /\ call' \in [Job -> {"idle", "sending", "waiting", "ok", "failed"}]
      /\ verdict' \in [Batch -> {"none", "transient", "fatal"}]
  <2>1. CASE Expired(j) /\ OnExpired(j) /\ UNCHANGED pool
    <3>1. Reject(j, "fatal") \/ Report(j)
      BY <2>1 DEF OnExpired
    <3> QED BY <2>1, <3>1, AnswerType DEF NonceInv, TypeOK
  <2>2. CASE ~Expired(j) /\ Taken(j) /\ Reject(j, "fatal") /\ UNCHANGED pool
    BY <2>2, AnswerType DEF NonceInv, TypeOK
  <2>3. CASE /\ ~Expired(j) /\ ~Taken(j) /\ Accept(j)
             /\ call' = [call EXCEPT ![j] = "waiting"] /\ UNCHANGED verdict
    <3>1. pool' \in [DOMAIN pool' -> Transaction] /\ IsFiniteSet(DOMAIN pool')
      BY <2>3, AcceptType DEF NonceInv
    <3> QED BY <2>3, <3>1 DEF NonceInv, TypeOK
  <2> QED BY <2>1, <2>2, <2>3 DEF Send
<1>2. UNCHANGED <<next, nonce, chunk, tries, stale, mined, status, run, faults>>
  BY DEF Send, task
<1>3. TypeOK'
  BY <1>1, <1>2 DEF NonceInv, TypeOK
<1> QED BY <1>1, <1>2, <1>3, QuietKeeps

LEMMA SendStaleKeeps ==
  ASSUME NonceInv, NEW j \in Job, SendStale(j)
  PROVE  NonceInv'
<1>1. pool' \in [DOMAIN pool' -> Transaction] /\ IsFiniteSet(DOMAIN pool')
  BY AcceptType DEF SendStale, NonceInv, TypeOK
<1>2. /\ UNCHANGED <<next, nonce, chunk, call, verdict, tries, mined, status, run, faults>>
      /\ stale' = stale \ {j}
  BY DEF SendStale, task
<1>3. TypeOK'
  BY <1>1, <1>2 DEF NonceInv, TypeOK
<1> QED BY <1>1, <1>2, <1>3, QuietKeeps

LEMMA FaultKeeps ==
  ASSUME NonceInv, NEW j \in Job, SendFails(j) \/ FactoryFails(j) \/ WaitFails(j)
  PROVE  NonceInv'
<1>1. pool' \in [DOMAIN pool' -> Transaction] /\ IsFiniteSet(DOMAIN pool')
  <2>1. UNCHANGED pool \/ Accept(j)
    BY DEF SendFails, FactoryFails, WaitFails, net
  <2> QED BY <2>1, AcceptType DEF NonceInv, TypeOK
<1>2. /\ call' \in [Job -> {"idle", "sending", "waiting", "ok", "failed"}]
      /\ verdict' \in [Batch -> {"none", "transient", "fatal"}]
      /\ tries' \in [Job -> 0 .. MaxRetries]
  <2>1. CASE Transport(j, TRUE) \/ Transport(j, FALSE)
    BY <2>1, TransportType DEF NonceInv
  <2>2. CASE FactoryFails(j)
    <3>1. Reject(j, "fatal") /\ UNCHANGED tries
      BY <2>2 DEF FactoryFails
    <3> QED BY <3>1, AnswerType DEF NonceInv, TypeOK
  <2> QED BY <2>1, <2>2 DEF SendFails, WaitFails
<1>3. /\ UNCHANGED <<next, nonce, chunk, stale, mined, status, run>>
      /\ faults < MaxFaults /\ faults' = faults + 1
  BY DEF SendFails, FactoryFails, WaitFails, net, task
<1>4. faults' \in 0 .. MaxFaults
  BY <1>3, BatchAssumption DEF NonceInv, TypeOK
<1>5. TypeOK'
  BY <1>1, <1>2, <1>3, <1>4 DEF NonceInv, TypeOK
<1> QED BY <1>1, <1>3, <1>5, QuietKeeps

LEMMA ReceiptKeeps ==
  ASSUME NonceInv, NEW j \in Job, Receipt(j)
  PROVE  NonceInv'
<1>1. Reject(j, "fatal") \/ Report(j)
  BY DEF Receipt
<1>2. /\ call' \in [Job -> {"idle", "sending", "waiting", "ok", "failed"}]
      /\ verdict' \in [Batch -> {"none", "transient", "fatal"}]
  BY <1>1, AnswerType DEF NonceInv
<1>3. UNCHANGED <<next, nonce, chunk, tries, stale, pool, mined, status, run, faults>>
  BY DEF Receipt, net, task
<1>4. TypeOK' /\ IsFiniteSet(DOMAIN pool')
  BY <1>2, <1>3 DEF NonceInv, TypeOK
<1> QED BY <1>3, <1>4, QuietKeeps

\* The next chunk of a batch, its first one included.
LEMMA ChunkKeeps ==
  ASSUME NonceInv, NEW b \in Batch, Begin(b) \/ NextChunk(b)
  PROVE  NonceInv'
<1> DEFINE c == chunk[b] + 1
<1>1. c \in Nat \ {0} /\ chunk' = [chunk EXCEPT ![b] = c] /\ AllocateFor(b, c) /\ SendAll(b, c)
  <2>1. chunk[b] \in Nat
    BY DEF NonceInv, TypeOK
  <2>2. CASE Begin(b)
    <3>1. chunk[b] = 0 /\ c = 1
      BY <2>2 DEF Begin
    <3> QED BY <2>2, <3>1 DEF Begin
  <2>3. CASE NextChunk(b)
    BY <2>1, <2>3 DEF NextChunk
  <2> QED BY <2>2, <2>3
<1> HIDE DEF c
<1>2. /\ next' \in Nat /\ nonce' \in [Job -> Nat \cup {NoNonce}]
      /\ HeldBelowNext' /\ UniqueNonces'
  BY <1>1, AllocateForKeeps DEF NonceInv, TypeOK
<1>3. call' \in [Job -> {"idle", "sending", "waiting", "ok", "failed"}]
  BY <1>1 DEF SendAll, NonceInv, TypeOK
<1>4. UNCHANGED <<verdict, tries, stale, pool, mined, status, run, faults>>
  BY DEF Begin, NextChunk, net, task
<1>5. chunk' \in [Batch -> Nat]
  BY <1>1 DEF NonceInv, TypeOK
<1>6. TypeOK' /\ IsFiniteSet(DOMAIN pool')
  BY <1>2, <1>3, <1>4, <1>5 DEF NonceInv, TypeOK
<1> QED BY <1>2, <1>6 DEF NonceInv

LEMMA RetryChunkKeeps ==
  ASSUME NonceInv, NEW b \in Batch, RetryChunk(b)
  PROVE  NonceInv'
<1>1. UNCHANGED <<next, nonce, chunk, pool, mined, status, run, faults>>
  BY DEF RetryChunk, net, task
<1>2. tries' \in [Job -> 0 .. MaxRetries]
  <2>1. \A j \in Current(b) : j \in Job
    BY DEF Current, ChunkOf
  <2>2. \A j \in Job : tries[j] \in 0 .. MaxRetries
    BY DEF NonceInv, TypeOK
  <2>3. \A j \in Current(b) : tries[j] + 1 \in 0 .. MaxRetries
    BY <2>1, <2>2, BatchAssumption DEF RetryChunk
  <2> QED BY <2>2, <2>3 DEF RetryChunk
<1>3. /\ call' \in [Job -> {"idle", "sending", "waiting", "ok", "failed"}]
      /\ verdict' \in [Batch -> {"none", "transient", "fatal"}] /\ stale' \subseteq Job
  BY DEF RetryChunk, SendAll, NonceInv, TypeOK, Current, ChunkOf
<1>4. TypeOK' /\ IsFiniteSet(DOMAIN pool')
  BY <1>1, <1>2, <1>3 DEF NonceInv, TypeOK
<1> QED BY <1>1, <1>4, QuietKeeps

\* The sync at the end of a batch of configurations only raises the counter.
LEMMA EndBatchKeeps ==
  ASSUME NonceInv, NEW b \in Batch, EndBatch(b)
  PROVE  NonceInv'
<1>1. next' \in Nat /\ next <= next'
  <2>1. next \in Nat /\ PendingCount \in Nat
    BY PendingType DEF NonceInv, TypeOK
  <2> QED BY <2>1 DEF EndBatch, Synced
<1>2. /\ UNCHANGED <<nonce, call, verdict, tries, stale, pool, mined, status, run, faults>>
      /\ chunk' = [chunk EXCEPT ![b] = @ + 1]
  BY DEF EndBatch, net, task
<1>3. TypeOK' /\ IsFiniteSet(DOMAIN pool')
  BY <1>1, <1>2 DEF NonceInv, TypeOK
<1>4. HeldBelowNext'
  <2>1. \A j \in Job : nonce[j] # NoNonce => nonce[j] \in Nat /\ nonce[j] < next
    BY DEF NonceInv, TypeOK, HeldBelowNext
  <2>2. next \in Nat
    BY DEF NonceInv, TypeOK
  <2> QED BY <1>1, <1>2, <2>1, <2>2 DEF HeldBelowNext
<1>5. UniqueNonces'
  BY <1>2 DEF NonceInv, UniqueNonces
<1> QED BY <1>3, <1>4, <1>5 DEF NonceInv

LEMMA StopKeeps ==
  ASSUME NonceInv, Crash \/ Finish \/ (\E b \in Batch : Abort(b))
  PROVE  NonceInv'
<1>1. /\ UNCHANGED <<next, nonce, chunk, call, verdict, tries, stale, pool, mined, run>>
      /\ status' \in {"failed", "done"}
      /\ faults' = faults \/ (faults < MaxFaults /\ faults' = faults + 1)
  BY DEF Crash, Finish, Abort, net
<1>2. faults' \in 0 .. MaxFaults
  BY <1>1, BatchAssumption DEF NonceInv, TypeOK
<1>3. TypeOK' /\ IsFiniteSet(DOMAIN pool')
  BY <1>1, <1>2 DEF NonceInv, TypeOK
<1> QED BY <1>1, <1>3, QuietKeeps

\* A new run starts from what the node counts and forgets every nonce.
LEMMA RestartKeeps ==
  ASSUME NonceInv, Restart
  PROVE  NonceInv'
<1>1. /\ run' \in 1 .. MaxRuns /\ status' = "running" /\ next' \in Nat
      /\ nonce' = [j \in Job |-> NoNonce] /\ chunk' = [b \in Batch |-> 0]
      /\ call' = [j \in Job |-> "idle"] /\ verdict' = [b \in Batch |-> "none"]
      /\ tries' = [j \in Job |-> 0] /\ stale' = {}
      /\ UNCHANGED <<pool, mined, faults>>
  <2>1. next' \in Nat
    BY PendingType DEF Restart, NonceInv
  <2>2. run' \in 1 .. MaxRuns
    BY BatchAssumption DEF Restart, NonceInv, TypeOK
  <2> QED BY <2>1, <2>2 DEF Restart, net
<1>2. tries' \in [Job -> 0 .. MaxRetries]
  BY <1>1, BatchAssumption
<1>3. TypeOK' /\ IsFiniteSet(DOMAIN pool')
  BY <1>1, <1>2 DEF NonceInv, TypeOK
<1> QED BY <1>1, <1>3 DEF NonceInv, HeldBelowNext, UniqueNonces

LEMMA MineKeeps ==
  ASSUME NonceInv, Mine
  PROVE  NonceInv'
<1>1. UNCHANGED <<next, nonce, chunk, call, verdict, tries, stale, status, run, faults>>
  BY DEF Mine, task
<1>2. pool' \in [DOMAIN pool' -> Transaction] /\ IsFiniteSet(DOMAIN pool')
  <2>1. /\ DOMAIN pool' = DOMAIN pool \ {ChainNonce}
        /\ pool' = [n \in DOMAIN pool' |-> pool[n]]
    BY DEF Mine
  <2>2. \A n \in DOMAIN pool : pool[n] \in Transaction
    BY DEF NonceInv, TypeOK
  <2>3. IsFiniteSet(DOMAIN pool')
    BY <2>1, FS_RemoveElement DEF NonceInv
  <2> QED BY <2>1, <2>2, <2>3
<1>3. mined' \in Seq([job : Job, run : 1 .. MaxRuns, ok : BOOLEAN])
  <2>1. PICK ok \in BOOLEAN :
          mined' = Append(mined, [job |-> pool[ChainNonce].job, run |-> pool[ChainNonce].run, ok |-> ok])
    BY DEF Mine
  <2>2. pool[ChainNonce] \in Transaction
    BY DEF Mine, NonceInv, TypeOK
  <2>3. [job |-> pool[ChainNonce].job, run |-> pool[ChainNonce].run, ok |-> ok]
          \in [job : Job, run : 1 .. MaxRuns, ok : BOOLEAN]
    BY <2>2 DEF Transaction
  <2>4. mined \in Seq([job : Job, run : 1 .. MaxRuns, ok : BOOLEAN])
    BY DEF NonceInv, TypeOK
  <2> QED BY <2>1, <2>3, <2>4
<1>4. TypeOK'
  BY <1>1, <1>2, <1>3 DEF NonceInv, TypeOK
<1> QED BY <1>1, <1>2, <1>4, QuietKeeps

-----------------------------------------------------------------------------
LEMMA InitNonceInv == Init => NonceInv
<1> SUFFICES ASSUME Init PROVE NonceInv
  OBVIOUS
<1>1. DOMAIN pool = {} /\ IsFiniteSet(DOMAIN pool)
  BY FS_EmptySet DEF Init
<1>2. pool \in [DOMAIN pool -> Transaction]
  BY <1>1 DEF Init
<1>3. TypeOK
  BY <1>2, BatchAssumption DEF Init, TypeOK
<1> QED BY <1>1, <1>3 DEF Init, NonceInv, HeldBelowNext, UniqueNonces

LEMMA NextNonceInv == NonceInv /\ [Next]_vars => NonceInv'
<1> SUFFICES ASSUME NonceInv, [Next]_vars PROVE NonceInv'
  OBVIOUS
<1>1. ASSUME NEW j \in Job, CallStep(j) PROVE NonceInv'
  BY <1>1, SendKeeps, SendStaleKeeps, FaultKeeps, ReceiptKeeps DEF CallStep
<1>2. ASSUME NEW b \in Batch, BatchStep(b) PROVE NonceInv'
  BY <1>2, ChunkKeeps, RetryChunkKeeps, EndBatchKeeps, StopKeeps DEF BatchStep
<1>3. CASE Mine
  BY <1>3, MineKeeps
<1>4. CASE Crash \/ Finish
  BY <1>4, StopKeeps
<1>5. CASE Restart
  BY <1>5, RestartKeeps
<1>6. CASE UNCHANGED vars
  <2>1. TypeOK' /\ IsFiniteSet(DOMAIN pool')
    BY <1>6 DEF vars, net, task, NonceInv, TypeOK
  <2> QED BY <1>6, <2>1, QuietKeeps DEF vars
<1> QED BY <1>1, <1>2, <1>3, <1>4, <1>5, <1>6 DEF Next

\* Types, and the numbering: every nonce a transaction holds is below the
\* counter, and no other transaction of the run holds it.
THEOREM NoncesStayBelow == Spec => []NonceInv
BY InitNonceInv, NextNonceInv, PTL DEF Spec

\* Batches that run together never share a nonce, however many there are,
\* however often chunks are sent again and runs are started over.
THEOREM NoncesAreUnique == Spec => []UniqueNonces
<1>1. NonceInv => UniqueNonces
  BY DEF NonceInv
<1> QED BY <1>1, NoncesStayBelow, PTL

-----------------------------------------------------------------------------
\* The account's transactions, by nonce: on chain, then in the pool.
Ledger == [n \in (0 .. (ChainNonce - 1)) \cup DOMAIN pool |->
             IF n < ChainNonce THEN [job |-> mined[n + 1].job, run |-> mined[n + 1].run]
             ELSE pool[n]]

ByHand(b) == Kind[b] = "manual"
Repeated(b) == Kind[b] \in {"contracts", "config"}

\* The last transaction of the chunks behind a batch, and of the one it is at.
Done(b) == (chunk[b] - 1) * Width(b)
Reach(b) == chunk[b] * Width(b)

\* The pool holds what is still to be mined, and no run is ahead of this one.
PoolAhead == /\ \A n \in DOMAIN pool : n \in Nat /\ ChainNonce <= n
             /\ \A n \in DOMAIN Ledger : Ledger[n].run <= run

\* Who has a nonce, who has been called, and what may be sent again.
Started ==
  \A j \in Job :
    /\ call[j] # "idle" => nonce[j] # NoNonce /\ j[2] <= Reach(j[1])
    /\ nonce[j] # NoNonce => chunk[j[1]] > 0
    /\ nonce[j] # NoNonce /\ Kind[j[1]] = "proxies" => j[2] <= Reach(j[1])
    /\ chunk[j[1]] > 0 /\ Kind[j[1]] # "proxies" => nonce[j] # NoNonce
    /\ j \in stale => Repeated(j[1]) /\ nonce[j] # NoNonce
OnlyRepeated == \A b \in Batch : verdict[b] = "transient" => Repeated(b)

\* The chunks behind a batch are reported, and so are the stages behind it.
PastOk == \A j \in Job : chunk[j[1]] > 0 /\ j[2] <= Done(j[1]) => call[j] = "ok"
StagesWait == \A a, b \in Batch : Stage[a] < Stage[b] /\ chunk[b] > 0 => Ended(a)

\* The nonces of a batch follow its order.
NonceOrder ==
  \A j, k \in Job : j[1] = k[1] /\ j[2] < k[2] /\ nonce[j] # NoNonce /\ nonce[k] # NoNonce
                      => nonce[j] < nonce[k]

\* In the first run every number below the counter is held by a transaction.
AllHeld == run = 1 => \A n \in 0 .. (next - 1) : \E j \in Job : nonce[j] = n

\* A transaction of the run stands at its nonce, unless the provider chose
\* one for it in a later run; one sent by hand is never sent twice.
Placed ==
  \A n \in DOMAIN Ledger : Ledger[n].run = run =>
    /\ run = 1 \/ ~ByHand(Ledger[n].job[1]) => nonce[Ledger[n].job] = n
    /\ ByHand(Ledger[n].job[1]) => call[Ledger[n].job] \notin {"idle", "sending"}

\* What is reported has its nonce behind it; what is sent by hand, a receipt.
OkBehind ==
  \A j \in Job : call[j] = "ok" =>
    /\ ~ByHand(j[1]) => nonce[j] < ChainNonce
    /\ ByHand(j[1]) => \E n \in DOMAIN Ledger :
                         n < ChainNonce /\ Ledger[n].job = j /\ Ledger[n].run = run

\* The transactions of a run stand in the order of the task.
Before(j, k) == Stage[j[1]] <= Stage[k[1]] /\ (j[1] = k[1] => j[2] < k[2])
InOrder == \A m, n \in DOMAIN Ledger :
             m < n /\ Ledger[m].run = Ledger[n].run => Before(Ledger[m].job, Ledger[n].job)

ProgramInv == Started /\ OnlyRepeated /\ PastOk /\ StagesWait /\ NonceOrder /\ AllHeld
LedgerInv == PoolAhead /\ Placed /\ OkBehind /\ InOrder
OrderInv == NonceInv /\ ProgramInv /\ LedgerInv

-----------------------------------------------------------------------------
\* Chunks: how far a batch is, and what its current chunk is.
LEMMA Product ==
  ASSUME NEW c \in Nat, NEW w \in Nat
  PROVE  /\ c * w \in Nat /\ (c + 1) * w = c * w + w /\ (c - 1) * w = c * w - w
         /\ (c = 0 => c * w = 0) /\ (w = 1 => c * w = c)
OBVIOUS

LEMMA Covers ==
  ASSUME NEW t \in Nat, NEW w \in Nat \ {0}
  PROVE  (t + w - 1) \div w \in Nat /\ ((t + w - 1) \div w) * w >= t
OBVIOUS

LEMMA Monotone ==
  ASSUME NEW c \in Nat, NEW d \in Nat, NEW w \in Nat, c <= d
  PROVE  c * w <= d * w
OBVIOUS

LEMMA WidthFacts ==
  ASSUME NEW b \in Batch
  PROVE  /\ Width(b) \in Nat /\ 1 <= Width(b) /\ Txs(b) \in Nat
         /\ ByHand(b) => Width(b) = 1 /\ Txs(b) = 2
BY BatchAssumption, ManualAssumption DEF Width, Txs, ByHand, Paired

LEMMA ReachFacts ==
  ASSUME TypeOK, NEW b \in Batch
  PROVE  /\ chunk[b] \in Nat /\ Reach(b) \in Nat /\ Done(b) \in Int
         /\ Reach(b) = Done(b) + Width(b)
         /\ chunk[b] = 0 => Reach(b) = 0
         /\ Current(b) = {j \in Job : j[1] = b /\ Done(b) < j[2] /\ j[2] <= Reach(b)}
         /\ ChunkOf(b, chunk[b] + 1)
              = {j \in Job : j[1] = b /\ Reach(b) < j[2] /\ j[2] <= Reach(b) + Width(b)}
         /\ Ended(b) => Txs(b) <= Done(b)
         /\ ByHand(b) => Reach(b) = chunk[b] /\ Done(b) = chunk[b] - 1
<1>1. chunk[b] \in Nat /\ Width(b) \in Nat /\ 1 <= Width(b) /\ Txs(b) \in Nat
  BY WidthFacts DEF TypeOK
<1>2. /\ Reach(b) \in Nat /\ (chunk[b] + 1) * Width(b) = Reach(b) + Width(b)
      /\ Done(b) = Reach(b) - Width(b)
      /\ (chunk[b] = 0 => Reach(b) = 0) /\ (Width(b) = 1 => Reach(b) = chunk[b])
  BY <1>1, Product DEF Reach, Done
<1>3. Current(b) = {j \in Job : j[1] = b /\ Done(b) < j[2] /\ j[2] <= Reach(b)}
  BY DEF Current, ChunkOf, Done, Reach
<1>4. ChunkOf(b, chunk[b] + 1)
        = {j \in Job : j[1] = b /\ Reach(b) < j[2] /\ j[2] <= Reach(b) + Width(b)}
  <2>1. (chunk[b] + 1) - 1 = chunk[b]
    BY <1>1
  <2> QED BY <1>2, <2>1 DEF ChunkOf, Reach
<1>5. ASSUME Ended(b)
      PROVE  Txs(b) <= Done(b)
  <2>1. Chunks(b) \in Nat /\ Chunks(b) * Width(b) >= Txs(b)
    BY <1>1, Covers DEF Chunks
  <2>2. chunk[b] - 1 \in Nat /\ Chunks(b) <= chunk[b] - 1
    BY <1>1, <1>5, <2>1 DEF Ended
  <2>3. Chunks(b) * Width(b) <= (chunk[b] - 1) * Width(b)
    BY <1>1, <2>1, <2>2, Monotone
  <2>4. Chunks(b) * Width(b) \in Nat
    BY <1>1, <2>1, Product
  <2>5. Done(b) \in Int /\ Chunks(b) * Width(b) <= Done(b)
    BY <1>1, <1>2, <2>3 DEF Done
  <2> QED BY <1>1, <2>1, <2>4, <2>5
<1>6. ByHand(b) => Reach(b) = chunk[b] /\ Done(b) = chunk[b] - 1
  BY <1>2, WidthFacts
<1> QED BY <1>1, <1>2, <1>3, <1>4, <1>5, <1>6

\* A batch that has ended has all its calls reported.
LEMMA EndedOk ==
  ASSUME TypeOK, PastOk, NEW j \in Job, Ended(j[1])
  PROVE  call[j] = "ok"
<1>1. j[1] \in Batch /\ j[2] \in Nat /\ j[2] <= Txs(j[1]) /\ Txs(j[1]) \in Nat
  BY JobType
<1>2. Done(j[1]) \in Int /\ Txs(j[1]) <= Done(j[1]) /\ chunk[j[1]] \in Nat
  BY <1>1, ReachFacts
<1>3. chunk[j[1]] > 0
  BY <1>1, <1>2, ReachFacts, WidthFacts
<1> QED BY <1>1, <1>2, <1>3 DEF PastOk

-----------------------------------------------------------------------------
\* The ledger.
LEMMA LedgerFacts ==
  ASSUME NonceInv, PoolAhead
  PROVE  /\ ChainNonce \in Nat /\ run \in Nat
         /\ \A n \in DOMAIN Ledger : n \in Nat /\ Ledger[n] \in Transaction
         /\ \A n \in DOMAIN pool : n \in DOMAIN Ledger /\ Ledger[n] = pool[n] /\ ChainNonce <= n
         /\ \A n \in DOMAIN Ledger : ChainNonce <= n => n \in DOMAIN pool
         /\ \A n \in 0 .. (ChainNonce - 1) :
              /\ n \in DOMAIN Ledger
              /\ Ledger[n].job = mined[n + 1].job /\ Ledger[n].run = mined[n + 1].run
<1>1. ChainNonce \in Nat /\ run \in Nat
  BY DEF NonceInv, TypeOK, ChainNonce
<1>2. \A n \in 0 .. (ChainNonce - 1) :
        mined[n + 1].job \in Job /\ mined[n + 1].run \in 1 .. MaxRuns
  <2> DEFINE Rec == [job : Job, run : 1 .. MaxRuns, ok : BOOLEAN]
  <2>1. mined \in Seq(Rec)
    BY DEF NonceInv, TypeOK
  <2>2. \A r \in Rec : r.job \in Job /\ r.run \in 1 .. MaxRuns
    OBVIOUS
  <2> HIDE DEF Rec
  <2>3. \A i \in 1 .. Len(mined) : mined[i] \in Rec
    BY <2>1
  <2>4. \A n \in 0 .. (ChainNonce - 1) : n + 1 \in 1 .. Len(mined)
    BY <1>1 DEF ChainNonce
  <2> QED BY <2>2, <2>3, <2>4
<1>3. \A n \in DOMAIN pool : pool[n] \in Transaction
  BY DEF NonceInv, TypeOK
<1>4. \A n \in DOMAIN pool : n \in Nat /\ ChainNonce <= n
  BY DEF PoolAhead
<1>5. \A n \in DOMAIN Ledger : n \in Nat
  BY <1>1, <1>4 DEF Ledger
<1>6. \A n \in DOMAIN pool : n \in DOMAIN Ledger /\ Ledger[n] = pool[n]
  BY <1>1, <1>4 DEF Ledger
<1>7. \A n \in DOMAIN Ledger : ChainNonce <= n => n \in DOMAIN pool
  BY <1>1, <1>5 DEF Ledger
<1>8. ASSUME NEW n \in 0 .. (ChainNonce - 1)
      PROVE  /\ n \in DOMAIN Ledger /\ Ledger[n] \in Transaction
             /\ Ledger[n].job = mined[n + 1].job /\ Ledger[n].run = mined[n + 1].run
  <2>1. PICK r : r = mined[n + 1]
    OBVIOUS
  <2>2. r.job \in Job /\ r.run \in 1 .. MaxRuns
    BY <1>2, <2>1
  <2>3. n \in DOMAIN Ledger /\ n < ChainNonce
    BY <1>1 DEF Ledger
  <2>4. Ledger[n] = [job |-> r.job, run |-> r.run]
    BY <2>1, <2>3 DEF Ledger
  <2> QED BY <2>1, <2>2, <2>3, <2>4 DEF Transaction
<1>9. \A n \in DOMAIN Ledger : Ledger[n] \in Transaction
  <2> SUFFICES ASSUME NEW n \in DOMAIN Ledger
               PROVE  Ledger[n] \in Transaction
    OBVIOUS
  <2>1. CASE ChainNonce <= n
    BY <1>3, <1>6, <1>7, <2>1
  <2>2. CASE n < ChainNonce
    <3>1. n \in 0 .. (ChainNonce - 1)
      BY <1>1, <1>5, <2>2
    <3> QED BY <1>8, <3>1
  <2> QED BY <1>1, <1>5, <2>1, <2>2
<1> QED BY <1>1, <1>4, <1>5, <1>6, <1>7, <1>8, <1>9

\* A transaction of the ledger, and the job it carries.
LEMMA EntryFacts ==
  ASSUME NonceInv, PoolAhead, NEW n \in DOMAIN Ledger
  PROVE  /\ n \in Nat /\ Ledger[n].job \in Job /\ Ledger[n].run \in Nat
         /\ Ledger[n].job[1] \in Batch /\ Ledger[n].job[2] \in Nat
<1>1. n \in Nat /\ Ledger[n] \in Transaction
  BY LedgerFacts
<1>2. Ledger[n].job \in Job /\ Ledger[n].run \in 1 .. MaxRuns
  BY <1>1 DEF Transaction
<1> QED BY <1>1, <1>2, JobType, BatchAssumption

LEMMA LedgerAccept ==
  ASSUME NonceInv, PoolAhead, NEW j \in Job, SendNonce(j) \in Nat,
         ~Expired(j), ~Taken(j), Accept(j), UNCHANGED <<mined, run>>
  PROVE  \E n \in Nat :
           /\ n = SendNonce(j) /\ n \notin DOMAIN Ledger /\ ChainNonce <= n
           /\ DOMAIN Ledger' = DOMAIN Ledger \cup {n}
           /\ Ledger'[n] = [job |-> j, run |-> run]
           /\ \A m \in DOMAIN Ledger : Ledger'[m] = Ledger[m]
           /\ PoolAhead'
<1>1. PICK n \in Nat : n = SendNonce(j)
  OBVIOUS
<1>2. ChainNonce \in Nat /\ run \in Nat
  BY LedgerFacts
<1>3. ChainNonce <= n /\ n \notin DOMAIN pool
  BY <1>1, <1>2 DEF Expired, Taken
<1>4. n \notin DOMAIN Ledger
  BY <1>2, <1>3, LedgerFacts
<1>5. /\ DOMAIN pool' = DOMAIN pool \cup {n}
      /\ pool'[n] = [job |-> j, run |-> run]
      /\ \A m \in DOMAIN pool : pool'[m] = pool[m]
  <2>1. pool' = [m \in DOMAIN pool \cup {n} |-> IF m = n THEN [job |-> j, run |-> run] ELSE pool[m]]
    BY <1>1 DEF Accept
  <2>2. \A m \in DOMAIN pool : m # n
    BY <1>3
  <2> QED BY <2>1, <2>2
<1>6. ChainNonce' = ChainNonce
  BY DEF ChainNonce
<1>7. DOMAIN Ledger' = DOMAIN Ledger \cup {n}
  BY <1>5, <1>6 DEF Ledger
<1>8. Ledger'[n] = [job |-> j, run |-> run]
  BY <1>2, <1>3, <1>5, <1>6 DEF Ledger
<1>9. ASSUME NEW m \in DOMAIN Ledger
      PROVE  Ledger'[m] = Ledger[m]
  <2>1. CASE m < ChainNonce
    <3>1. m \in DOMAIN Ledger' /\ mined' = mined
      BY <1>7
    <3> QED BY <1>6, <2>1, <3>1 DEF Ledger
  <2>2. CASE ~ (m < ChainNonce)
    <3>1. m \in DOMAIN pool /\ m \in DOMAIN pool'
      BY <1>2, <1>5, <2>2, LedgerFacts
    <3> QED BY <1>5, <1>6, <2>2, <3>1 DEF Ledger
  <2> QED BY <2>1, <2>2
<1>10. PoolAhead'
  <2>1. \A m \in DOMAIN pool' : m \in Nat /\ ChainNonce' <= m
    BY <1>3, <1>5, <1>6 DEF PoolAhead
  <2>2. \A m \in DOMAIN Ledger' : Ledger'[m].run <= run'
    BY <1>2, <1>7, <1>8, <1>9 DEF PoolAhead
  <2> QED BY <2>1, <2>2 DEF PoolAhead
<1> QED BY <1>1, <1>3, <1>4, <1>7, <1>8, <1>9, <1>10

\* A mined transaction stays where it stood.
LEMMA LedgerMine ==
  ASSUME NonceInv, PoolAhead, Mine
  PROVE  /\ ChainNonce' = ChainNonce + 1
         /\ DOMAIN Ledger' = DOMAIN Ledger
         /\ \A n \in DOMAIN Ledger : Ledger'[n] = Ledger[n]
         /\ PoolAhead'
<1> DEFINE Rec == [job : Job, run : 1 .. MaxRuns, ok : BOOLEAN]
<1>1. ChainNonce \in Nat /\ mined \in Seq(Rec) /\ Len(mined) = ChainNonce
  BY LedgerFacts DEF NonceInv, TypeOK, ChainNonce
<1>2. PICK tx \in Transaction : tx = pool[ChainNonce]
  BY DEF Mine, NonceInv, TypeOK
<1>3. PICK ok \in BOOLEAN : mined' = Append(mined, [job |-> tx.job, run |-> tx.run, ok |-> ok])
  BY <1>2 DEF Mine
<1>4. PICK r \in Rec : r = [job |-> tx.job, run |-> tx.run, ok |-> ok]
  BY <1>2, <1>3 DEF Transaction
<1>5. mined' = Append(mined, r) /\ r.job = tx.job /\ r.run = tx.run
  BY <1>3, <1>4
<1> HIDE DEF Rec
<1>6. /\ ChainNonce' = ChainNonce + 1
      /\ mined'[ChainNonce + 1] = r
      /\ \A i \in 1 .. ChainNonce : mined'[i] = mined[i]
  BY <1>1, <1>5 DEF ChainNonce
<1>7. /\ ChainNonce \in DOMAIN pool
      /\ DOMAIN pool' = DOMAIN pool \ {ChainNonce}
      /\ \A n \in DOMAIN pool' : pool'[n] = pool[n]
  BY DEF Mine
<1>8. \A n \in DOMAIN pool : n \in Nat /\ ChainNonce <= n
  BY DEF PoolAhead
<1>9. 0 .. (ChainNonce' - 1) = (0 .. (ChainNonce - 1)) \cup {ChainNonce}
  BY <1>1, <1>6
<1>10. DOMAIN Ledger' = DOMAIN Ledger
  BY <1>7, <1>9 DEF Ledger
<1>11. ASSUME NEW n \in DOMAIN Ledger
       PROVE  Ledger'[n] = Ledger[n]
  <2>1. n \in Nat /\ n \in DOMAIN Ledger'
    BY <1>10, LedgerFacts
  <2>2. CASE n < ChainNonce
    <3>1. n + 1 \in 1 .. ChainNonce /\ n < ChainNonce'
      BY <1>1, <1>6, <2>1, <2>2
    <3>2. mined'[n + 1] = mined[n + 1]
      BY <1>6, <3>1
    <3> QED BY <2>1, <2>2, <3>1, <3>2 DEF Ledger
  <2>3. CASE n = ChainNonce
    <3>1. n < ChainNonce' /\ ~ (n < ChainNonce) /\ mined'[n + 1] = r
      BY <1>1, <1>6, <2>3
    <3>2. Ledger'[n] = [job |-> tx.job, run |-> tx.run]
      BY <1>5, <2>1, <3>1 DEF Ledger
    <3>3. Ledger[n] = tx
      BY <1>2, <2>3, <3>1 DEF Ledger
    <3> QED BY <3>2, <3>3 DEF Transaction
  <2>4. CASE n > ChainNonce
    <3>1. ~ (n < ChainNonce) /\ ~ (n < ChainNonce')
      BY <1>1, <1>6, <2>1, <2>4
    <3>2. n \in DOMAIN pool'
      BY <1>1, <1>7, <2>1, <2>4, LedgerFacts
    <3> QED BY <1>7, <2>1, <3>1, <3>2 DEF Ledger
  <2> QED BY <1>1, <2>1, <2>2, <2>3, <2>4
<1>12. PoolAhead'
  <2>1. \A n \in DOMAIN pool' : n \in Nat /\ ChainNonce' <= n
    BY <1>1, <1>6, <1>7, <1>8
  <2>2. run' = run
    BY DEF Mine, task
  <2> QED BY <1>10, <1>11, <2>1, <2>2 DEF PoolAhead
<1> QED BY <1>6, <1>10, <1>11, <1>12

-----------------------------------------------------------------------------
\* A run sends each transaction once.
LEMMA OnceInRun ==
  ASSUME NonceInv, PoolAhead, InOrder, NEW m \in DOMAIN Ledger, NEW n \in DOMAIN Ledger,
         Ledger[m].job = Ledger[n].job, Ledger[m].run = Ledger[n].run
  PROVE  m = n
<1>1. m \in Nat /\ n \in Nat /\ Ledger[m].job[2] \in Nat
  BY EntryFacts
<1>2. ~ Before(Ledger[m].job, Ledger[n].job) /\ ~ Before(Ledger[n].job, Ledger[m].job)
  BY <1>1 DEF Before
<1> QED BY <1>1, <1>2 DEF InOrder

\* What the run has been told of is on chain.
LEMMA OkOnChain ==
  ASSUME OrderInv, NEW m \in DOMAIN Ledger, Ledger[m].run = run, call[Ledger[m].job] = "ok"
  PROVE  m < ChainNonce
<1>1. m \in Nat /\ Ledger[m].job \in Job /\ ChainNonce \in Nat
  BY EntryFacts, LedgerFacts DEF OrderInv, LedgerInv
<1>2. CASE ~ ByHand(Ledger[m].job[1])
  <2>1. nonce[Ledger[m].job] = m /\ nonce[Ledger[m].job] < ChainNonce
    BY <1>1, <1>2 DEF OrderInv, LedgerInv, Placed, OkBehind
  <2> QED BY <2>1
<1>3. CASE ByHand(Ledger[m].job[1])
  <2>1. PICK n \in DOMAIN Ledger :
          n < ChainNonce /\ Ledger[n].job = Ledger[m].job /\ Ledger[n].run = run
    BY <1>1, <1>3 DEF OrderInv, LedgerInv, OkBehind
  <2>2. n = m
    BY <2>1, OnceInRun DEF OrderInv, LedgerInv
  <2> QED BY <2>1, <2>2
<1> QED BY <1>2, <1>3

\* A call that is being made, or repeated, and has not gone through yet.
Pending(j) == call[j] = "sending" \/ (j \in stale /\ call[j] # "ok")

\* A transaction of the run has a batch that has begun.
LEMMA SentHasBegun ==
  ASSUME OrderInv, NEW m \in DOMAIN Ledger, Ledger[m].run = run
  PROVE  /\ chunk[Ledger[m].job[1]] > 0 /\ nonce[Ledger[m].job] # NoNonce
         /\ ByHand(Ledger[m].job[1]) => Ledger[m].job[2] <= Reach(Ledger[m].job[1])
<1>1. m \in Nat /\ Ledger[m].job \in Job
  BY EntryFacts DEF OrderInv, LedgerInv
<1>2. CASE ~ ByHand(Ledger[m].job[1])
  BY <1>1, <1>2, BatchAssumption DEF OrderInv, LedgerInv, ProgramInv, Placed, Started
<1>3. CASE ByHand(Ledger[m].job[1])
  BY <1>1, <1>3 DEF OrderInv, LedgerInv, ProgramInv, Placed, Started
<1> QED BY <1>2, <1>3

\* What the run has sent comes before what it is about to send, unless the
\* nonces of one batch say otherwise.
LEMMA SentBefore ==
  ASSUME OrderInv, NEW j \in Job, Pending(j), NEW m \in DOMAIN Ledger, Ledger[m].run = run,
         NEW n \in Nat, n = SendNonce(j), n \notin DOMAIN Ledger, ChainNonce <= n
  PROVE  /\ m < n => Before(Ledger[m].job, j)
         /\ n < m => Before(j, Ledger[m].job)
<1>1. /\ m \in Nat /\ ChainNonce \in Nat /\ run \in Nat
      /\ j[1] \in Batch /\ j[2] \in Nat /\ 1 <= j[2] /\ j[2] <= Txs(j[1]) /\ j = <<j[1], j[2]>>
      /\ Stage[j[1]] \in Nat
  BY EntryFacts, LedgerFacts, JobType, BatchAssumption DEF OrderInv, LedgerInv
<1>2. PICK k \in Job : k = Ledger[m].job
  BY EntryFacts DEF OrderInv, LedgerInv
<1>3. /\ k[1] \in Batch /\ k[2] \in Nat /\ 1 <= k[2] /\ k[2] <= Txs(k[1]) /\ k = <<k[1], k[2]>>
      /\ Stage[k[1]] \in Nat
  BY <1>2, JobType, BatchAssumption
<1>4. call[k] = "ok" => m < n
  BY <1>1, <1>2, OkOnChain
<1>5. call[j] # "ok" /\ nonce[j] # NoNonce /\ chunk[j[1]] > 0
  BY DEF Pending, OrderInv, ProgramInv, Started
<1>6. /\ chunk[k[1]] > 0 /\ nonce[k] # NoNonce
      /\ ByHand(k[1]) => k[2] <= Reach(k[1]) /\ call[k] \notin {"idle", "sending"}
  BY <1>2, SentHasBegun DEF OrderInv, LedgerInv, Placed
<1>7. CASE Stage[k[1]] < Stage[j[1]]
  <2>1. Ended(k[1])
    BY <1>1, <1>3, <1>5, <1>7 DEF OrderInv, ProgramInv, StagesWait
  <2>2. m < n
    BY <1>4, <2>1, EndedOk DEF OrderInv, ProgramInv, NonceInv
  <2>3. Before(k, j)
    BY <1>1, <1>3, <1>7 DEF Before
  <2> QED BY <1>1, <1>2, <2>2, <2>3
<1>8. CASE Stage[j[1]] < Stage[k[1]]
  <2>1. Ended(j[1])
    BY <1>1, <1>3, <1>6, <1>8 DEF OrderInv, ProgramInv, StagesWait
  <2> QED BY <1>5, <2>1, EndedOk DEF OrderInv, ProgramInv, NonceInv
<1>9. CASE Stage[j[1]] = Stage[k[1]] /\ j[1] # k[1]
  BY <1>1, <1>2, <1>3, <1>9 DEF Before
<1>10. CASE j[1] = k[1] /\ ~ ByHand(j[1])
  <2>1. nonce[k] = m /\ nonce[j] = n
    BY <1>2, <1>10 DEF OrderInv, LedgerInv, Placed, SendNonce, ByHand
  <2>2. m # n /\ j # k
    BY <2>1
  <2>3. j[2] # k[2]
    BY <1>1, <1>3, <1>10, <2>2
  <2>4. j[2] < k[2] => n < m
    BY <1>5, <1>6, <1>10, <2>1 DEF OrderInv, ProgramInv, NonceOrder
  <2>5. k[2] < j[2] => m < n
    BY <1>5, <1>6, <1>10, <2>1 DEF OrderInv, ProgramInv, NonceOrder
  <2> QED BY <1>1, <1>2, <1>3, <1>10, <2>3, <2>4, <2>5 DEF Before
<1>11. CASE j[1] = k[1] /\ ByHand(j[1])
  <2>1. call[j] = "sending"
    BY <1>11 DEF Pending, OrderInv, ProgramInv, Started, ByHand, Repeated
  <2>2. j # k /\ j[2] # k[2]
    BY <1>1, <1>3, <1>6, <1>11, <2>1
  <2>3. /\ j[2] <= Reach(j[1]) /\ Txs(j[1]) = 2 /\ chunk[j[1]] \in Nat
        /\ Reach(j[1]) = chunk[j[1]] /\ Done(j[1]) = chunk[j[1]] - 1
    BY <1>1, <1>11, <2>1, ReachFacts, WidthFacts
      DEF OrderInv, ProgramInv, Started, NonceInv
  <2>4. CASE k[2] < j[2]
    <3>1. k[2] <= Done(k[1])
      BY <1>3, <1>1, <1>11, <2>3, <2>4
    <3>2. call[k] = "ok"
      BY <1>6, <3>1 DEF OrderInv, ProgramInv, PastOk
    <3> QED BY <1>1, <1>2, <1>3, <1>4, <1>11, <2>4, <3>2 DEF Before
  <2>5. CASE j[2] < k[2]
    <3>1. j[2] <= Done(j[1])
      BY <1>1, <1>3, <1>6, <1>11, <2>3, <2>5
    <3>2. call[j] = "ok"
      BY <1>5, <3>1 DEF OrderInv, ProgramInv, PastOk
    <3> QED BY <2>1, <3>2
  <2> QED BY <1>1, <1>3, <2>2, <2>4, <2>5
<1> QED BY <1>1, <1>3, <1>7, <1>8, <1>9, <1>10, <1>11

\* In the first run the provider gives a proxy that is sent by hand the nonce
\* that was allocated for it: nothing else is running, and everything before
\* it is on chain.
LEMMA ByHandNonce ==
  ASSUME OrderInv, run = 1, NEW j \in Job, ByHand(j[1]), call[j] = "sending"
  PROVE  PendingCount = nonce[j]
<1>1. /\ ChainNonce \in Nat /\ next \in Nat /\ nonce \in [Job -> Nat \cup {NoNonce}]
      /\ j[1] \in Batch /\ j[2] \in Nat /\ 1 <= j[2] /\ j[2] <= Txs(j[1])
  BY LedgerFacts, JobType DEF OrderInv, LedgerInv, NonceInv, TypeOK
<1>2. nonce[j] \in Nat /\ nonce[j] < next /\ j[2] <= Reach(j[1]) /\ chunk[j[1]] > 0
  BY <1>1 DEF OrderInv, ProgramInv, Started, NonceInv, HeldBelowNext
<1>3. \A n \in DOMAIN Ledger : n \in Nat /\ Ledger[n].run = 1
  BY LedgerFacts DEF OrderInv, LedgerInv, PoolAhead, Transaction
<1>4. \A n \in DOMAIN Ledger : nonce[Ledger[n].job] = n /\ Ledger[n].job # j /\ Ledger[n].job \in Job
  BY <1>3, EntryFacts DEF OrderInv, LedgerInv, Placed
<1>5. nonce[j] \notin DOMAIN Ledger
  BY <1>2, <1>4, BatchAssumption DEF OrderInv, NonceInv, UniqueNonces
<1>6. \A n \in 0 .. (ChainNonce - 1) : n \in DOMAIN Ledger
  BY LedgerFacts DEF OrderInv, LedgerInv
<1>7. ChainNonce <= nonce[j]
  BY <1>1, <1>2, <1>5, <1>6
<1>8. ASSUME NEW k \in Job, nonce[k] # NoNonce, nonce[k] < nonce[j]
      PROVE  call[k] = "ok"
  <2>1. /\ k[1] \in Batch /\ k[2] \in Nat /\ Stage[k[1]] \in Nat /\ Stage[j[1]] \in Nat
        /\ 1 <= k[2] /\ k = <<k[1], k[2]>> /\ j = <<j[1], j[2]>>
    BY <1>1, JobType, BatchAssumption
  <2>2. chunk[k[1]] > 0
    BY <1>8 DEF OrderInv, ProgramInv, Started
  <2>3. CASE k[1] = j[1]
    <3>1. k[2] < j[2]
      <4>1. k # j /\ nonce[k] \in Nat
        BY <1>1, <1>2, <1>8
      <4>2. ~ (j[2] < k[2])
        BY <1>2, <1>8, <2>3, <4>1, BatchAssumption DEF OrderInv, ProgramInv, NonceOrder
      <4> QED BY <1>1, <2>1, <2>3, <4>1, <4>2
    <3>2. Done(j[1]) = chunk[j[1]] - 1 /\ Reach(j[1]) = chunk[j[1]] /\ chunk[j[1]] \in Nat
      BY <1>1, ReachFacts DEF OrderInv, NonceInv
    <3>3. k[2] <= Done(k[1])
      BY <1>1, <1>2, <2>1, <2>3, <3>1, <3>2
    <3> QED BY <2>2, <3>3 DEF OrderInv, ProgramInv, PastOk
  <2>4. CASE k[1] # j[1]
    <3>1. Stage[k[1]] # Stage[j[1]]
      BY <1>1, <2>1, <2>4, ManualAssumption DEF ByHand
    <3>2. ~ Ended(j[1])
      BY EndedOk DEF OrderInv, ProgramInv, NonceInv
    <3>3. Ended(k[1])
      BY <1>1, <1>2, <2>1, <2>2, <3>1, <3>2 DEF OrderInv, ProgramInv, StagesWait
    <3> QED BY <3>3, EndedOk DEF OrderInv, ProgramInv, NonceInv
  <2> QED BY <2>3, <2>4
<1>9. nonce[j] <= ChainNonce
  <2> SUFFICES ASSUME ChainNonce < nonce[j]
               PROVE  FALSE
    BY <1>1, <1>2
  <2>1. ChainNonce \in 0 .. (next - 1)
    BY <1>1, <1>2
  <2>2. PICK k \in Job : nonce[k] = ChainNonce
    BY <2>1 DEF OrderInv, ProgramInv, AllHeld
  <2>3. call[k] = "ok"
    BY <1>1, <1>8, <2>2, BatchAssumption
  <2>4. CASE ~ ByHand(k[1])
    BY <1>1, <2>2, <2>3, <2>4 DEF OrderInv, LedgerInv, OkBehind
  <2>5. CASE ByHand(k[1])
    <3>1. PICK n \in DOMAIN Ledger : n < ChainNonce /\ Ledger[n].job = k
      BY <2>3, <2>5 DEF OrderInv, LedgerInv, OkBehind
    <3> QED BY <1>1, <1>4, <2>2, <3>1
  <2> QED BY <2>4, <2>5
<1>10. {n \in DOMAIN pool : ChainNonce .. n \subseteq DOMAIN pool} = {}
  <2>1. ChainNonce \notin DOMAIN pool
    BY <1>1, <1>2, <1>5, <1>7, <1>9, LedgerFacts DEF OrderInv, LedgerInv
  <2>2. \A n \in DOMAIN pool : n \in Nat /\ ChainNonce <= n
    BY DEF OrderInv, LedgerInv, PoolAhead
  <2>3. \A n \in DOMAIN pool : ChainNonce \in ChainNonce .. n
    BY <1>1, <2>2
  <2> QED BY <2>1, <2>3
<1>11. PendingCount = ChainNonce + 0
  BY <1>10, FS_EmptySet DEF PendingCount
<1> QED BY <1>1, <1>2, <1>7, <1>9, <1>11

-----------------------------------------------------------------------------
\* Steps that hand out no nonce and end no chunk.
LEMMA ProgramKept ==
  ASSUME ProgramInv, TypeOK, UNCHANGED <<next, nonce, chunk, run>>,
         \A k \in Job : k \in stale' => k \in stale \/ (Repeated(k[1]) /\ nonce[k] # NoNonce),
         \A k \in Job : call'[k] # "idle" =>
           call[k] # "idle" \/ (nonce[k] # NoNonce /\ k[2] <= Reach(k[1])),
         \A k \in Job : call[k] = "ok" => call'[k] = "ok" \/ Done(k[1]) < k[2],
         \A b \in Batch : verdict'[b] = "transient" => Repeated(b)
  PROVE  ProgramInv'
<1>1. \A b : Reach(b)' = Reach(b) /\ Done(b)' = Done(b) /\ Ended(b)' = Ended(b)
  BY DEF Reach, Done, Ended
<1>2. Started'
  <2> SUFFICES ASSUME NEW j \in Job
               PROVE  /\ call'[j] # "idle" => nonce'[j] # NoNonce /\ j[2] <= Reach(j[1])'
                      /\ nonce'[j] # NoNonce => chunk'[j[1]] > 0
                      /\ nonce'[j] # NoNonce /\ Kind[j[1]] = "proxies" => j[2] <= Reach(j[1])'
                      /\ chunk'[j[1]] > 0 /\ Kind[j[1]] # "proxies" => nonce'[j] # NoNonce
                      /\ j \in stale' => Repeated(j[1]) /\ nonce'[j] # NoNonce
    BY DEF Started, Repeated
  <2>1. Reach(j[1])' = Reach(j[1])
    BY <1>1
  <2> QED BY <2>1 DEF ProgramInv, Started
<1>3. OnlyRepeated'
  BY DEF OnlyRepeated, Repeated
<1>4. PastOk'
  <2> SUFFICES ASSUME NEW j \in Job, chunk'[j[1]] > 0, j[2] <= Done(j[1])'
               PROVE  call'[j] = "ok"
    BY DEF PastOk
  <2>1. j[2] <= Done(j[1]) /\ Done(j[1]) \in Int /\ j[2] \in Nat
    BY <1>1, JobType, ReachFacts
  <2> QED BY <2>1 DEF ProgramInv, PastOk
<1>5. StagesWait'
  <2> SUFFICES ASSUME NEW a \in Batch, NEW b \in Batch, Stage[a] < Stage[b], chunk'[b] > 0
               PROVE  Ended(a)'
    BY DEF StagesWait
  <2>1. Ended(a)' = Ended(a)
    BY <1>1
  <2> QED BY <2>1 DEF ProgramInv, StagesWait
<1>6. NonceOrder' /\ AllHeld'
  BY DEF ProgramInv, NonceOrder, AllHeld
<1> QED BY <1>2, <1>3, <1>4, <1>5, <1>6 DEF ProgramInv

\* Steps that send nothing and mine nothing.
LEMMA LedgerKept ==
  ASSUME OrderInv, UNCHANGED <<pool, mined, run>>,
         \A k \in Job : nonce[k] # NoNonce => nonce'[k] = nonce[k],
         \A k \in Job : call'[k] = "ok" /\ call[k] # "ok" =>
           /\ nonce[k] # NoNonce
           /\ ~ByHand(k[1]) => nonce[k] < ChainNonce
           /\ ByHand(k[1]) => \E n \in DOMAIN Ledger :
                                n < ChainNonce /\ Ledger[n].job = k /\ Ledger[n].run = run,
         \A k \in Job : ByHand(k[1]) /\ call'[k] \in {"idle", "sending"} =>
           call[k] \in {"idle", "sending"}
  PROVE  LedgerInv'
<1>1. Ledger' = Ledger /\ ChainNonce' = ChainNonce
  BY DEF Ledger, ChainNonce
<1>2. \A n \in DOMAIN Ledger : Ledger[n].job \in Job
  BY EntryFacts DEF OrderInv, LedgerInv
<1>3. PoolAhead' /\ InOrder'
  BY <1>1 DEF OrderInv, LedgerInv, PoolAhead, InOrder, Before
<1>4. Placed'
  <2> SUFFICES ASSUME NEW n \in DOMAIN Ledger, Ledger[n].run = run
               PROVE  /\ run = 1 \/ ~ByHand(Ledger[n].job[1]) => nonce'[Ledger[n].job] = n
                      /\ ByHand(Ledger[n].job[1]) => call'[Ledger[n].job] \notin {"idle", "sending"}
    BY <1>1 DEF Placed, ByHand
  <2>1. nonce[Ledger[n].job] # NoNonce /\ Ledger[n].job \in Job
    BY <1>2, SentHasBegun
  <2> QED BY <2>1 DEF OrderInv, LedgerInv, Placed
<1>5. OkBehind'
  <2> SUFFICES ASSUME NEW k \in Job, call'[k] = "ok"
               PROVE  /\ ~ByHand(k[1]) => nonce'[k] < ChainNonce
                      /\ ByHand(k[1]) => \E n \in DOMAIN Ledger :
                            n < ChainNonce /\ Ledger[n].job = k /\ Ledger[n].run = run
    BY <1>1 DEF OkBehind, ByHand
  <2>1. CASE call[k] = "ok"
    <3>1. nonce[k] # NoNonce
      BY <2>1 DEF OrderInv, ProgramInv, Started
    <3> QED BY <2>1, <3>1 DEF OrderInv, LedgerInv, OkBehind
  <2>2. CASE call[k] # "ok"
    BY <2>2
  <2> QED BY <2>1, <2>2
<1> QED BY <1>3, <1>4, <1>5 DEF LedgerInv

\* The node takes a transaction.
LEMMA AcceptKept ==
  ASSUME OrderInv, NEW j \in Job, Pending(j), ~Expired(j), ~Taken(j), Accept(j),
         UNCHANGED <<mined, nonce, run>>,
         \A k \in Job : call'[k] = "ok" => call[k] = "ok",
         \A k \in Job : ByHand(k[1]) /\ call'[k] \in {"idle", "sending"} => call[k] \in {"idle", "sending"},
         ByHand(j[1]) => call'[j] \notin {"idle", "sending"}
  PROVE  LedgerInv'
<1>1. /\ nonce[j] \in Nat /\ PendingCount \in Nat /\ run \in Nat /\ ChainNonce \in Nat
      /\ j[1] \in Batch
  <2>1. nonce[j] # NoNonce
    BY DEF Pending, OrderInv, ProgramInv, Started
  <2>2. nonce[j] \in Nat
    BY <2>1 DEF OrderInv, NonceInv, TypeOK
  <2>3. run \in Nat /\ ChainNonce \in Nat /\ j[1] \in Batch
    BY LedgerFacts, JobType DEF OrderInv, LedgerInv
  <2>4. PendingCount \in Nat
    BY PendingType DEF OrderInv, NonceInv
  <2> QED BY <2>2, <2>3, <2>4
<1>2. SendNonce(j) \in Nat
  BY <1>1 DEF SendNonce
<1>3. PICK n \in Nat :
        /\ n = SendNonce(j) /\ n \notin DOMAIN Ledger /\ ChainNonce <= n
        /\ DOMAIN Ledger' = DOMAIN Ledger \cup {n}
        /\ Ledger'[n] = [job |-> j, run |-> run]
        /\ \A m \in DOMAIN Ledger : Ledger'[m] = Ledger[m]
        /\ PoolAhead'
  BY <1>2, LedgerAccept DEF OrderInv, LedgerInv
<1>4. ChainNonce' = ChainNonce
  BY DEF ChainNonce
<1>5. Ledger'[n].job = j /\ Ledger'[n].run = run
  BY <1>3
<1>6. run = 1 \/ ~ByHand(j[1]) => nonce[j] = n
  <2>1. CASE ~ ByHand(j[1])
    BY <1>3, <2>1 DEF SendNonce, ByHand
  <2>2. CASE run = 1 /\ ByHand(j[1])
    <3>1. call[j] = "sending"
      BY <2>2 DEF Pending, OrderInv, ProgramInv, Started, ByHand, Repeated
    <3>2. PendingCount = nonce[j]
      BY <2>2, <3>1, ByHandNonce
    <3> QED BY <1>3, <2>2, <3>2 DEF SendNonce, ByHand
  <2> QED BY <2>1, <2>2
<1>7. \A m \in DOMAIN Ledger : Ledger[m].job \in Job
  BY EntryFacts DEF OrderInv, LedgerInv
<1>8. Placed'
  <2> SUFFICES ASSUME NEW m \in DOMAIN Ledger', Ledger'[m].run = run
               PROVE  /\ run = 1 \/ ~ByHand(Ledger'[m].job[1]) => nonce[Ledger'[m].job] = m
                      /\ ByHand(Ledger'[m].job[1]) => call'[Ledger'[m].job] \notin {"idle", "sending"}
    BY DEF Placed, ByHand
  <2>1. CASE m = n
    BY <1>5, <1>6, <2>1
  <2>2. CASE m \in DOMAIN Ledger
    <3>1. Ledger'[m] = Ledger[m] /\ Ledger[m].run = run /\ Ledger[m].job \in Job
      BY <1>3, <1>7, <2>2
    <3> QED BY <2>2, <3>1 DEF OrderInv, LedgerInv, Placed
  <2> QED BY <1>3, <2>1, <2>2
<1>9. OkBehind'
  <2> SUFFICES ASSUME NEW k \in Job, call'[k] = "ok"
               PROVE  /\ ~ByHand(k[1]) => nonce[k] < ChainNonce
                      /\ ByHand(k[1]) => \E m \in DOMAIN Ledger' :
                            m < ChainNonce /\ Ledger'[m].job = k /\ Ledger'[m].run = run
    BY <1>4 DEF OkBehind, ByHand
  <2>1. /\ ~ByHand(k[1]) => nonce[k] < ChainNonce
        /\ ByHand(k[1]) => \E m \in DOMAIN Ledger :
              m < ChainNonce /\ Ledger[m].job = k /\ Ledger[m].run = run
    BY DEF OrderInv, LedgerInv, OkBehind
  <2> QED BY <1>3, <2>1
<1>10. InOrder'
  <2> SUFFICES ASSUME NEW l \in DOMAIN Ledger', NEW m \in DOMAIN Ledger',
                      l < m, Ledger'[l].run = Ledger'[m].run
               PROVE  Before(Ledger'[l].job, Ledger'[m].job)
    BY DEF InOrder, Before
  <2>1. \A x \in DOMAIN Ledger : x \in Nat
    BY EntryFacts DEF OrderInv, LedgerInv
  <2>2. CASE l \in DOMAIN Ledger /\ m \in DOMAIN Ledger
    BY <1>3, <2>2 DEF OrderInv, LedgerInv, InOrder
  <2>3. CASE l \in DOMAIN Ledger /\ m = n
    <3>1. Ledger[l].run = run /\ Ledger'[l] = Ledger[l]
      BY <1>3, <1>5, <2>3
    <3>2. Before(Ledger[l].job, j)
      BY <1>3, <2>3, <3>1, SentBefore
    <3> QED BY <1>5, <2>3, <3>1, <3>2
  <2>4. CASE l = n /\ m \in DOMAIN Ledger
    <3>1. Ledger[m].run = run /\ Ledger'[m] = Ledger[m]
      BY <1>3, <1>5, <2>4
    <3>2. Before(j, Ledger[m].job)
      BY <1>3, <2>4, <3>1, SentBefore
    <3> QED BY <1>5, <2>4, <3>1, <3>2
  <2> QED BY <1>3, <2>2, <2>3, <2>4
<1> QED BY <1>3, <1>8, <1>9, <1>10 DEF LedgerInv

-----------------------------------------------------------------------------
\* How a call is answered changes nothing else.
LEMMA AnswerFacts ==
  ASSUME TypeOK, NEW j \in Job, NEW how \in {"transient", "fatal"}, Reject(j, how) \/ Report(j),
         call[j] \in {"sending", "waiting"}, how = "transient" => Repeated(j[1]), OnlyRepeated
  PROVE  /\ \A k \in Job \ {j} : call'[k] = call[k]
         /\ call'[j] \in {"ok", "failed"}
         /\ Reject(j, how) => call'[j] = "failed"
         /\ \A b \in Batch : verdict'[b] = "transient" => Repeated(b)
<1>1. j[1] \in Batch
  BY JobType
<1>2. \A b \in Batch : verdict'[b] = "transient" => Repeated(b)
  BY <1>1 DEF Reject, Report, OnlyRepeated, TypeOK
<1> QED BY <1>2 DEF Reject, Report, TypeOK

LEMMA TransportFacts ==
  ASSUME TypeOK, NEW j \in Job, NEW sending \in BOOLEAN, Transport(j, sending),
         call[j] \in {"sending", "waiting"}, OnlyRepeated
  PROVE  /\ \A k \in Job \ {j} : call'[k] = call[k]
         /\ call'[j] \in {call[j], "failed"}
         /\ ByHand(j[1]) => call'[j] = "failed"
         /\ \A b \in Batch : verdict'[b] = "transient" => Repeated(b)
<1>1. CASE Repeated(j[1])
  <2>1. Reject(j, "transient")
    BY <1>1 DEF Transport, Repeated
  <2> QED BY <1>1, <2>1, AnswerFacts
<1>2. CASE Kind[j[1]] = "proxies" /\ sending /\ tries[j] < MaxRetries
  <2>1. UNCHANGED <<call, verdict>>
    BY <1>2 DEF Transport
  <2> QED BY <1>2, <2>1 DEF OnlyRepeated, ByHand
<1>3. CASE ~Repeated(j[1]) /\ ~(Kind[j[1]] = "proxies" /\ sending /\ tries[j] < MaxRetries)
  <2>1. Reject(j, "fatal")
    BY <1>3 DEF Transport, Repeated
  <2> QED BY <2>1, AnswerFacts
<1> QED BY <1>1, <1>2, <1>3

-----------------------------------------------------------------------------
\* One lemma per action: the program's part and the ledger's.
LEMMA SendOrder ==
  ASSUME OrderInv, NEW j \in Job, Send(j)
  PROVE  ProgramInv' /\ LedgerInv'
<1>1. /\ call[j] = "sending" /\ nonce[j] # NoNonce /\ j[1] \in Batch
      /\ UNCHANGED <<next, nonce, chunk, tries, stale, mined, run>>
      /\ TypeOK /\ OnlyRepeated
  BY JobType DEF Send, task, OrderInv, ProgramInv, Started, NonceInv
<1>2. CASE (Expired(j) /\ OnExpired(j) /\ UNCHANGED pool) \/ (Taken(j) /\ Reject(j, "fatal") /\ UNCHANGED pool)
  <2>1. Reject(j, "fatal") \/ (Report(j) /\ Expired(j) /\ ~Paired(j[1]))
    BY <1>2 DEF OnExpired
  <2>2. /\ \A k \in Job \ {j} : call'[k] = call[k]
        /\ call'[j] \in {"ok", "failed"}
        /\ Reject(j, "fatal") => call'[j] = "failed"
        /\ \A b \in Batch : verdict'[b] = "transient" => Repeated(b)
    BY <1>1, <2>1, AnswerFacts
  <2>3. call'[j] = "ok" => ~ByHand(j[1]) /\ nonce[j] < ChainNonce
    BY <2>1, <2>2 DEF Expired, SendNonce, ByHand, Paired
  <2>4. ProgramInv'
    BY <1>1, <2>2, ProgramKept DEF OrderInv
  <2>5. LedgerInv'
    BY <1>1, <1>2, <2>2, <2>3, LedgerKept
  <2> QED BY <2>4, <2>5
<1>3. CASE ~Expired(j) /\ ~Taken(j) /\ Accept(j) /\ call' = [call EXCEPT ![j] = "waiting"] /\ UNCHANGED verdict
  <2>1. /\ \A k \in Job \ {j} : call'[k] = call[k]
        /\ call'[j] = "waiting"
        /\ \A b \in Batch : verdict'[b] = "transient" => Repeated(b)
    BY <1>1, <1>3 DEF TypeOK, OnlyRepeated
  <2>2. ProgramInv'
    BY <1>1, <2>1, ProgramKept DEF OrderInv
  <2>3. Pending(j)
    BY <1>1 DEF Pending
  <2>4. LedgerInv'
    BY <1>1, <1>3, <2>1, <2>3, AcceptKept
  <2> QED BY <2>2, <2>4
<1> QED BY <1>2, <1>3 DEF Send

LEMMA SendStaleOrder ==
  ASSUME OrderInv, NEW j \in Job, SendStale(j)
  PROVE  ProgramInv' /\ LedgerInv'
<1>1. /\ j \in stale /\ stale' \subseteq stale
      /\ UNCHANGED <<next, nonce, chunk, call, verdict, mined, run>>
  BY DEF SendStale, task
<1>2. ProgramInv'
  BY <1>1, ProgramKept DEF OrderInv, ProgramInv, OnlyRepeated, NonceInv
<1>3. CASE UNCHANGED pool
  BY <1>1, <1>2, <1>3, LedgerKept
<1>4. CASE ~Expired(j) /\ ~Taken(j) /\ Accept(j)
  <2>1. ~ByHand(j[1])
    BY <1>1 DEF OrderInv, ProgramInv, Started, ByHand, Repeated
  <2>2. call[j] # "ok"
    BY <1>4, <2>1 DEF OrderInv, LedgerInv, OkBehind, Expired, SendNonce, ByHand
  <2>3. Pending(j)
    BY <1>1, <2>2 DEF Pending
  <2> QED BY <1>1, <1>2, <1>4, <2>1, <2>3, AcceptKept
<1> QED BY <1>2, <1>3, <1>4 DEF SendStale

LEMMA FaultOrder ==
  ASSUME OrderInv, NEW j \in Job, SendFails(j) \/ FactoryFails(j) \/ WaitFails(j)
  PROVE  ProgramInv' /\ LedgerInv'
<1>1. /\ call[j] \in {"sending", "waiting"}
      /\ UNCHANGED <<next, nonce, chunk, stale, mined, run>>
      /\ TypeOK /\ OnlyRepeated
  BY DEF SendFails, FactoryFails, WaitFails, net, task, OrderInv, ProgramInv, NonceInv
<1>2. /\ \A k \in Job \ {j} : call'[k] = call[k]
      /\ call'[j] \in {call[j], "failed"}
      /\ ByHand(j[1]) => call'[j] = "failed"
      /\ \A b \in Batch : verdict'[b] = "transient" => Repeated(b)
  <2>1. CASE Transport(j, TRUE) \/ Transport(j, FALSE)
    BY <1>1, <2>1, TransportFacts
  <2>2. CASE FactoryFails(j)
    <3>1. Reject(j, "fatal")
      BY <2>2 DEF FactoryFails
    <3> QED BY <1>1, <3>1, AnswerFacts
  <2> QED BY <2>1, <2>2 DEF SendFails, WaitFails
<1>3. ProgramInv'
  BY <1>1, <1>2, ProgramKept DEF OrderInv
<1>4. CASE UNCHANGED pool
  BY <1>1, <1>2, <1>3, <1>4, LedgerKept
<1>5. CASE call[j] = "sending" /\ ~Expired(j) /\ ~Taken(j) /\ Accept(j)
  <2>1. Pending(j)
    BY <1>5 DEF Pending
  <2> QED BY <1>1, <1>2, <1>3, <1>5, <2>1, AcceptKept
<1> QED BY <1>3, <1>4, <1>5 DEF SendFails, FactoryFails, WaitFails, net

LEMMA ReceiptOrder ==
  ASSUME OrderInv, NEW j \in Job, Receipt(j)
  PROVE  ProgramInv' /\ LedgerInv'
<1>1. /\ call[j] = "waiting" /\ (Reject(j, "fatal") \/ Report(j))
      /\ UNCHANGED <<next, nonce, chunk, stale, pool, mined, run>>
      /\ TypeOK /\ OnlyRepeated /\ nonce[j] # NoNonce
  BY DEF Receipt, net, task, OrderInv, ProgramInv, NonceInv, Started
<1>2. PICK i \in 1 .. ChainNonce : mined[i].job = j /\ mined[i].run = run
  BY DEF Receipt
<1>3. PICK n \in 0 .. (ChainNonce - 1) : n = i - 1
  BY LedgerFacts DEF OrderInv, LedgerInv
<1>4. n \in DOMAIN Ledger /\ n < ChainNonce /\ Ledger[n].job = j /\ Ledger[n].run = run
  <2>1. ChainNonce \in Nat /\ n + 1 = i
    BY <1>2, <1>3, LedgerFacts DEF OrderInv, LedgerInv
  <2>2. Ledger[n].job = mined[n + 1].job /\ Ledger[n].run = mined[n + 1].run /\ n \in DOMAIN Ledger
    BY LedgerFacts DEF OrderInv, LedgerInv
  <2> QED BY <1>2, <2>1, <2>2
<1>5. ~ByHand(j[1]) => nonce[j] < ChainNonce
  BY <1>4 DEF OrderInv, LedgerInv, Placed
<1>6. /\ \A k \in Job \ {j} : call'[k] = call[k]
      /\ call'[j] \in {"ok", "failed"}
      /\ \A b \in Batch : verdict'[b] = "transient" => Repeated(b)
  BY <1>1, AnswerFacts
<1>7. ProgramInv'
  BY <1>1, <1>6, ProgramKept DEF OrderInv
<1>8. LedgerInv'
  BY <1>1, <1>4, <1>5, <1>6, LedgerKept
<1> QED BY <1>7, <1>8

LEMMA RetryOrder ==
  ASSUME OrderInv, NEW b \in Batch, RetryChunk(b)
  PROVE  ProgramInv' /\ LedgerInv'
<1>1. /\ Repeated(b) /\ TypeOK
      /\ UNCHANGED <<next, nonce, chunk, pool, mined, run>>
      /\ \A k : k \in stale' => k \in stale \/ k \in Current(b)
      /\ \A a \in Batch : verdict'[a] = "transient" => Repeated(a)
      /\ \A k \in Job : call'[k] = IF k \in Current(b) THEN "sending" ELSE call[k]
  BY DEF RetryChunk, SendAll, Current, net, task, OrderInv, ProgramInv, OnlyRepeated, NonceInv, TypeOK
<1>2. ASSUME NEW k \in Job, k \in Current(b)
      PROVE  /\ k[1] = b /\ Done(b) < k[2] /\ k[2] <= Reach(b) /\ nonce[k] # NoNonce
             /\ ~ByHand(k[1])
  <2>1. k[1] = b /\ Done(b) < k[2] /\ k[2] <= Reach(b)
    BY <1>1, <1>2, ReachFacts
  <2>2. chunk[b] \in Nat /\ (chunk[b] = 0 => Reach(b) = 0) /\ k[2] \in Nat /\ 1 <= k[2]
    BY <1>1, ReachFacts, JobType
  <2>3. chunk[b] > 0
    BY <2>1, <2>2
  <2> QED BY <1>1, <2>1, <2>3 DEF OrderInv, ProgramInv, Started, Repeated, ByHand
<1>3. ProgramInv'
  BY <1>1, <1>2, ProgramKept DEF OrderInv
<1>4. LedgerInv'
  BY <1>1, <1>2, LedgerKept
<1> QED BY <1>3, <1>4

LEMMA StopOrder ==
  ASSUME OrderInv, UNCHANGED <<next, nonce, chunk, call, verdict, tries, stale, pool, mined, run>>
  PROVE  ProgramInv' /\ LedgerInv'
<1>1. ProgramInv'
  BY ProgramKept DEF OrderInv, ProgramInv, OnlyRepeated, NonceInv
<1> QED BY <1>1, LedgerKept

LEMMA MineOrder ==
  ASSUME OrderInv, Mine
  PROVE  ProgramInv' /\ LedgerInv'
<1>1. UNCHANGED <<next, nonce, chunk, call, verdict, stale, run>>
  BY DEF Mine, task
<1>2. ProgramInv'
  BY <1>1, ProgramKept DEF OrderInv, ProgramInv, OnlyRepeated, NonceInv
<1>3. /\ ChainNonce' = ChainNonce + 1 /\ ChainNonce \in Nat
      /\ DOMAIN Ledger' = DOMAIN Ledger
      /\ \A n \in DOMAIN Ledger : Ledger'[n] = Ledger[n] /\ n \in Nat
      /\ PoolAhead'
  BY LedgerMine, LedgerFacts DEF OrderInv, LedgerInv
<1>4. Placed' /\ InOrder'
  BY <1>1, <1>3 DEF OrderInv, LedgerInv, Placed, InOrder, Before, ByHand
<1>5. OkBehind'
  <2> SUFFICES ASSUME NEW k \in Job, call[k] = "ok"
               PROVE  /\ ~ByHand(k[1]) => nonce[k] < ChainNonce'
                      /\ ByHand(k[1]) => \E n \in DOMAIN Ledger' :
                            n < ChainNonce' /\ Ledger'[n].job = k /\ Ledger'[n].run = run
    BY <1>1 DEF OkBehind, ByHand
  <2>1. /\ ~ByHand(k[1]) => nonce[k] < ChainNonce
        /\ ByHand(k[1]) => \E n \in DOMAIN Ledger :
              n < ChainNonce /\ Ledger[n].job = k /\ Ledger[n].run = run
    BY DEF OrderInv, LedgerInv, OkBehind
  <2>2. nonce[k] \in Nat
    BY DEF OrderInv, ProgramInv, Started, NonceInv, TypeOK
  <2> QED BY <1>3, <2>1, <2>2
<1> QED BY <1>2, <1>3, <1>4, <1>5 DEF LedgerInv

\* A new run: nothing on the ledger is of it.
LEMMA RestartOrder ==
  ASSUME OrderInv, Restart
  PROVE  ProgramInv' /\ LedgerInv'
<1>1. /\ run' = run + 1 /\ run \in 1 .. MaxRuns
      /\ nonce' = [j \in Job |-> NoNonce] /\ chunk' = [b \in Batch |-> 0]
      /\ call' = [j \in Job |-> "idle"] /\ verdict' = [b \in Batch |-> "none"]
      /\ stale' = {} /\ UNCHANGED <<pool, mined>>
  BY DEF Restart, net, OrderInv, NonceInv, TypeOK
<1>2. ProgramInv'
  <2>1. \A j \in Job : j[1] \in Batch /\ chunk'[j[1]] = 0 /\ nonce'[j] = NoNonce /\ call'[j] = "idle"
    BY <1>1, JobType
  <2>2. Started' /\ PastOk' /\ NonceOrder'
    BY <1>1, <2>1 DEF Started, PastOk, NonceOrder
  <2>3. OnlyRepeated' /\ StagesWait'
    BY <1>1 DEF OnlyRepeated, StagesWait
  <2>4. run' # 1
    BY <1>1, BatchAssumption
  <2> QED BY <2>2, <2>3, <2>4 DEF ProgramInv, AllHeld
<1>3. Ledger' = Ledger /\ ChainNonce' = ChainNonce
  BY <1>1 DEF Ledger, ChainNonce
<1>4. \A n \in DOMAIN Ledger : Ledger[n].run \in Nat /\ Ledger[n].run <= run /\ Ledger[n].run # run'
  BY <1>1, EntryFacts DEF OrderInv, LedgerInv, PoolAhead
<1>5. PoolAhead' /\ InOrder' /\ Placed'
  BY <1>1, <1>3, <1>4 DEF OrderInv, LedgerInv, PoolAhead, InOrder, Before, Placed
<1>6. OkBehind'
  BY <1>1 DEF OkBehind
<1> QED BY <1>2, <1>5, <1>6 DEF LedgerInv

-----------------------------------------------------------------------------
\* The next chunk of a batch, its first one included.
LEMMA ChunkStep ==
  ASSUME OrderInv, NEW b \in Batch, Begin(b) \/ NextChunk(b)
  PROVE  /\ chunk[b] \in Nat /\ chunk' = [chunk EXCEPT ![b] = chunk[b] + 1]
         /\ AllocateFor(b, chunk[b] + 1)
         /\ \A k \in Job : call'[k] = IF k \in ChunkOf(b, chunk[b] + 1) THEN "sending" ELSE call[k]
         /\ UNCHANGED <<verdict, stale, pool, mined, run>>
         /\ \A a \in Batch : Stage[a] < Stage[b] => Ended(a)
         /\ \A k \in Job : k[1] = b /\ k[2] <= Reach(b) => call[k] = "ok"
<1>1. /\ chunk[b] \in Nat /\ Reach(b) \in Nat /\ Done(b) \in Int
      /\ (chunk[b] = 0 => Reach(b) = 0)
      /\ Current(b) = {j \in Job : j[1] = b /\ Done(b) < j[2] /\ j[2] <= Reach(b)}
      /\ \A k \in Job : k[2] \in Nat /\ 1 <= k[2]
  BY ReachFacts, JobType DEF OrderInv, NonceInv
<1>2. CASE Begin(b)
  <2>1. chunk[b] = 0 /\ chunk[b] + 1 = 1
    BY <1>2 DEF Begin
  <2>2. AllocateFor(b, chunk[b] + 1) /\ SendAll(b, chunk[b] + 1) /\ chunk' = [chunk EXCEPT ![b] = chunk[b] + 1]
    BY <1>2, <2>1 DEF Begin
  <2>3. UNCHANGED <<verdict, stale, pool, mined, run>> /\ \A a \in Batch : Stage[a] < Stage[b] => Ended(a)
    BY <1>2 DEF Begin, net, task
  <2>4. \A k \in Job : k[1] = b /\ k[2] <= Reach(b) => call[k] = "ok"
    BY <1>1, <2>1
  <2> QED BY <1>1, <2>2, <2>3, <2>4 DEF SendAll
<1>3. CASE NextChunk(b)
  <2>1. chunk[b] > 0 /\ \A j \in Current(b) : call[j] = "ok"
    BY <1>3 DEF NextChunk, ChunkDone
  <2>2. AllocateFor(b, chunk[b] + 1) /\ SendAll(b, chunk[b] + 1) /\ chunk' = [chunk EXCEPT ![b] = chunk[b] + 1]
    BY <1>3 DEF NextChunk
  <2>3. UNCHANGED <<verdict, stale, pool, mined, run>>
    BY <1>3 DEF NextChunk, net, task
  <2>4. \A a \in Batch : Stage[a] < Stage[b] => Ended(a)
    BY <2>1 DEF OrderInv, ProgramInv, StagesWait
  <2>5. \A k \in Job : k[1] = b /\ k[2] <= Reach(b) => call[k] = "ok"
    BY <1>1, <2>1 DEF OrderInv, ProgramInv, PastOk
  <2> QED BY <1>1, <2>2, <2>3, <2>4, <2>5 DEF SendAll
<1> QED BY <1>2, <1>3

\* A batch that has moved on: what is behind it, and behind the others.
LEMMA MovedOn ==
  ASSUME TypeOK, NEW b \in Batch, chunk' = [chunk EXCEPT ![b] = chunk[b] + 1]
  PROVE  /\ Done(b)' = Reach(b) /\ Reach(b)' = Reach(b) + Width(b)
         /\ \A a \in Batch \ {b} : Done(a)' = Done(a) /\ Reach(a)' = Reach(a)
         /\ \A a \in Batch : chunk'[a] \in Nat /\ chunk[a] <= chunk'[a] /\ (Ended(a) => Ended(a)')
<1>1. /\ chunk[b] \in Nat /\ chunk'[b] = chunk[b] + 1
      /\ \A a \in Batch \ {b} : chunk'[a] = chunk[a]
      /\ \A a \in Batch : chunk[a] \in Nat
  BY DEF TypeOK
<1>2. Width(b) \in Nat
  BY WidthFacts
<1>3. Done(b)' = Reach(b)
  <2>1. (chunk[b] + 1) - 1 = chunk[b]
    BY <1>1
  <2> QED BY <1>1, <2>1 DEF Done, Reach, Width
<1>4. Reach(b)' = Reach(b) + Width(b)
  BY <1>1, <1>2, Product DEF Reach, Width
<1>5. \A a \in Batch \ {b} : Done(a)' = Done(a) /\ Reach(a)' = Reach(a)
  BY <1>1 DEF Done, Reach, Width
<1>6. ASSUME NEW a \in Batch
      PROVE  chunk'[a] \in Nat /\ chunk[a] <= chunk'[a] /\ (Ended(a) => Ended(a)')
  <2>1. chunk'[a] \in Nat /\ chunk[a] <= chunk'[a]
    BY <1>1
  <2>2. Chunks(a) \in Nat /\ Chunks(a)' = Chunks(a)
    BY WidthFacts, Covers DEF Chunks, Txs, Width
  <2> QED BY <1>1, <2>1, <2>2 DEF Ended
<1> QED BY <1>3, <1>4, <1>5, <1>6

LEMMA ChunkOrder ==
  ASSUME OrderInv, NEW b \in Batch, Begin(b) \/ NextChunk(b)
  PROVE  ProgramInv' /\ LedgerInv'
<1> DEFINE c == chunk[b] + 1
           F == Fresh(b, c)
           C == ChunkOf(b, c)
<1>1. /\ c \in Nat \ {0} /\ chunk[b] \in Nat /\ chunk' = [chunk EXCEPT ![b] = c] /\ AllocateFor(b, c)
      /\ \A k \in Job : call'[k] = IF k \in C THEN "sending" ELSE call[k]
      /\ UNCHANGED <<verdict, stale, pool, mined, run>>
      /\ \A a \in Batch : Stage[a] < Stage[b] => Ended(a)
      /\ \A k \in Job : k[1] = b /\ k[2] <= Reach(b) => call[k] = "ok"
  BY ChunkStep
<1>2. /\ next \in Nat /\ next' \in Nat /\ next <= next'
      /\ \A j \in F : j \in Job /\ j[1] = b /\ nonce'[j] \in Nat /\ next <= nonce'[j]
      /\ \A j \in Job \ F : nonce'[j] = nonce[j]
      /\ \A j, k \in F : j[2] < k[2] => nonce'[j] < nonce'[k]
      /\ \A n \in next .. (next' - 1) : \E j \in Job : nonce'[j] = n
  BY <1>1, AllocateForKeeps DEF OrderInv, NonceInv, TypeOK
<1>3. /\ Reach(b) \in Nat /\ Width(b) \in Nat /\ 1 <= Width(b)
      /\ C = {j \in Job : j[1] = b /\ Reach(b) < j[2] /\ j[2] <= Reach(b) + Width(b)}
      /\ (chunk[b] = 0 => Reach(b) = 0)
  BY ReachFacts, WidthFacts DEF OrderInv, NonceInv
<1>4. F = IF Kind[b] = "proxies" THEN C ELSE IF c = 1 THEN {j \in Job : j[1] = b} ELSE {}
  BY DEF Fresh
<1>5. /\ Done(b)' = Reach(b) /\ Reach(b)' = Reach(b) + Width(b)
      /\ \A a \in Batch \ {b} : Done(a)' = Done(a) /\ Reach(a)' = Reach(a)
      /\ \A a \in Batch : chunk'[a] \in Nat /\ chunk[a] <= chunk'[a] /\ (Ended(a) => Ended(a)')
      /\ \A a \in Batch : chunk[a] \in Nat /\ Reach(a) \in Nat /\ Done(a) \in Int
      /\ chunk'[b] = c /\ \A a \in Batch \ {b} : chunk'[a] = chunk[a]
  BY <1>1, MovedOn, ReachFacts DEF OrderInv, NonceInv, TypeOK
<1>6. \A j \in Job : j[1] \in Batch /\ j[2] \in Nat /\ 1 <= j[2] /\ j = <<j[1], j[2]>>
  BY JobType
<1>7. NoNonce \notin Nat
  BY BatchAssumption
<1> HIDE DEF c, F, C
<1>8. ASSUME NEW j \in F
      PROVE  nonce[j] = NoNonce
  <2>1. CASE Kind[b] = "proxies"
    <3>1. j \in Job /\ j[1] = b /\ Reach(b) < j[2]
      BY <1>3, <1>4, <2>1
    <3> QED BY <1>3, <1>6, <2>1, <3>1 DEF OrderInv, ProgramInv, Started
  <2>2. CASE Kind[b] # "proxies"
    <3>1. chunk[b] = 0 /\ j \in Job /\ j[1] = b
      BY <1>1, <1>4, <2>2 DEF c
    <3> QED BY <3>1 DEF OrderInv, ProgramInv, Started
  <2> QED BY <2>1, <2>2
<1>9. \A j \in Job : nonce[j] # NoNonce => nonce'[j] = nonce[j]
  BY <1>2, <1>8
<1>10. \A j \in Job : nonce'[j] # NoNonce => nonce[j] # NoNonce \/ j \in F
  BY <1>2
<1>11. \A j \in Job : j \in C => nonce'[j] # NoNonce
  <2> SUFFICES ASSUME NEW j \in Job, j \in C
               PROVE  nonce'[j] # NoNonce
    OBVIOUS
  <2>1. CASE j \in F
    BY <1>2, <1>7, <2>1
  <2>2. CASE j \notin F
    <3>1. j[1] = b /\ Kind[b] # "proxies" /\ chunk[b] > 0
      BY <1>1, <1>3, <1>4, <2>2 DEF c
    <3> QED BY <1>9, <3>1 DEF OrderInv, ProgramInv, Started
  <2> QED BY <2>1, <2>2
<1>12. Started'
  <2> SUFFICES ASSUME NEW j \in Job
               PROVE  /\ call'[j] # "idle" => nonce'[j] # NoNonce /\ j[2] <= Reach(j[1])'
                      /\ nonce'[j] # NoNonce => chunk'[j[1]] > 0
                      /\ nonce'[j] # NoNonce /\ Kind[j[1]] = "proxies" => j[2] <= Reach(j[1])'
                      /\ chunk'[j[1]] > 0 /\ Kind[j[1]] # "proxies" => nonce'[j] # NoNonce
                      /\ j \in stale' => Repeated(j[1]) /\ nonce'[j] # NoNonce
    BY DEF Started, Repeated
  <2>1. Reach(j[1]) \in Nat /\ Reach(j[1])' \in Nat /\ Reach(j[1]) <= Reach(j[1])' /\ j[2] \in Nat /\ j[1] \in Batch
    <3>1. CASE j[1] = b
      BY <1>3, <1>5, <1>6, <3>1
    <3>2. CASE j[1] # b
      BY <1>5, <1>6, <3>2
    <3> QED BY <3>1, <3>2
  <2>2. j \in C => j[2] <= Reach(j[1])'
    BY <1>3, <1>5
  <2>3. /\ call[j] # "idle" => nonce[j] # NoNonce /\ j[2] <= Reach(j[1])
        /\ nonce[j] # NoNonce => chunk[j[1]] > 0
        /\ nonce[j] # NoNonce /\ Kind[j[1]] = "proxies" => j[2] <= Reach(j[1])
        /\ chunk[j[1]] > 0 /\ Kind[j[1]] # "proxies" => nonce[j] # NoNonce
        /\ j \in stale => Repeated(j[1]) /\ nonce[j] # NoNonce
    BY DEF OrderInv, ProgramInv, Started
  <2>4. call'[j] # "idle" => nonce'[j] # NoNonce /\ j[2] <= Reach(j[1])'
    BY <1>1, <1>9, <1>11, <2>1, <2>2, <2>3
  <2>5. nonce'[j] # NoNonce => chunk'[j[1]] > 0
    <3>1. CASE nonce[j] # NoNonce
      BY <1>5, <2>1, <2>3, <3>1
    <3>2. CASE j \in F
      BY <1>1, <1>2, <1>5, <3>2
    <3> QED BY <1>10, <3>1, <3>2
  <2>6. nonce'[j] # NoNonce /\ Kind[j[1]] = "proxies" => j[2] <= Reach(j[1])'
    <3>1. CASE nonce[j] # NoNonce
      BY <2>1, <2>3, <3>1
    <3>2. CASE j \in F /\ Kind[j[1]] = "proxies"
      BY <1>2, <1>4, <2>2, <3>2
    <3> QED BY <1>10, <3>1, <3>2
  <2>7. chunk'[j[1]] > 0 /\ Kind[j[1]] # "proxies" => nonce'[j] # NoNonce
    <3>1. CASE chunk[j[1]] > 0
      BY <1>9, <2>3, <3>1
    <3>2. CASE j \in F
      BY <1>2, <1>7, <3>2
    <3>3. CASE ~(chunk[j[1]] > 0) /\ j \notin F
      <4>1. j[1] = b => Kind[b] = "proxies"
        BY <1>1, <1>4, <3>3 DEF c
      <4> QED BY <1>5, <2>1, <3>3, <4>1
    <3> QED BY <3>1, <3>2, <3>3
  <2>8. j \in stale' => Repeated(j[1]) /\ nonce'[j] # NoNonce
    BY <1>1, <1>9, <2>3
  <2> QED BY <2>4, <2>5, <2>6, <2>7, <2>8
<1>13. OnlyRepeated'
  BY <1>1 DEF OrderInv, ProgramInv, OnlyRepeated, Repeated
<1>14. PastOk'
  <2> SUFFICES ASSUME NEW j \in Job, chunk'[j[1]] > 0, j[2] <= Done(j[1])'
               PROVE  call'[j] = "ok"
    BY DEF PastOk
  <2>1. CASE j[1] = b
    BY <1>1, <1>3, <1>5, <1>6, <2>1
  <2>2. CASE j[1] # b
    <3>1. j \notin C /\ chunk[j[1]] > 0 /\ j[2] <= Done(j[1])
      BY <1>3, <1>5, <1>6, <2>2
    <3> QED BY <1>1, <3>1 DEF OrderInv, ProgramInv, PastOk
  <2> QED BY <2>1, <2>2
<1>15. StagesWait'
  <2> SUFFICES ASSUME NEW a \in Batch, NEW d \in Batch, Stage[a] < Stage[d], chunk'[d] > 0
               PROVE  Ended(a)'
    BY DEF StagesWait
  <2>1. Ended(a)
    BY <1>1, <1>5 DEF OrderInv, ProgramInv, StagesWait
  <2> QED BY <1>5, <2>1
<1>16. NonceOrder'
  <2> SUFFICES ASSUME NEW j \in Job, NEW k \in Job, j[1] = k[1], j[2] < k[2],
                      nonce'[j] # NoNonce, nonce'[k] # NoNonce
               PROVE  nonce'[j] < nonce'[k]
    BY DEF NonceOrder
  <2>1. CASE j \in F /\ k \in F
    BY <1>2, <2>1
  <2>2. CASE j \in F /\ k \notin F
    <3>1. j[1] = b /\ k[1] = b /\ nonce[k] # NoNonce
      BY <1>2, <2>2
    <3>2. Kind[b] = "proxies" /\ j \in C
      BY <1>4, <2>2, <3>1
    <3>3. Reach(b) < j[2] /\ k[2] <= Reach(b)
      BY <1>3, <3>1, <3>2 DEF OrderInv, ProgramInv, Started
    <3> QED BY <1>3, <1>6, <3>3
  <2>3. CASE j \notin F /\ k \in F
    <3>1. nonce'[j] = nonce[j] /\ nonce[j] \in Nat /\ nonce[j] < next
      BY <1>2, <2>3 DEF OrderInv, NonceInv, HeldBelowNext, TypeOK
    <3> QED BY <1>2, <2>3, <3>1
  <2>4. CASE j \notin F /\ k \notin F
    BY <1>2, <2>4 DEF OrderInv, ProgramInv, NonceOrder
  <2> QED BY <2>1, <2>2, <2>3, <2>4
<1>17. AllHeld'
  <2> SUFFICES ASSUME run = 1, NEW n \in 0 .. (next' - 1)
               PROVE  \E j \in Job : nonce'[j] = n
    BY <1>1 DEF AllHeld
  <2>1. CASE n < next
    <3>1. n \in 0 .. (next - 1)
      BY <1>2, <2>1
    <3>2. PICK j \in Job : nonce[j] = n
      BY <3>1 DEF OrderInv, ProgramInv, AllHeld
    <3>3. nonce[j] # NoNonce
      BY <1>7, <3>2
    <3> QED BY <1>9, <3>2, <3>3
  <2>2. CASE ~ (n < next)
    <3>1. n \in next .. (next' - 1)
      <4>1. \A x, y \in Nat : \A i \in 0 .. (y - 1) : ~ (i < x) => i \in x .. (y - 1)
        OBVIOUS
      <4>2. next \in Nat /\ next' \in Nat
        BY <1>2
      <4> QED BY <2>2, <4>1, <4>2
    <3> QED BY <1>2, <3>1
  <2> QED BY <2>1, <2>2
<1>18. \A j \in C : j \in Job => call[j] = "idle"
  BY <1>3, <1>6 DEF OrderInv, ProgramInv, Started
<1>19. LedgerInv'
  BY <1>1, <1>9, <1>18, LedgerKept
<1> QED BY <1>12, <1>13, <1>14, <1>15, <1>16, <1>17, <1>19 DEF ProgramInv

\* In the first run the node never counts past the counter.
LEMMA PendingBelowNext ==
  ASSUME OrderInv, run = 1
  PROVE  PendingCount \in Nat /\ PendingCount <= next
<1> DEFINE ready == {n \in DOMAIN pool : ChainNonce .. n \subseteq DOMAIN pool}
<1>1. /\ ChainNonce \in Nat /\ next \in Nat /\ PendingCount \in Nat
      /\ \A n \in DOMAIN Ledger : n \in Nat /\ Ledger[n].run = 1 /\ Ledger[n].job \in Job
      /\ \A n \in DOMAIN pool : n \in DOMAIN Ledger /\ ChainNonce <= n
      /\ \A n \in 0 .. (ChainNonce - 1) : n \in DOMAIN Ledger
  BY LedgerFacts, PendingType DEF OrderInv, LedgerInv, PoolAhead, NonceInv, TypeOK, Transaction
<1>2. \A n \in DOMAIN Ledger : n < next
  <2> SUFFICES ASSUME NEW n \in DOMAIN Ledger
               PROVE  n < next
    OBVIOUS
  <2>1. nonce[Ledger[n].job] = n /\ n \in Nat
    BY <1>1 DEF OrderInv, LedgerInv, Placed
  <2> QED BY <1>1, <2>1, BatchAssumption DEF OrderInv, NonceInv, HeldBelowNext
<1>3. ChainNonce <= next
  <2> SUFFICES ASSUME next < ChainNonce
               PROVE  FALSE
    BY <1>1
  <2>1. next \in 0 .. (ChainNonce - 1)
    BY <1>1
  <2> QED BY <1>1, <1>2, <2>1
<1>4. ready \in SUBSET (ChainNonce .. (next - 1))
  BY <1>1, <1>2
<1>5. /\ IsFiniteSet(ChainNonce .. (next - 1))
      /\ Cardinality(ChainNonce .. (next - 1)) = next - ChainNonce
  <2>1. ChainNonce \in Int /\ next - 1 \in Int
    BY <1>1
  <2>2. /\ IsFiniteSet(ChainNonce .. (next - 1))
        /\ Cardinality(ChainNonce .. (next - 1))
             = IF ChainNonce > next - 1 THEN 0 ELSE (next - 1) - ChainNonce + 1
    BY <2>1, FS_Interval
  <2> QED BY <1>1, <1>3, <2>2
<1>6. Cardinality(ready) \in Nat /\ Cardinality(ready) <= next - ChainNonce
  <2>1. IsFiniteSet(ready) /\ Cardinality(ready) <= Cardinality(ChainNonce .. (next - 1))
    BY <1>4, <1>5, FS_Subset
  <2> QED BY <1>5, <2>1, FS_CardinalityType
<1> QED BY <1>1, <1>3, <1>6 DEF PendingCount

LEMMA EndOrder ==
  ASSUME OrderInv, NEW b \in Batch, EndBatch(b)
  PROVE  ProgramInv' /\ LedgerInv'
<1>1. /\ UNCHANGED <<nonce, call, verdict, stale, pool, mined, run>>
      /\ chunk' = [chunk EXCEPT ![b] = chunk[b] + 1]
      /\ \A j \in Current(b) : call[j] = "ok"
      /\ chunk[b] > 0
  BY DEF EndBatch, ChunkDone, net, task
<1>2. /\ Done(b)' = Reach(b) /\ Reach(b)' = Reach(b) + Width(b) /\ Width(b) \in Nat
      /\ \A a \in Batch \ {b} : Done(a)' = Done(a) /\ Reach(a)' = Reach(a)
      /\ \A a \in Batch : chunk'[a] \in Nat /\ chunk[a] <= chunk'[a] /\ (Ended(a) => Ended(a)')
      /\ \A a \in Batch : chunk[a] \in Nat /\ Reach(a) \in Nat /\ Done(a) \in Int
      /\ \A a \in Batch \ {b} : chunk'[a] = chunk[a]
      /\ Current(b) = {j \in Job : j[1] = b /\ Done(b) < j[2] /\ j[2] <= Reach(b)}
  BY <1>1, MovedOn, ReachFacts, WidthFacts DEF OrderInv, NonceInv, TypeOK
<1>3. \A j \in Job : j[1] \in Batch /\ j[2] \in Nat
  BY JobType
<1>4. Started'
  <2> SUFFICES ASSUME NEW j \in Job
               PROVE  /\ call'[j] # "idle" => nonce'[j] # NoNonce /\ j[2] <= Reach(j[1])'
                      /\ nonce'[j] # NoNonce => chunk'[j[1]] > 0
                      /\ nonce'[j] # NoNonce /\ Kind[j[1]] = "proxies" => j[2] <= Reach(j[1])'
                      /\ chunk'[j[1]] > 0 /\ Kind[j[1]] # "proxies" => nonce'[j] # NoNonce
                      /\ j \in stale' => Repeated(j[1]) /\ nonce'[j] # NoNonce
    BY DEF Started, Repeated
  <2>1. Reach(j[1]) \in Nat /\ Reach(j[1])' \in Nat /\ Reach(j[1]) <= Reach(j[1])' /\ j[2] \in Nat /\ j[1] \in Batch
    <3>1. CASE j[1] = b
      BY <1>2, <1>3, <3>1
    <3>2. CASE j[1] # b
      BY <1>2, <1>3, <3>2
    <3> QED BY <3>1, <3>2
  <2>2. /\ call[j] # "idle" => nonce[j] # NoNonce /\ j[2] <= Reach(j[1])
        /\ nonce[j] # NoNonce => chunk[j[1]] > 0
        /\ nonce[j] # NoNonce /\ Kind[j[1]] = "proxies" => j[2] <= Reach(j[1])
        /\ chunk[j[1]] > 0 /\ Kind[j[1]] # "proxies" => nonce[j] # NoNonce
        /\ j \in stale => Repeated(j[1]) /\ nonce[j] # NoNonce
    BY DEF OrderInv, ProgramInv, Started
  <2>3. chunk'[j[1]] > 0 <=> chunk[j[1]] > 0
    BY <1>1, <1>2, <2>1
  <2> QED BY <1>1, <2>1, <2>2, <2>3
<1>5. OnlyRepeated' /\ NonceOrder'
  BY <1>1 DEF OrderInv, ProgramInv, OnlyRepeated, Repeated, NonceOrder
<1>6. PastOk'
  <2> SUFFICES ASSUME NEW j \in Job, chunk'[j[1]] > 0, j[2] <= Done(j[1])'
               PROVE  call[j] = "ok"
    BY <1>1 DEF PastOk
  <2>1. CASE j[1] = b /\ Done(b) < j[2]
    BY <1>1, <1>2, <2>1
  <2>2. CASE j[1] = b /\ ~ (Done(b) < j[2])
    BY <1>1, <1>2, <1>3, <2>2 DEF OrderInv, ProgramInv, PastOk
  <2>3. CASE j[1] # b
    BY <1>2, <1>3, <2>3 DEF OrderInv, ProgramInv, PastOk
  <2> QED BY <2>1, <2>2, <2>3
<1>7. StagesWait'
  <2> SUFFICES ASSUME NEW a \in Batch, NEW d \in Batch, Stage[a] < Stage[d], chunk'[d] > 0
               PROVE  Ended(a)'
    BY DEF StagesWait
  <2>1. Ended(a)
    BY <1>1, <1>2 DEF OrderInv, ProgramInv, StagesWait
  <2> QED BY <1>2, <2>1
<1>8. AllHeld'
  <2> SUFFICES ASSUME run = 1
               PROVE  next' = next
    BY <1>1 DEF OrderInv, ProgramInv, AllHeld
  <2>1. next \in Nat
    BY DEF OrderInv, NonceInv, TypeOK
  <2> QED BY <2>1, PendingBelowNext DEF EndBatch, Synced
<1>9. LedgerInv'
  BY <1>1, LedgerKept
<1> QED BY <1>4, <1>5, <1>6, <1>7, <1>8, <1>9 DEF ProgramInv

-----------------------------------------------------------------------------
LEMMA InitOrderInv == Init => OrderInv
<1> SUFFICES ASSUME Init PROVE OrderInv
  OBVIOUS
<1>1. NonceInv
  BY InitNonceInv
<1>2. /\ next = 0 /\ nonce = [j \in Job |-> NoNonce] /\ chunk = [b \in Batch |-> 0]
      /\ call = [j \in Job |-> "idle"] /\ verdict = [b \in Batch |-> "none"]
      /\ stale = {} /\ pool = << >> /\ mined = << >> /\ run = 1
  BY DEF Init
<1>3. \A j \in Job : j[1] \in Batch /\ chunk[j[1]] = 0 /\ nonce[j] = NoNonce /\ call[j] = "idle"
  BY <1>2, JobType
<1>4. Started /\ PastOk /\ NonceOrder
  BY <1>2, <1>3 DEF Started, PastOk, NonceOrder
<1>5. OnlyRepeated /\ StagesWait /\ AllHeld
  BY <1>2 DEF OnlyRepeated, StagesWait, AllHeld
<1>6. DOMAIN Ledger = {} /\ DOMAIN pool = {}
  BY <1>2 DEF Ledger, ChainNonce
<1>7. LedgerInv
  BY <1>3, <1>6 DEF LedgerInv, PoolAhead, Placed, OkBehind, InOrder
<1> QED BY <1>1, <1>4, <1>5, <1>7 DEF OrderInv, ProgramInv

LEMMA NextOrderInv == OrderInv /\ [Next]_vars => OrderInv'
<1> SUFFICES ASSUME OrderInv, [Next]_vars PROVE OrderInv'
  OBVIOUS
<1>1. NonceInv'
  BY NextNonceInv DEF OrderInv
<1>2. ProgramInv' /\ LedgerInv'
  <2>1. ASSUME NEW j \in Job, CallStep(j) PROVE ProgramInv' /\ LedgerInv'
    BY <2>1, SendOrder, SendStaleOrder, FaultOrder, ReceiptOrder DEF CallStep
  <2>2. ASSUME NEW b \in Batch, Abort(b) PROVE ProgramInv' /\ LedgerInv'
    BY <2>2, StopOrder DEF Abort, net
  <2>3. ASSUME NEW b \in Batch, BatchStep(b) PROVE ProgramInv' /\ LedgerInv'
    BY <2>2, <2>3, ChunkOrder, RetryOrder, EndOrder DEF BatchStep
  <2>4. CASE Mine
    BY <2>4, MineOrder
  <2>5. CASE Crash \/ Finish \/ UNCHANGED vars
    BY <2>5, StopOrder DEF Crash, Finish, vars, net, task
  <2>6. CASE Restart
    BY <2>6, RestartOrder
  <2> QED BY <2>1, <2>3, <2>4, <2>5, <2>6 DEF Next
<1> QED BY <1>1, <1>2 DEF OrderInv

\* Where the transactions of a run stand on the account, and what has been
\* reported about them.
THEOREM LedgerFollowsTheTask == Spec => []OrderInv
BY InitOrderInv, NextOrderInv, PTL DEF Spec

\* Every call reported as successful is on chain: in the first run as the
\* task's own transaction, NONCE_EXPIRED included, in later runs its nonce at
\* least.
THEOREM ReportsAreTrue == Spec => []OkMeansMined
<1>1. OrderInv => OkMeansMined
  <2> SUFFICES ASSUME OrderInv, NEW j \in Job, call[j] = "ok"
               PROVE  IF run = 1 THEN \E n \in 1 .. ChainNonce : mined[n].job = j
                      ELSE Kind[j[1]] \in {"contracts", "config"} => nonce[j] < ChainNonce
    BY DEF OkMeansMined
  <2>1. ChainNonce \in Nat
    BY LedgerFacts DEF OrderInv, LedgerInv
  <2>2. CASE run = 1
    <3>1. PICK m \in 0 .. (ChainNonce - 1) : m \in DOMAIN Ledger /\ Ledger[m].job = j
      <4>1. CASE ByHand(j[1])
        <5>1. PICK m \in DOMAIN Ledger : m < ChainNonce /\ Ledger[m].job = j
          BY <4>1 DEF OrderInv, LedgerInv, OkBehind
        <5>2. m \in Nat
          BY EntryFacts DEF OrderInv, LedgerInv
        <5> QED BY <2>1, <5>1, <5>2
      <4>2. CASE ~ ByHand(j[1])
        <5>1. nonce[j] \in Nat /\ nonce[j] < ChainNonce
          BY <4>2 DEF OrderInv, ProgramInv, Started, LedgerInv, OkBehind, NonceInv, TypeOK
        <5>2. PICK m \in 0 .. (ChainNonce - 1) : m = nonce[j]
          BY <2>1, <5>1
        <5>3. m \in DOMAIN Ledger /\ Ledger[m].job \in Job /\ Ledger[m].run \in Nat /\ Ledger[m].run <= 1
          BY <2>2, LedgerFacts, EntryFacts DEF OrderInv, LedgerInv, PoolAhead
        <5>4. Ledger[m].run = 1
          BY <5>3, LedgerFacts DEF OrderInv, LedgerInv, Transaction
        <5>5. nonce[Ledger[m].job] = m
          BY <2>2, <5>3, <5>4 DEF OrderInv, LedgerInv, Placed
        <5>6. Ledger[m].job = j
          BY <5>1, <5>2, <5>3, <5>5, BatchAssumption DEF OrderInv, NonceInv, UniqueNonces
        <5> QED BY <5>3, <5>6
      <4> QED BY <4>1, <4>2
    <3>2. m + 1 \in 1 .. ChainNonce /\ mined[m + 1].job = j
      BY <2>1, <3>1, LedgerFacts DEF OrderInv, LedgerInv
    <3> QED BY <2>2, <3>2
  <2>3. CASE run # 1
    BY <2>3 DEF OrderInv, LedgerInv, OkBehind, ByHand
  <2> QED BY <2>2, <2>3
<1> QED BY <1>1, LedgerFollowsTheTask, PTL

\* The chain executes the transactions of every run once each and in the
\* order the task wrote them, batch by batch and stage by stage.
THEOREM RunsAreOrdered == Spec => []ExecutedInOrder
<1>1. OrderInv => ExecutedInOrder
  <2> SUFFICES ASSUME OrderInv, NEW m \in 1 .. ChainNonce, NEW n \in 1 .. ChainNonce,
                      m < n, mined[m].run = mined[n].run
               PROVE  Before(mined[m].job, mined[n].job)
    BY DEF ExecutedInOrder, Before
  <2>1. ChainNonce \in Nat
    BY LedgerFacts DEF OrderInv, LedgerInv
  <2>2. PICK k \in 0 .. (ChainNonce - 1), l \in 0 .. (ChainNonce - 1) : k = m - 1 /\ l = n - 1
    BY <2>1
  <2>3. /\ k \in DOMAIN Ledger /\ l \in DOMAIN Ledger /\ k < l
        /\ Ledger[k].job = mined[k + 1].job /\ Ledger[k].run = mined[k + 1].run
        /\ Ledger[l].job = mined[l + 1].job /\ Ledger[l].run = mined[l + 1].run
    BY <2>1, <2>2, LedgerFacts DEF OrderInv, LedgerInv
  <2>4. k + 1 = m /\ l + 1 = n
    BY <2>1, <2>2
  <2>5. Ledger[k].job = mined[m].job /\ Ledger[l].job = mined[n].job /\ Ledger[k].run = Ledger[l].run
    BY <2>3, <2>4
  <2>6. Before(Ledger[k].job, Ledger[l].job)
    BY <2>3, <2>5 DEF OrderInv, LedgerInv, InOrder
  <2> QED BY <2>5, <2>6
<1> QED BY <1>1, LedgerFollowsTheTask, PTL
=============================================================================

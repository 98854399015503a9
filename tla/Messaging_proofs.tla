--------------------------- MODULE Messaging_proofs ---------------------------
(***************************************************************************)
(* Proofs about Messaging, for any chains, resources, nonces and bounds:   *)
(* ids are fresh, no message runs twice or is used up early, batches are   *)
(* whole, every question has one answer, a resource keeps its contract,    *)
(* and the whole implements MessageBus. Liveness stays with the model      *)
(* checker.                                                                *)
(***************************************************************************)
EXTENDS Messaging, FiniteSetTheorems, SequenceTheorems, TLAPS

\* A request as an application or a handler makes it.
AnyRequest == [dst : Dst, target : Target, kind : Kind \union {"ack"}]

-------------------------------------------------------------------------------
(* Nonces                                                                  *)

\* Counting requests to one chain: a natural number that no prefix exceeds,
\* and that grows at every request to that chain.
LEMMA CountFacts ==
  ASSUME NEW reqs \in Seq(AnyRequest), NEW d, NEW n \in 0 .. Len(reqs)
  PROVE  /\ CountTo(reqs, n, d) \in Nat
         /\ \A i \in 1 .. n :
              /\ CountTo(reqs, i, d) \in Nat
              /\ CountTo(reqs, i, d) <= CountTo(reqs, n, d)
              /\ reqs[i].dst = d => CountTo(reqs, i, d) >= 1
              /\ (i < n /\ reqs[n].dst = d)
                   => CountTo(reqs, i, d) < CountTo(reqs, n, d)
<1> DEFINE upto(k) == {j \in 1 .. k : reqs[j].dst = d}
<1>0. n \in Nat /\ Len(reqs) \in Nat /\ n <= Len(reqs)
  OBVIOUS
<1>1. ASSUME NEW k \in Nat
      PROVE  /\ IsFiniteSet(upto(k))
             /\ CountTo(reqs, k, d) = Cardinality(upto(k))
             /\ Cardinality(upto(k)) \in Nat
  <2>1. IsFiniteSet(1 .. k)
    BY FS_Interval
  <2>2. upto(k) \in SUBSET (1 .. k)
    OBVIOUS
  <2>3. IsFiniteSet(upto(k))
    BY <2>1, <2>2, FS_Subset
  <2> QED BY <2>3, FS_CardinalityType DEF CountTo
<1>2. ASSUME NEW i \in Nat, i <= n
      PROVE  Cardinality(upto(i)) <= Cardinality(upto(n))
  <2>1. upto(i) \in SUBSET upto(n) /\ IsFiniteSet(upto(n))
    BY <1>0, <1>1, <1>2
  <2> HIDE DEF upto
  <2> QED BY <2>1, FS_Subset
<1>3. ASSUME NEW i \in 1 .. n, reqs[i].dst = d
      PROVE  Cardinality(upto(i)) >= 1
  <2>0. i \in Nat
    BY <1>0
  <2>1. upto(i) # {}
    BY <1>0, <1>3
  <2>2. IsFiniteSet(upto(i)) /\ Cardinality(upto(i)) \in Nat
    BY <1>1, <2>0
  <2> HIDE DEF upto
  <2>3. Cardinality(upto(i)) # 0
    BY <2>1, <2>2, FS_EmptySet
  <2> QED BY <2>2, <2>3
<1>4. ASSUME NEW i \in 1 .. n, i < n, reqs[n].dst = d
      PROVE  Cardinality(upto(i)) < Cardinality(upto(n))
  <2>0. i \in Nat
    BY <1>0
  <2>1. n \notin upto(i) /\ (upto(i) \union {n}) \in SUBSET upto(n)
    BY <1>0, <1>4
  <2>2. /\ IsFiniteSet(upto(i)) /\ Cardinality(upto(i)) \in Nat
        /\ IsFiniteSet(upto(n)) /\ Cardinality(upto(n)) \in Nat
    BY <1>0, <1>1, <2>0
  <2> HIDE DEF upto
  <2>3. Cardinality(upto(i) \union {n}) = Cardinality(upto(i)) + 1
    BY <2>1, <2>2, FS_AddElement
  <2>4. Cardinality(upto(i) \union {n}) <= Cardinality(upto(n))
    BY <2>1, <2>2, FS_Subset
  <2> QED BY <2>2, <2>3, <2>4
<1>5. CountTo(reqs, n, d) \in Nat
  BY <1>0, <1>1
<1>6. ASSUME NEW i \in 1 .. n
      PROVE  /\ CountTo(reqs, i, d) \in Nat
             /\ CountTo(reqs, i, d) <= CountTo(reqs, n, d)
             /\ reqs[i].dst = d => CountTo(reqs, i, d) >= 1
             /\ (i < n /\ reqs[n].dst = d)
                  => CountTo(reqs, i, d) < CountTo(reqs, n, d)
  <2>1. i \in Nat /\ i <= n
    BY <1>0
  <2>2. /\ CountTo(reqs, i, d) = Cardinality(upto(i))
        /\ CountTo(reqs, n, d) = Cardinality(upto(n))
        /\ Cardinality(upto(i)) \in Nat
    BY <1>0, <1>1, <2>1
  <2> HIDE DEF upto
  <2> QED BY <1>2, <1>3, <1>4, <2>1, <2>2
<1> QED BY <1>5, <1>6

\* What Prepare returns: messages of the given chain and sender, one for each
\* request, pairwise different, with nonces above the counter and not above
\* what Issue leaves in it.
LEMMA PrepareFacts ==
  ASSUME outboundNonce \in [Sender -> [Chain -> [Dst -> Nat]]],
         NEW s \in Sender, NEW c \in Chain, NEW reqs \in Seq(AnyRequest)
  PROVE  /\ Prepare(s, c, reqs) \in Seq(Message)
         /\ Len(Prepare(s, c, reqs)) = Len(reqs)
         /\ IsInjective(Prepare(s, c, reqs))
         /\ \A i \in 1 .. Len(reqs) :
              LET m == Prepare(s, c, reqs)[i]
              IN /\ m.sender = s /\ m.src = c /\ m.dst = reqs[i].dst
                 /\ m.dst \in Dst
                 /\ m.target = reqs[i].target /\ m.kind = reqs[i].kind
                 /\ m.nonce > outboundNonce[s][c][m.dst]
                 /\ m.nonce <= outboundNonce[s][c][m.dst]
                               + CountTo(reqs, Len(reqs), m.dst)
<1> DEFINE ms == Prepare(s, c, reqs)
<1> DEFINE old(d) == outboundNonce[s][c][d]
<1> DEFINE count(i) == CountTo(reqs, i, reqs[i].dst)
<1>0. Len(reqs) \in Nat /\ Len(reqs) \in 0 .. Len(reqs)
  OBVIOUS
<1>1. ASSUME NEW i \in 1 .. Len(reqs)
      PROVE  /\ reqs[i] \in AnyRequest /\ reqs[i].dst \in Dst
             /\ old(reqs[i].dst) \in Nat
  <2>1. reqs[i] \in AnyRequest
    OBVIOUS
  <2>2. reqs[i].dst \in Dst
    BY <2>1 DEF AnyRequest
  <2> QED BY <2>1, <2>2
<1>2. ASSUME NEW i \in 1 .. Len(reqs)
      PROVE  /\ count(i) \in Nat /\ count(i) >= 1
             /\ CountTo(reqs, Len(reqs), reqs[i].dst) \in Nat
             /\ count(i) <= CountTo(reqs, Len(reqs), reqs[i].dst)
  BY <1>0, CountFacts
<1>3. ASSUME NEW i \in 1 .. Len(reqs), NEW j \in 1 .. Len(reqs), i < j,
             reqs[i].dst = reqs[j].dst
      PROVE  count(i) < count(j)
  <2>1. j \in 0 .. Len(reqs) /\ i \in 1 .. j
    BY <1>0, <1>3
  <2>2. CountTo(reqs, i, reqs[j].dst) < CountTo(reqs, j, reqs[j].dst)
    BY <1>3, <2>1, CountFacts
  <2> QED BY <1>3, <2>2
<1> DEFINE msg(i) == [sender |-> s, src |-> c, dst |-> reqs[i].dst,
                      target |-> reqs[i].target, kind |-> reqs[i].kind,
                      nonce |-> old(reqs[i].dst) + count(i)]
<1>4. ms = [i \in 1 .. Len(reqs) |-> msg(i)]
  BY DEF Prepare, NonceOf
<1> HIDE DEF count
<1>5. ASSUME NEW i \in 1 .. Len(reqs)
      PROVE  msg(i) \in Message
  <2>1. old(reqs[i].dst) + count(i) \in Nat
    BY <1>1, <1>2
  <2>2. reqs[i].target \in Target /\ reqs[i].kind \in Kind \union {"ack"}
    BY <1>1 DEF AnyRequest
  <2> HIDE DEF old
  <2> QED BY <1>1, <2>1, <2>2 DEF Message
<1>6. ms \in Seq(Message) /\ Len(ms) = Len(reqs) /\ DOMAIN ms = 1 .. Len(reqs)
  <2> HIDE DEF msg
  <2> QED BY <1>0, <1>4, <1>5
<1>7. ASSUME NEW i \in 1 .. Len(reqs), NEW j \in 1 .. Len(reqs), i < j
      PROVE  msg(i) # msg(j)
  <2>1. CASE reqs[i].dst # reqs[j].dst
    BY <2>1
  <2>2. CASE reqs[i].dst = reqs[j].dst
    BY <1>1, <1>2, <1>3, <1>7, <2>2
  <2> QED BY <2>1, <2>2
<1>8. IsInjective(ms)
  <2> HIDE DEF ms, msg
  <2> QED BY <1>0, <1>4, <1>7 DEF IsInjective
<1>9. ASSUME NEW i \in 1 .. Len(reqs)
      PROVE  LET m == ms[i]
             IN /\ m.sender = s /\ m.src = c /\ m.dst = reqs[i].dst
                /\ m.dst \in Dst
                /\ m.target = reqs[i].target /\ m.kind = reqs[i].kind
                /\ m.nonce > outboundNonce[s][c][m.dst]
                /\ m.nonce <= outboundNonce[s][c][m.dst]
                              + CountTo(reqs, Len(reqs), m.dst)
  <2>1. ms[i] = msg(i)
    BY <1>4
  <2> HIDE DEF ms
  <2> QED BY <1>1, <1>2, <2>1
<1> HIDE DEF ms
<1>10. ms = Prepare(s, c, reqs)
  BY DEF ms
<1> QED BY <1>6, <1>8, <1>9, <1>10

-------------------------------------------------------------------------------
(* The inductive invariant                                                 *)

\* The counters have passed every nonce in use, so new ids are new.
NoncesUsed ==
  \A i \in DOMAIN issued :
    issued[i].nonce
      <= outboundNonce[issued[i].sender][issued[i].src][issued[i].dst]

\* The executor marks the ids that ran, and no others.
Marked == \A c \in Chain : executed[c] = Range(applied[c])

\* The log holds prepared messages only, and what ran was prepared.
Logged == /\ dispatched \subseteq Range(issued)
          /\ \A c \in Chain : executed[c] \subseteq Range(issued)

\* A chain deployed nothing while the resource is unbound, and once at most.
Mirrored == \A c \in Chain, r \in Resource :
              deployed[c][r] <= IF bound[c][r] = "none" THEN 0 ELSE 1

IInv == /\ TypeOK
        /\ FreshIds /\ NoncesUsed
        /\ Marked /\ AtMostOnce
        /\ Logged /\ LocalLegsDone /\ NothingSwallowed /\ Mirrored

\* The range of a concatenation.
LEMMA ConcatRange ==
  ASSUME NEW s \in Seq(Message), NEW t \in Seq(Message)
  PROVE  Range(s \o t) = Range(s) \union Range(t)
<1>1. /\ DOMAIN (s \o t) = 1 .. (Len(s) + Len(t))
      /\ DOMAIN s = 1 .. Len(s) /\ DOMAIN t = 1 .. Len(t)
      /\ Len(s) \in Nat /\ Len(t) \in Nat
      /\ s \o t \in Seq(Message)
  OBVIOUS
<1>2. \A i \in 1 .. Len(s) : (s \o t)[i] = s[i]
  BY ConcatProperties
<1>3. \A i \in 1 .. Len(t) : (s \o t)[Len(s) + i] = t[i]
  OBVIOUS
<1>4. \A i \in 1 .. (Len(s) + Len(t)) :
        i \in 1 .. Len(s) \/ \E k \in 1 .. Len(t) : i = Len(s) + k
  <2> TAKE i \in 1 .. (Len(s) + Len(t))
  <2>1. CASE i <= Len(s)
    BY <1>1, <2>1
  <2>2. CASE ~ (i <= Len(s))
    <3>1. i - Len(s) \in 1 .. Len(t) /\ i = Len(s) + (i - Len(s))
      BY <1>1, <2>2
    <3> QED BY <3>1
  <2> QED BY <2>1, <2>2
<1>5. ASSUME NEW m \in Range(s \o t)
      PROVE  m \in Range(s) \union Range(t)
  <2>1. PICK i \in 1 .. (Len(s) + Len(t)) : m = (s \o t)[i]
    BY <1>1 DEF Range
  <2> QED BY <1>1, <1>2, <1>3, <1>4, <2>1 DEF Range
<1>6. ASSUME NEW m \in Range(s)
      PROVE  m \in Range(s \o t)
  <2>1. PICK i \in 1 .. Len(s) : m = s[i]
    BY <1>1 DEF Range
  <2>2. i \in DOMAIN (s \o t) /\ (s \o t)[i] = m
    BY <1>1, <1>2, <2>1
  <2> QED BY <2>2 DEF Range
<1>7. ASSUME NEW m \in Range(t)
      PROVE  m \in Range(s \o t)
  <2>1. PICK i \in 1 .. Len(t) : m = t[i]
    BY <1>1 DEF Range
  <2>2. Len(s) + i \in DOMAIN (s \o t) /\ (s \o t)[Len(s) + i] = m
    BY <1>1, <1>3, <2>1
  <2> QED BY <2>2 DEF Range
<1> QED BY <1>5, <1>6, <1>7

\* Two injective sequences without a common element concatenate injectively.
LEMMA ConcatInjective ==
  ASSUME NEW s \in Seq(Message), NEW t \in Seq(Message),
         IsInjective(s), IsInjective(t),
         \A m \in Range(t) : m \notin Range(s)
  PROVE  IsInjective(s \o t)
<1>1. /\ DOMAIN (s \o t) = 1 .. (Len(s) + Len(t))
      /\ DOMAIN s = 1 .. Len(s) /\ DOMAIN t = 1 .. Len(t)
      /\ Len(s) \in Nat /\ Len(t) \in Nat
  OBVIOUS
<1>2. \A i \in 1 .. (Len(s) + Len(t)) :
        (s \o t)[i] = IF i <= Len(s) THEN s[i] ELSE t[i - Len(s)]
  BY ConcatProperties
<1>3. ASSUME NEW i \in 1 .. (Len(s) + Len(t)), NEW j \in 1 .. (Len(s) + Len(t)),
             (s \o t)[i] = (s \o t)[j]
      PROVE  i = j
  <2>1. CASE i <= Len(s) /\ j <= Len(s)
    BY <1>1, <1>2, <1>3, <2>1 DEF IsInjective
  <2>2. CASE ~ (i <= Len(s)) /\ ~ (j <= Len(s))
    <3>1. i - Len(s) \in DOMAIN t /\ j - Len(s) \in DOMAIN t
      BY <1>1, <2>2
    <3>2. t[i - Len(s)] = t[j - Len(s)]
      BY <1>2, <1>3, <2>2
    <3>3. i - Len(s) = j - Len(s)
      BY <3>1, <3>2 DEF IsInjective
    <3> QED BY <1>1, <3>3
  <2>3. CASE i <= Len(s) /\ ~ (j <= Len(s))
    <3>1. i \in DOMAIN s /\ j - Len(s) \in DOMAIN t
      BY <1>1, <2>3
    <3>2. s[i] = t[j - Len(s)]
      BY <1>2, <1>3, <2>3
    <3> QED BY <3>1, <3>2 DEF Range
  <2>4. CASE ~ (i <= Len(s)) /\ j <= Len(s)
    <3>1. j \in DOMAIN s /\ i - Len(s) \in DOMAIN t
      BY <1>1, <2>4
    <3>2. s[j] = t[i - Len(s)]
      BY <1>2, <1>3, <2>4
    <3> QED BY <3>1, <3>2 DEF Range
  <2> QED BY <2>1, <2>2, <2>3, <2>4
<1> QED BY <1>1, <1>3 DEF IsInjective

\* Issue appends new messages, keeps all ids different and the counters ahead.
LEMMA IssueFacts ==
  ASSUME TypeOK, FreshIds, NoncesUsed, NEW s \in Sender, NEW c \in Chain,
         NEW reqs \in Seq(AnyRequest), Issue(s, c, reqs)
  PROVE  /\ outboundNonce' \in [Sender -> [Chain -> [Dst -> Nat]]]
         /\ issued' \in Seq(Message)
         /\ Range(issued') = Range(issued) \union Range(Prepare(s, c, reqs))
         /\ FreshIds' /\ NoncesUsed'
<1> DEFINE ms == Prepare(s, c, reqs)
<1> DEFINE add(d) == CountTo(reqs, Len(reqs), d)
<1>1. /\ ms \in Seq(Message) /\ Len(ms) = Len(reqs) /\ IsInjective(ms)
      /\ \A i \in 1 .. Len(reqs) :
            /\ ms[i].sender = s /\ ms[i].src = c /\ ms[i].dst \in Dst
            /\ ms[i].nonce > outboundNonce[s][c][ms[i].dst]
            /\ ms[i].nonce <= outboundNonce[s][c][ms[i].dst] + add(ms[i].dst)
  BY PrepareFacts DEF TypeOK
<1>2. \A d \in Dst : add(d) \in Nat
  BY CountFacts
<1>3. issued' = issued \o ms
  BY DEF Issue
<1>4. outboundNonce' = [outboundNonce EXCEPT ![s][c] =
         [d \in Dst |-> outboundNonce[s][c][d] + add(d)]]
  BY DEF Issue
<1> HIDE DEF ms, add
<1>5. [d \in Dst |-> outboundNonce[s][c][d] + add(d)] \in [Dst -> Nat]
  BY <1>2 DEF TypeOK
<1>6. outboundNonce' \in [Sender -> [Chain -> [Dst -> Nat]]]
  BY <1>4, <1>5 DEF TypeOK
<1>7. \A t \in Sender, x \in Chain, d \in Dst :
        outboundNonce[t][x][d] \in Nat /\ outboundNonce'[t][x][d] \in Nat
  BY <1>6 DEF TypeOK
<1>8. \A d \in Dst : outboundNonce'[s][c][d] = outboundNonce[s][c][d] + add(d)
  BY <1>4 DEF TypeOK
<1>9. \A t \in Sender, x \in Chain, d \in Dst :
        outboundNonce[t][x][d] <= outboundNonce'[t][x][d]
  BY <1>2, <1>4, <1>7, <1>8 DEF TypeOK
<1>10. issued' \in Seq(Message) /\ Range(issued') = Range(issued) \union Range(ms)
  BY <1>1, <1>3, ConcatRange DEF TypeOK
<1>11. \A m \in Message : /\ m.sender \in Sender /\ m.src \in Chain
                          /\ m.dst \in Dst /\ m.nonce \in Nat
  BY DEF Message
<1>12. ASSUME NEW m \in Range(issued)
       PROVE  /\ m \in Message
              /\ m.nonce <= outboundNonce[m.sender][m.src][m.dst]
  BY DEF TypeOK, Range, NoncesUsed
<1>13. ASSUME NEW m \in Range(ms)
       PROVE  /\ m \in Message /\ m.sender = s /\ m.src = c /\ m.dst \in Dst
              /\ m.nonce > outboundNonce[s][c][m.dst]
              /\ m.nonce <= outboundNonce'[s][c][m.dst]
  <2>1. PICK i \in 1 .. Len(reqs) : m = ms[i]
    BY <1>1 DEF Range
  <2> QED BY <1>1, <1>8, <2>1
<1>14. ASSUME NEW m \in Range(ms)
       PROVE  m \notin Range(issued)
  <2> SUFFICES ASSUME m \in Range(issued) PROVE FALSE
    OBVIOUS
  <2>1. m.nonce <= outboundNonce[s][c][m.dst]
    BY <1>12, <1>13
  <2> QED BY <1>7, <1>11, <1>13, <2>1
<1>15. FreshIds'
  <2>1. IsInjective(issued) /\ issued \in Seq(Message)
    BY DEF FreshIds, TypeOK
  <2> QED BY <1>1, <1>3, <1>14, <2>1, ConcatInjective DEF FreshIds
<1>16. NoncesUsed'
  <2>1. ASSUME NEW m \in Range(issued')
        PROVE  m.nonce <= outboundNonce'[m.sender][m.src][m.dst]
    <3>1. CASE m \in Range(issued)
      <4>1. m \in Message /\ m.nonce <= outboundNonce[m.sender][m.src][m.dst]
        BY <1>12, <3>1
      <4>2. m.sender \in Sender /\ m.src \in Chain /\ m.dst \in Dst /\ m.nonce \in Nat
        BY <1>11, <4>1
      <4>3. outboundNonce[m.sender][m.src][m.dst]
              <= outboundNonce'[m.sender][m.src][m.dst]
        BY <1>9, <4>2
      <4> QED BY <1>7, <4>1, <4>2, <4>3
    <3>2. CASE m \in Range(ms)
      BY <1>13, <3>2
    <3> QED BY <1>10, <2>1, <3>1, <3>2
  <2> QED BY <2>1 DEF NoncesUsed, Range
<1>17. ms = Prepare(s, c, reqs)
  BY DEF ms
<1> QED BY <1>6, <1>10, <1>15, <1>16, <1>17

\* receivePayload runs each of its messages for the first time and marks it.
LEMMA ReceiveFacts ==
  ASSUME TypeOK, Marked, AtMostOnce, NEW c \in Chain, NEW ms \in Seq(Message),
         NEW meta, receivePayload(c, ms, meta)
  PROVE  /\ executed' \in [Chain -> SUBSET Message]
         /\ applied' \in [Chain -> Seq(Message)]
         /\ inboundNonce' = inboundNonce
         /\ applied'[c] = applied[c] \o ms
         /\ executed'[c] = executed[c] \union Range(ms)
         /\ \A x \in Chain \ {c} : applied'[x] = applied[x] /\ executed'[x] = executed[x]
         /\ Marked' /\ AtMostOnce'
<1>1. Range(ms) \subseteq Message
  BY DEF Range
<1>2. applied[c] \in Seq(Message) /\ executed[c] \in SUBSET Message
  BY DEF TypeOK
<1>3. applied' = [applied EXCEPT ![c] = applied[c] \o ms]
  BY DEF receivePayload
<1>4. executed' = [executed EXCEPT ![c] = executed[c] \union Range(ms)]
  BY DEF receivePayload
<1>5. applied[c] \o ms \in Seq(Message)
  BY <1>2
<1>6. applied' \in [Chain -> Seq(Message)] /\ executed' \in [Chain -> SUBSET Message]
  BY <1>1, <1>2, <1>3, <1>4, <1>5 DEF TypeOK
<1>7. inboundNonce' = inboundNonce
  BY DEF receivePayload, IgnoresNonce
<1>8. /\ applied'[c] = applied[c] \o ms
      /\ executed'[c] = executed[c] \union Range(ms)
      /\ \A x \in Chain \ {c} : applied'[x] = applied[x] /\ executed'[x] = executed[x]
  BY <1>3, <1>4 DEF TypeOK
<1>9. Range(applied'[c]) = Range(applied[c]) \union Range(ms)
  BY <1>2, <1>8, ConcatRange
<1>10. Marked'
  BY <1>8, <1>9 DEF Marked
<1>11. \A m \in Range(ms) : m \notin Range(applied[c])
  BY DEF receivePayload, Runnable, Marked, Range
<1>12. IsInjective(applied'[c])
  <2>1. IsInjective(applied[c]) /\ IsInjective(ms)
    BY DEF AtMostOnce, receivePayload
  <2> QED BY <1>2, <1>8, <1>11, <2>1, ConcatInjective
<1>13. AtMostOnce'
  BY <1>8, <1>12 DEF AtMostOnce
<1> QED BY <1>6, <1>7, <1>8, <1>10, <1>13

\* Running messages whose resources are bound leaves nothing swallowed.
LEMMA NoneSwallowed ==
  ASSUME TypeOK, NothingSwallowed, NEW c \in Chain, NEW ms \in Seq(Message),
         applied'[c] = applied[c] \o ms,
         \A x \in Chain \ {c} : applied'[x] = applied[x],
         \A x \in Chain, r \in Resource : bound[x][r] # "none" => bound'[x][r] # "none",
         \A m \in Range(ms) : m.target \in Resource => bound'[c][m.target] # "none"
  PROVE  NothingSwallowed'
<1>1. ASSUME NEW x \in Chain, NEW m \in Range(applied[x]), m.target \in Resource
      PROVE  bound'[x][m.target] # "none"
  BY <1>1 DEF NothingSwallowed, Range
<1>2. Range(applied'[c]) = Range(applied[c]) \union Range(ms)
  BY ConcatRange DEF TypeOK
<1>3. ASSUME NEW x \in Chain, NEW m \in Range(applied'[x]), m.target \in Resource
      PROVE  bound'[x][m.target] # "none"
  BY <1>1, <1>2, <1>3
<1>4. \A x \in Chain : \A i \in DOMAIN applied'[x] : applied'[x][i] \in Range(applied'[x])
  BY DEF Range
<1> QED BY <1>3, <1>4 DEF NothingSwallowed

\* The own-chain messages stay done while ids are only added to executed.
LEMMA LegsKept ==
  ASSUME TypeOK, LocalLegsDone, \A x \in Chain : executed[x] \subseteq executed'[x]
  PROVE  \A m \in dispatched : m.dst = m.src => m \in executed'[m.dst]
<1>1. ASSUME NEW m \in dispatched, m.dst = m.src
      PROVE  m \in executed'[m.dst]
  <2>1. m.dst \in Chain
    BY <1>1 DEF TypeOK, Message
  <2> QED BY <1>1, <2>1 DEF LocalLegsDone
<1> QED BY <1>1

\* A sequence of one element.
LEMMA SingletonFacts ==
  ASSUME NEW S, NEW e \in S
  PROVE  /\ <<e>> \in Seq(S) /\ Len(<<e>>) = 1 /\ <<e>>[1] = e
         /\ Range(<<e>>) = {e}
  BY DEF Range

LEMMA OneElement ==
  ASSUME NEW ms \in Seq(Message), Len(ms) = 1
  PROVE  ms[1] \in Message /\ \A m \in Range(ms) : m = ms[1]
BY DEF Range

\* PrepareFacts for a single request.
LEMMA PrepareOne ==
  ASSUME TypeOK, NEW c \in Chain, NEW req \in AnyRequest
  PROVE  /\ <<req>> \in Seq(AnyRequest)
         /\ Prepare("single", c, <<req>>) \in Seq(Message)
         /\ Len(Prepare("single", c, <<req>>)) = 1
         /\ Prepare("single", c, <<req>>)[1].src = c
         /\ Prepare("single", c, <<req>>)[1].dst = req.dst
         /\ Prepare("single", c, <<req>>)[1].target = req.target
<1> DEFINE reqs == <<req>>
<1>1. reqs \in Seq(AnyRequest) /\ Len(reqs) = 1 /\ reqs[1] = req
  OBVIOUS
<1>2. "single" \in Sender /\ 1 \in 1 .. 1
  BY DEF Sender
<1>3. outboundNonce \in [Sender -> [Chain -> [Dst -> Nat]]]
  BY DEF TypeOK
<1> HIDE DEF reqs
<1>4. /\ Prepare("single", c, reqs) \in Seq(Message)
      /\ Len(Prepare("single", c, reqs)) = Len(reqs)
  BY <1>1, <1>2, <1>3, PrepareFacts
<1>5. \A i \in 1 .. Len(reqs) :
        /\ Prepare("single", c, reqs)[i].src = c
        /\ Prepare("single", c, reqs)[i].dst = reqs[i].dst
        /\ Prepare("single", c, reqs)[i].target = reqs[i].target
  BY <1>1, <1>2, <1>3, PrepareFacts
<1>6. /\ Prepare("single", c, reqs)[1].src = c
      /\ Prepare("single", c, reqs)[1].dst = req.dst
      /\ Prepare("single", c, reqs)[1].target = req.target
  BY <1>1, <1>2, <1>5
<1> QED BY <1>1, <1>4, <1>6 DEF reqs

LEMMA InvInit == Init => IInv
  BY MessagingAssumption
  DEF Init, IInv, TypeOK, FreshIds, NoncesUsed, Marked, AtMostOnce, Logged,
      LocalLegsDone, NothingSwallowed, Mirrored, Binding, IsInjective, Range, Dst

LEMMA InvSend ==
  ASSUME IInv, NEW c \in Chain, NEW req \in Request, Send(c, req)
  PROVE  IInv'
<1> DEFINE ms == Prepare("single", c, <<req>>)
<1> USE DEF IInv
<1>1. /\ <<req>> \in Seq(AnyRequest) /\ Len(<<req>>) = 1 /\ <<req>>[1] = req
      /\ "single" \in Sender
  BY SingletonFacts DEF Request, AnyRequest, Sender
<1>2. /\ ms \in Seq(Message) /\ Len(ms) = 1
      /\ ms[1].src = c /\ ms[1].dst = req.dst /\ ms[1].target = req.target
  <2>1. req \in AnyRequest
    BY DEF Request, AnyRequest
  <2> QED BY <2>1, PrepareOne
<1>3. Issue("single", c, <<req>>)
  BY DEF Send
<1>4. /\ outboundNonce' \in [Sender -> [Chain -> [Dst -> Nat]]]
      /\ issued' \in Seq(Message)
      /\ Range(issued') = Range(issued) \union Range(ms)
      /\ FreshIds' /\ NoncesUsed'
  BY <1>1, <1>3, IssueFacts
<1>5. \A m \in Range(ms) : m = ms[1] /\ m \in Message
  BY <1>2 DEF Range
<1>6. UNCHANGED <<active, frozen, bound, deployed, governed>>
  BY DEF Send
<1>7. CASE /\ req.dst = c
           /\ receivePayload(c, ms, FALSE)
           /\ UNCHANGED dispatched
  <2> HIDE DEF ms
  <2>1. /\ executed' \in [Chain -> SUBSET Message]
        /\ applied' \in [Chain -> Seq(Message)]
        /\ inboundNonce' = inboundNonce
        /\ applied'[c] = applied[c] \o ms
        /\ executed'[c] = executed[c] \union Range(ms)
        /\ \A x \in Chain \ {c} : applied'[x] = applied[x] /\ executed'[x] = executed[x]
        /\ Marked' /\ AtMostOnce'
    BY <1>2, <1>7, ReceiveFacts
  <2>2. TypeOK'
    BY <1>4, <1>6, <1>7, <2>1 DEF TypeOK
  <2>3. Logged'
    BY <1>4, <1>7, <2>1 DEF Logged
  <2>4. LocalLegsDone'
    <3>1. \A x \in Chain : executed[x] \subseteq executed'[x]
      BY <2>1
    <3> QED BY <1>7, <3>1, LegsKept DEF LocalLegsDone
  <2>5. \A m \in Range(ms) : m.target \in Resource => bound[c][m.target] # "none"
    BY <1>2, <1>5, <1>7 DEF receivePayload, Resolvable
  <2>6. NothingSwallowed'
    BY <1>2, <1>6, <2>1, <2>5, NoneSwallowed
  <2> QED BY <1>4, <2>1, <2>2, <2>3, <2>4, <2>6, <1>6 DEF Mirrored
<1>8. CASE /\ req.dst # c
           /\ dispatched' = dispatched \union Range(ms)
           /\ UNCHANGED <<executed, applied, inboundNonce>>
  <2> HIDE DEF ms
  <2>1. TypeOK'
    BY <1>4, <1>5, <1>6, <1>8 DEF TypeOK
  <2>2. Logged' /\ Marked' /\ AtMostOnce' /\ NothingSwallowed'
    BY <1>4, <1>6, <1>8 DEF Logged, Marked, AtMostOnce, NothingSwallowed
  <2>3. LocalLegsDone'
    BY <1>2, <1>5, <1>8 DEF LocalLegsDone
  <2> QED BY <1>4, <2>1, <2>2, <2>3, <1>6 DEF Mirrored
<1> QED BY <1>7, <1>8 DEF Send

LEMMA InvSendBatch ==
  ASSUME IInv, NEW c \in Chain, NEW n \in Nat,
         NEW reqs \in [1 .. n -> Request], SendBatch(c, reqs)
  PROVE  IInv'
<1> DEFINE ms == Prepare("batch", c, reqs)
<1> USE DEF IInv
<1>1. reqs \in Seq(AnyRequest) /\ Len(reqs) = n /\ "batch" \in Sender
  <2>1. Request \subseteq AnyRequest
    BY DEF Request, AnyRequest
  <2>2. reqs \in [1 .. n -> AnyRequest]
    BY <2>1
  <2> QED BY <2>2 DEF Sender
<1>2. /\ ms \in Seq(Message) /\ Len(ms) = n
      /\ \A i \in 1 .. n : ms[i].src = c
  BY <1>1, PrepareFacts DEF TypeOK
<1>3. Issue("batch", c, reqs)
  BY DEF SendBatch
<1>4. /\ outboundNonce' \in [Sender -> [Chain -> [Dst -> Nat]]]
      /\ issued' \in Seq(Message)
      /\ Range(issued') = Range(issued) \union Range(ms)
      /\ FreshIds' /\ NoncesUsed'
  BY <1>1, <1>3, IssueFacts
<1>5. /\ InlineDelivery(c, ms)
      /\ dispatched' = dispatched \union Range(ms)
      /\ UNCHANGED <<active, frozen, bound, deployed, governed>>
  BY DEF SendBatch
<1> HIDE DEF ms
<1>6. \A m \in Range(ms) : m \in Message /\ m.src = c
  BY <1>2 DEF Range
<1> DEFINE mine == {m \in Range(ms) : m.dst = c}
<1>7. PICK local \in SetToSeqs(mine) : receivePayload(c, local, FALSE)
  BY <1>5 DEF InlineDelivery
<1>8. local \in Seq(Message) /\ Range(local) \subseteq mine /\ mine \subseteq Range(local)
  <2>1. IsFiniteSet(mine)
    <3>1. IsFiniteSet(1 .. n)
      BY FS_Interval
    <3>2. ms \in Surjection(1 .. n, Range(ms))
      BY <1>2 DEF Range, Surjection
    <3>3. IsFiniteSet(Range(ms))
      BY <3>1, <3>2, FS_Surjection
    <3>4. mine \in SUBSET Range(ms)
      OBVIOUS
    <3> HIDE DEF mine
    <3> QED BY <3>3, <3>4, FS_Subset
  <2> DEFINE size == Cardinality(mine)
  <2>2. size \in Nat
    BY <2>1, FS_CardinalityType
  <2>3. local \in [1 .. size -> mine] /\ \A i, j \in 1 .. size : i # j => local[i] # local[j]
    BY DEF SetToSeqs
  <2>4. mine \subseteq Message
    BY <1>6
  <2> HIDE DEF mine
  <2>5. local \in Seq(Message)
    BY <2>2, <2>3, <2>4
  <2>6. Range(local) \subseteq mine
    BY <2>3 DEF Range
  <2>7. mine \subseteq Range(local)
    <3>1. IsFiniteSet(1 .. size) /\ Cardinality(1 .. size) = size
      BY <2>2, FS_Interval
    <3>2. local \in Injection(1 .. size, mine)
      BY <2>3 DEF Injection, IsInjective
    <3>3. local \in Surjection(1 .. size, mine)
      BY <2>1, <3>1, <3>2, FS_Injection
    <3> QED BY <3>3 DEF Surjection, Range
  <2> QED BY <2>5, <2>6, <2>7
<1> HIDE DEF mine
<1>9. /\ executed' \in [Chain -> SUBSET Message]
      /\ applied' \in [Chain -> Seq(Message)]
      /\ inboundNonce' = inboundNonce
      /\ applied'[c] = applied[c] \o local
      /\ executed'[c] = executed[c] \union Range(local)
      /\ \A x \in Chain \ {c} : applied'[x] = applied[x] /\ executed'[x] = executed[x]
      /\ Marked' /\ AtMostOnce'
  BY <1>7, <1>8, ReceiveFacts
<1>10. mine \subseteq Range(ms) /\ \A m \in Range(ms) : m.dst = c => m \in mine
  BY DEF mine
<1>11. TypeOK'
  BY <1>4, <1>5, <1>6, <1>9 DEF TypeOK
<1>12. Logged'
  BY <1>4, <1>5, <1>8, <1>9, <1>10 DEF Logged
<1>13. LocalLegsDone'
  <2>1. \A x \in Chain : executed[x] \subseteq executed'[x]
    BY <1>9
  <2>2. \A m \in Range(ms) : m.dst = m.src => m \in executed'[m.dst]
    BY <1>6, <1>8, <1>9, <1>10
  <2> QED BY <1>5, <2>1, <2>2, LegsKept DEF LocalLegsDone
<1>14. NothingSwallowed'
  <2>1. ASSUME NEW m \in Range(local), m.target \in Resource
        PROVE  bound[c][m.target] # "none"
    <3>1. PICK i \in 1 .. Len(local) : m = local[i]
      BY <1>8 DEF Range
    <3> QED BY <1>7, <2>1, <3>1 DEF receivePayload, Resolvable
  <2> QED BY <1>5, <1>8, <1>9, <2>1, NoneSwallowed
<1> QED BY <1>4, <1>9, <1>11, <1>12, <1>13, <1>14, <1>5 DEF Mirrored

\* A broadcast is the requests of a list of participants other than itself.
LEMMA BroadcastFacts ==
  ASSUME TypeOK, NEW c \in Chain, NEW r \in Resource, NEW k \in Kind,
         Broadcast(c, r, k)
  PROVE  \E reqs \in Seq(AnyRequest) :
           /\ Issue("single", c, reqs)
           /\ dispatched' = dispatched \union Range(Prepare("single", c, reqs))
           /\ \A i \in 1 .. Len(reqs) : reqs[i].dst # c /\ reqs[i].kind = k
<1> DEFINE others == active[c] \ {c}
<1> DEFINE reqsOf(order) == [i \in 1 .. Len(order) |->
                               [dst |-> order[i], target |-> r, kind |-> k]]
<1>1. PICK order \in SetToSeqs(others) :
        /\ Issue("single", c, reqsOf(order))
        /\ dispatched' = dispatched \union Range(Prepare("single", c, reqsOf(order)))
  BY DEF Broadcast
<1> DEFINE reqs == reqsOf(order)
<1>2. others \in SUBSET Chain
  BY DEF TypeOK
<1>3. /\ order \in Seq(Chain) /\ Len(order) \in Nat
      /\ \A i \in 1 .. Len(order) : order[i] \in Chain \ {c}
  <2>1. IsFiniteSet(others)
    BY <1>2, MessagingAssumption, FS_Subset
  <2> DEFINE size == Cardinality(others)
  <2>2. size \in Nat
    BY <2>1, FS_CardinalityType
  <2>3. order \in [1 .. size -> others]
    BY DEF SetToSeqs
  <2>4. others \subseteq Chain \ {c}
    BY <1>2
  <2> HIDE DEF size
  <2> QED BY <2>2, <2>3, <2>4
<1>4. reqs \in Seq(AnyRequest) /\ Len(reqs) = Len(order)
  <2>1. \A i \in 1 .. Len(order) :
          [dst |-> order[i], target |-> r, kind |-> k] \in AnyRequest
    BY <1>3 DEF AnyRequest, Dst, Target
  <2> QED BY <1>3, <2>1
<1>5. \A i \in 1 .. Len(order) : reqs[i].dst # c /\ reqs[i].kind = k
  BY <1>3
<1> HIDE DEF reqsOf
<1> QED BY <1>1, <1>4, <1>5

LEMMA InvBroadcast ==
  ASSUME IInv, NEW c \in Chain, NEW r \in Resource, NEW k \in Kind,
         Broadcast(c, r, k)
  PROVE  IInv'
<1> USE DEF IInv
<1>1. PICK reqs \in Seq(AnyRequest) :
        /\ Issue("single", c, reqs)
        /\ dispatched' = dispatched \union Range(Prepare("single", c, reqs))
        /\ \A i \in 1 .. Len(reqs) : reqs[i].dst # c
  BY BroadcastFacts
<1> DEFINE ms == Prepare("single", c, reqs)
<1>2. "single" \in Sender
  BY DEF Sender
<1>3. /\ ms \in Seq(Message) /\ Len(ms) = Len(reqs)
      /\ \A i \in 1 .. Len(reqs) : ms[i].src = c /\ ms[i].dst = reqs[i].dst
  BY <1>2, PrepareFacts DEF TypeOK
<1>4. /\ outboundNonce' \in [Sender -> [Chain -> [Dst -> Nat]]]
      /\ issued' \in Seq(Message)
      /\ Range(issued') = Range(issued) \union Range(ms)
      /\ FreshIds' /\ NoncesUsed'
  BY <1>1, <1>2, IssueFacts
<1>5. dispatched' = dispatched \union Range(ms)
  BY <1>1
<1> HIDE DEF ms
<1>6. \A m \in Range(ms) : m \in Message /\ m.src = c /\ m.dst # c
  BY <1>1, <1>3 DEF Range
<1>7. UNCHANGED <<inboundNonce, active, frozen, bound, deployed, executed,
                  governed, applied>>
  BY DEF Broadcast
<1>8. TypeOK'
  BY <1>4, <1>5, <1>6, <1>7 DEF TypeOK
<1>9. Logged' /\ Marked' /\ AtMostOnce' /\ NothingSwallowed'
  BY <1>4, <1>5, <1>7 DEF Logged, Marked, AtMostOnce, NothingSwallowed
<1>10. LocalLegsDone'
  BY <1>5, <1>6, <1>7 DEF LocalLegsDone
<1> QED BY <1>4, <1>8, <1>9, <1>10, <1>7 DEF Mirrored

LEMMA InvDeliver ==
  ASSUME IInv, NEW c \in Chain, NEW m \in dispatched, NEW meta \in BOOLEAN,
         Deliver(c, m, meta)
  PROVE  IInv'
<1> USE DEF IInv
<1> DEFINE back == [dst |-> m.src, target |-> Direct, kind |-> "ack"]
<1> DEFINE acks == Prepare("single", c, <<back>>)
<1>1. m \in Message /\ m \in Range(issued) /\ m.src \in Chain
  BY DEF TypeOK, Logged, Message
<1>2. /\ <<m>> \in Seq(Message) /\ Len(<<m>>) = 1 /\ <<m>>[1] = m
      /\ Range(<<m>>) = {m}
  BY <1>1, SingletonFacts
<1>3. /\ receivePayload(c, <<m>>, meta) /\ handleWithResourceId(c, m, meta)
      /\ UNCHANGED <<active, frozen, governed>>
  BY DEF Deliver
<1>4. /\ executed' \in [Chain -> SUBSET Message]
      /\ applied' \in [Chain -> Seq(Message)]
      /\ inboundNonce' = inboundNonce
      /\ applied'[c] = applied[c] \o <<m>>
      /\ executed'[c] = executed[c] \union Range(<<m>>)
      /\ \A x \in Chain \ {c} : applied'[x] = applied[x] /\ executed'[x] = executed[x]
      /\ Marked' /\ AtMostOnce'
  BY <1>2, <1>3, ReceiveFacts
<1>5. \A x \in Chain : executed[x] \subseteq executed'[x]
  BY <1>4
<1>6. /\ bound' \in [Chain -> [Resource -> Binding]]
      /\ deployed' \in [Chain -> [Resource -> Nat]]
      /\ \A x \in Chain, r \in Resource : bound[x][r] # "none" => bound'[x][r] # "none"
      /\ (m.target \in Resource /\ meta) => bound'[c][m.target] # "none"
      /\ Mirrored'
  <2>1. CASE m.target \in Resource /\ meta /\ bound[c][m.target] = "none"
    <3>1. deployed[c][m.target] = 0 /\ "mirror" \in Binding
      BY <2>1 DEF TypeOK, Mirrored, Binding
    <3>2. /\ deployed' = [deployed EXCEPT ![c][m.target] = deployed[c][m.target] + 1]
          /\ bound' = [bound EXCEPT ![c][m.target] = "mirror"]
      BY <1>3, <2>1 DEF handleWithResourceId, Deploy
    <3> QED BY <2>1, <3>1, <3>2 DEF TypeOK, Mirrored
  <2>2. CASE ~ (m.target \in Resource /\ meta /\ bound[c][m.target] = "none")
    <3>1. UNCHANGED <<deployed, bound>>
      BY <1>3, <2>2 DEF handleWithResourceId
    <3> QED BY <2>2, <3>1 DEF TypeOK, Mirrored
  <2> QED BY <2>1, <2>2
<1>7. NothingSwallowed'
  <2>1. m.target \in Resource => bound'[c][m.target] # "none"
    BY <1>2, <1>3, <1>6 DEF receivePayload, Resolvable
  <2>2. \A a \in Range(<<m>>) : a.target \in Resource => bound'[c][a.target] # "none"
    BY <1>2, <2>1
  <2>3. /\ applied'[c] = applied[c] \o <<m>>
        /\ \A x \in Chain \ {c} : applied'[x] = applied[x]
        /\ <<m>> \in Seq(Message)
        /\ \A x \in Chain, r \in Resource : bound[x][r] # "none" => bound'[x][r] # "none"
    BY <1>2, <1>4, <1>6
  <2> DEFINE ms == <<m>>
  <2> HIDE DEF ms
  <2>4. /\ ms \in Seq(Message) /\ applied'[c] = applied[c] \o ms
        /\ \A a \in Range(ms) : a.target \in Resource => bound'[c][a.target] # "none"
    BY <2>2, <2>3 DEF ms
  <2> QED BY <2>3, <2>4, NoneSwallowed
<1>8. CASE m.kind = "reply"
  <2>1. m.src # c
    BY <1>2, <1>3, <1>8 DEF receivePayload, Runnable
  <2>2. /\ Issue("single", c, <<back>>)
        /\ dispatched' = dispatched \union Range(acks)
    BY <1>8 DEF Deliver
  <2>3. back \in AnyRequest /\ back.dst = m.src
    BY <1>1 DEF AnyRequest, Dst, Target
  <2> HIDE DEF back
  <2>4. /\ <<back>> \in Seq(AnyRequest) /\ Len(<<back>>) = 1 /\ <<back>>[1] = back
        /\ "single" \in Sender
    BY <2>3, SingletonFacts DEF Sender
  <2>5. /\ acks \in Seq(Message) /\ Len(acks) = 1
        /\ acks[1].src = c /\ acks[1].dst = m.src
    BY <2>3, PrepareOne
  <2>6. /\ outboundNonce' \in [Sender -> [Chain -> [Dst -> Nat]]]
        /\ issued' \in Seq(Message)
        /\ Range(issued') = Range(issued) \union Range(acks)
        /\ FreshIds' /\ NoncesUsed'
    BY <2>2, <2>4, IssueFacts
  <2> HIDE DEF acks
  <2>7. \A a \in Range(acks) : a \in Message /\ a.src # a.dst
    <3>1. acks[1] \in Message /\ \A a \in Range(acks) : a = acks[1]
      BY <2>5, OneElement
    <3>2. acks[1].src # acks[1].dst
      BY <2>1, <2>5
    <3> QED BY <3>1, <3>2
  <2>8. TypeOK'
    BY <1>3, <1>4, <1>6, <2>2, <2>6, <2>7 DEF TypeOK
  <2>9. Logged'
    BY <1>1, <1>2, <1>4, <2>2, <2>6 DEF Logged
  <2>10. LocalLegsDone'
    BY <1>5, <2>2, <2>7, LegsKept DEF LocalLegsDone
  <2> QED BY <1>4, <1>6, <1>7, <2>6, <2>8, <2>9, <2>10
<1>9. CASE m.kind # "reply"
  <2>1. UNCHANGED <<outboundNonce, issued, dispatched>>
    BY <1>9 DEF Deliver
  <2>2. TypeOK' /\ FreshIds' /\ NoncesUsed'
    BY <1>3, <1>4, <1>6, <2>1 DEF TypeOK, FreshIds, NoncesUsed
  <2>3. Logged'
    BY <1>1, <1>2, <1>4, <2>1 DEF Logged
  <2>4. LocalLegsDone'
    BY <1>5, <2>1, LegsKept DEF LocalLegsDone
  <2> QED BY <1>4, <1>6, <1>7, <2>2, <2>3, <2>4
<1> QED BY <1>8, <1>9

LEMMA InvNext == IInv /\ [Next]_vars => IInv'
<1> SUFFICES ASSUME IInv, [Next]_vars PROVE IInv'
  OBVIOUS
<1>1. ASSUME NEW c \in Origin, NEW req \in Request, Send(c, req)
      PROVE  IInv'
  BY <1>1, InvSend, MessagingAssumption
<1>2. ASSUME NEW c \in Origin, NEW n \in 1 .. MaxBatchMessages - 1,
             NEW reqs \in [1 .. n -> Request], SendBatch(c, reqs)
      PROVE  IInv'
  <2>1. n \in Nat /\ c \in Chain
    BY MessagingAssumption
  <2> QED BY <1>2, <2>1, InvSendBatch
<1>3. ASSUME NEW c \in Origin, NEW r \in Resource, NEW k \in Kind,
             Broadcast(c, r, k)
      PROVE  IInv'
  BY <1>3, InvBroadcast, MessagingAssumption
<1>4. ASSUME NEW c \in Registrar, NEW r \in Resource, RegisterResourceId(c, r)
      PROVE  IInv'
  <2>0. c \in Chain
    BY MessagingAssumption
  <2>1. bound' = [bound EXCEPT ![c][r] = "registered"] /\ deployed' = deployed
        /\ "registered" \in Binding
    BY <1>4 DEF RegisterResourceId, Binding
  <2>3. TypeOK' /\ Mirrored'
    BY <1>4, <2>0, <2>1 DEF RegisterResourceId, IInv, TypeOK, Mirrored
  <2>4. \A x \in Chain, q \in Resource : bound[x][q] # "none" => bound'[x][q] # "none"
    BY <2>0, <2>1 DEF IInv, TypeOK
  <2>5. NothingSwallowed'
    <3>1. applied' = applied
      BY <1>4 DEF RegisterResourceId
    <3> QED BY <2>4, <3>1 DEF IInv, NothingSwallowed
  <2> QED BY <1>4, <2>3, <2>5 DEF RegisterResourceId, IInv, FreshIds, NoncesUsed,
            Marked, AtMostOnce, Logged, LocalLegsDone
<1>5. ASSUME NEW c \in Chain, NEW m \in dispatched, NEW meta \in BOOLEAN,
             Deliver(c, m, meta)
      PROVE  IInv'
  BY <1>5, InvDeliver
<1>6. ASSUME NEW c \in Chain, Govern(c)
      PROVE  IInv'
  <2>0. MaxGovern \in Nat /\ governed \in 0 .. MaxGovern
    BY MessagingAssumption DEF IInv, TypeOK
  <2>1. governed' \in 0 .. MaxGovern
    BY <1>6, <2>0 DEF Govern
  <2>2. /\ active' \in [Chain -> SUBSET (Chain \ {Hub})]
        /\ frozen' \in [Chain -> SUBSET (Resource \X Chain)]
    <3>1. ASSUME NEW d \in Chain \ {Hub}, UNCHANGED frozen,
                 active' = [active EXCEPT ![c] = SymDiff(@, {d})]
          PROVE  /\ active' \in [Chain -> SUBSET (Chain \ {Hub})]
                 /\ frozen' \in [Chain -> SUBSET (Resource \X Chain)]
      <4>1. SymDiff(active[c], {d}) \in SUBSET (Chain \ {Hub})
        BY DEF SymDiff, IInv, TypeOK
      <4> QED BY <3>1, <4>1 DEF IInv, TypeOK
    <3>2. ASSUME NEW r \in Resource, NEW d \in Chain \ {Hub}, UNCHANGED active,
                 frozen' = [frozen EXCEPT ![c] = SymDiff(@, {<<r, d>>})]
          PROVE  /\ active' \in [Chain -> SUBSET (Chain \ {Hub})]
                 /\ frozen' \in [Chain -> SUBSET (Resource \X Chain)]
      <4>1. <<r, d>> \in Resource \X Chain /\ frozen[c] \in SUBSET (Resource \X Chain)
        BY DEF IInv, TypeOK
      <4>2. SymDiff(frozen[c], {<<r, d>>}) \in SUBSET (Resource \X Chain)
        BY <4>1 DEF SymDiff
      <4> QED BY <3>2, <4>2 DEF IInv, TypeOK
    <3> QED BY <1>6, <3>1, <3>2 DEF Govern
  <2>3. TypeOK'
    BY <1>6, <2>1, <2>2 DEF Govern, IInv, TypeOK
  <2> QED BY <1>6, <2>3 DEF Govern, IInv, FreshIds, NoncesUsed, Marked,
            AtMostOnce, Logged, LocalLegsDone, NothingSwallowed, Mirrored
<1>7. CASE UNCHANGED vars
  BY <1>7 DEF vars, IInv, TypeOK, FreshIds, NoncesUsed, Marked, AtMostOnce,
     Logged, LocalLegsDone, NothingSwallowed, Mirrored
<1> QED BY <1>1, <1>2, <1>3, <1>4, <1>5, <1>6, <1>7 DEF Next

\* The inductive invariant holds in every behaviour.
THEOREM Invariance == Spec => []IInv
<1>1. Init => IInv
  BY InvInit
<1>2. IInv /\ [Next]_vars => IInv'
  BY InvNext
<1> QED BY <1>1, <1>2, PTL DEF Spec

\* A message runs at most once on each chain, for any number of deliveries.
THEOREM DeliveredAtMostOnce == Spec => []AtMostOnce
<1>1. IInv => AtMostOnce
  BY DEF IInv
<1> QED BY <1>1, Invariance, PTL

\* No two messages of the same or of different sender modules share an id.
THEOREM IdsAreFresh == Spec => []FreshIds
<1>1. IInv => FreshIds
  BY DEF IInv
<1> QED BY <1>1, Invariance, PTL

\* A batch in the log has run the messages to its own chain.
THEOREM BatchesAreWhole == Spec => []LocalLegsDone
<1>1. IInv => LocalLegsDone
  BY DEF IInv
<1> QED BY <1>1, Invariance, PTL

\* No message is used up before the contract it is for exists.
THEOREM NoMessageIsSwallowed == Spec => []NothingSwallowed
<1>1. IInv => NothingSwallowed
  BY DEF IInv
<1> QED BY <1>1, Invariance, PTL

\* However deliveries with deployment data and registrations race, a chain
\* deploys at most one mirror of a resource.
THEOREM MirrorsAreDeployedOnce == Spec => []OneMirror
<1>1. IInv => OneMirror
  <2> SUFFICES ASSUME IInv, NEW c \in Chain, NEW r \in Resource
               PROVE  deployed[c][r] <= 1
    BY DEF OneMirror
  <2>1. deployed[c][r] \in Nat
    BY DEF IInv, TypeOK
  <2>2. deployed[c][r] <= 0 \/ deployed[c][r] <= 1
    BY DEF IInv, Mirrored
  <2> QED BY <2>1, <2>2
<1> QED BY <1>1, Invariance, PTL

-------------------------------------------------------------------------------
(* Answers: one for each question that ran                                 *)

\* The answers prepared, and the questions that ran, each with its chain.
Answers == {i \in DOMAIN issued : issued[i].kind = "ack"}
Questions == {p \in Chain \X Range(issued) :
                p[2].kind = "reply" /\ p[2] \in executed[p[1]]}

\* Positions of a concatenation.
LEMMA ConcatShape ==
  ASSUME NEW s \in Seq(Message), NEW t \in Seq(Message)
  PROVE  /\ DOMAIN (s \o t) = 1 .. (Len(s) + Len(t))
         /\ DOMAIN s = 1 .. Len(s)
         /\ Len(s) \in Nat /\ Len(t) \in Nat
         /\ \A i \in 1 .. (Len(s) + Len(t)) :
              (s \o t)[i] = IF i <= Len(s) THEN s[i] ELSE t[i - Len(s)]
<1>1. /\ DOMAIN (s \o t) = 1 .. (Len(s) + Len(t))
      /\ DOMAIN s = 1 .. Len(s)
      /\ Len(s) \in Nat /\ Len(t) \in Nat
  OBVIOUS
<1>2. \A i \in 1 .. (Len(s) + Len(t)) :
        (s \o t)[i] = IF i <= Len(s) THEN s[i] ELSE t[i - Len(s)]
  BY ConcatProperties
<1> QED BY <1>1, <1>2

LEMMA AnswersFinite ==
  ASSUME TypeOK
  PROVE  /\ IsFiniteSet(Answers) /\ Cardinality(Answers) \in Nat
         /\ IsFiniteSet(Questions) /\ Cardinality(Questions) \in Nat
<1>1. issued \in [1 .. Len(issued) -> Message] /\ Len(issued) \in Nat
  BY DEF TypeOK
<1>2. IsFiniteSet(1 .. Len(issued))
  BY <1>1, FS_Interval
<1>3. Answers \in SUBSET (1 .. Len(issued))
  BY <1>1 DEF Answers
<1>4. issued \in Surjection(1 .. Len(issued), Range(issued))
  BY <1>1 DEF Surjection, Range
<1>5. IsFiniteSet(Range(issued))
  BY <1>2, <1>4, FS_Surjection
<1>6. IsFiniteSet(Chain \X Range(issued))
  BY <1>5, MessagingAssumption, FS_Product
<1>7. Questions \in SUBSET (Chain \X Range(issued))
  BY DEF Questions
<1>8. IsFiniteSet(Answers) /\ IsFiniteSet(Questions)
  BY <1>2, <1>3, <1>6, <1>7, FS_Subset
<1> QED BY <1>8, FS_CardinalityType

\* Messages that are no answers add none.
LEMMA NoAnswers ==
  ASSUME TypeOK, NEW s \in Sender, NEW c \in Chain, NEW reqs \in Seq(AnyRequest),
         Issue(s, c, reqs), \A i \in 1 .. Len(reqs) : reqs[i].kind \in Kind
  PROVE  Answers' = Answers
<1> DEFINE ms == Prepare(s, c, reqs)
<1>1. ms \in Seq(Message) /\ Len(ms) = Len(reqs) /\ issued \in Seq(Message)
  BY PrepareFacts DEF TypeOK
<1>2. ASSUME NEW i \in 1 .. Len(reqs)
      PROVE  ms[i].kind # "ack"
  <2>1. ms[i].kind = reqs[i].kind
    BY PrepareFacts DEF TypeOK
  <2>2. reqs[i].kind \in {"plain", "reply"}
    BY MessagingAssumption
  <2> QED BY <2>1, <2>2
<1>3. issued' = issued \o ms
  BY DEF Issue
<1> HIDE DEF ms
<1>4. /\ DOMAIN issued = 1 .. Len(issued) /\ Len(issued) \in Nat /\ Len(ms) \in Nat
      /\ DOMAIN issued' = 1 .. (Len(issued) + Len(ms))
  BY <1>1, <1>3, ConcatShape
<1>5. \A i \in 1 .. (Len(issued) + Len(ms)) :
        issued'[i] = IF i <= Len(issued) THEN issued[i] ELSE ms[i - Len(issued)]
  BY <1>1, <1>3, ConcatShape
<1>6. ASSUME NEW i \in 1 .. (Len(issued) + Len(ms)), issued'[i].kind = "ack"
      PROVE  i \in 1 .. Len(issued)
  <2> SUFFICES ASSUME ~ (i <= Len(issued))
               PROVE  FALSE
    BY <1>4
  <2>1. i - Len(issued) \in 1 .. Len(reqs)
    BY <1>1, <1>4
  <2> QED BY <1>2, <1>5, <1>6, <2>1
<1>7. \A i \in 1 .. Len(issued) : i \in 1 .. (Len(issued) + Len(ms)) /\ issued'[i] = issued[i]
  BY <1>4, <1>5
<1> QED BY <1>4, <1>6, <1>7 DEF Answers

\* A step that runs no question leaves the questions that ran alone.
LEMMA NoQuestions ==
  ASSUME IInv, Range(issued) \subseteq Range(issued'),
         \A x \in Chain : executed[x] \subseteq executed'[x],
         \A x \in Chain : \A m \in executed'[x] \ executed[x] : m.kind # "reply"
  PROVE  Questions' = Questions
<1>1. \A x \in Chain : executed[x] \subseteq Range(issued)
  BY DEF IInv, Logged
<1>2. Questions' \subseteq Questions
  <2> SUFFICES ASSUME NEW p \in Questions'
               PROVE  p \in Questions
    OBVIOUS
  <2>1. p[1] \in Chain /\ p[2].kind = "reply" /\ p[2] \in executed'[p[1]] /\ p = <<p[1], p[2]>>
    BY DEF Questions
  <2>2. p[2] \in executed[p[1]]
    BY <2>1
  <2>3. p[2] \in Range(issued)
    BY <1>1, <2>1, <2>2
  <2> QED BY <2>1, <2>2, <2>3 DEF Questions
<1>3. Questions \subseteq Questions'
  BY DEF Questions
<1> QED BY <1>2, <1>3

\* Running the messages of ms on chain c adds no question if none is one.
LEMMA PlainRun ==
  ASSUME IInv, NEW c \in Chain, NEW ms \in Seq(Message), NEW meta,
         receivePayload(c, ms, meta),
         \A m \in Range(ms) : m.kind # "reply",
         Range(issued) \subseteq Range(issued')
  PROVE  Questions' = Questions
<1>1. /\ executed'[c] = executed[c] \union Range(ms)
      /\ \A x \in Chain \ {c} : executed'[x] = executed[x]
  BY ReceiveFacts DEF IInv
<1> QED BY <1>1, NoQuestions

\* What runs where it was sent is no question: the executor does not nest.
LEMMA LocalIsPlain ==
  ASSUME NEW c \in Chain, NEW ms \in Seq(Message), NEW meta,
         receivePayload(c, ms, meta), \A m \in Range(ms) : m.src = c
  PROVE  \A m \in Range(ms) : m.kind # "reply"
<1> SUFFICES ASSUME NEW m \in Range(ms)
             PROVE  m.kind # "reply"
  OBVIOUS
<1>1. PICK i \in 1 .. Len(ms) : m = ms[i]
  BY DEF Range
<1> QED BY <1>1 DEF receivePayload, Runnable

LEMMA RepliesSend ==
  ASSUME IInv, NEW c \in Chain, NEW req \in Request, Send(c, req)
  PROVE  Answers' = Answers /\ Questions' = Questions
<1> DEFINE ms == Prepare("single", c, <<req>>)
<1>1. req \in AnyRequest /\ req.kind \in Kind /\ "single" \in Sender
  BY DEF Request, AnyRequest, Sender
<1>2. /\ <<req>> \in Seq(AnyRequest) /\ ms \in Seq(Message) /\ Len(ms) = 1
      /\ ms[1].src = c
  BY <1>1, PrepareOne DEF IInv
<1>3. Issue("single", c, <<req>>)
  BY DEF Send
<1>4. Range(issued') = Range(issued) \union Range(ms)
  BY <1>1, <1>2, <1>3, IssueFacts DEF IInv
<1>5. Answers' = Answers
  <2>1. PICK reqs \in Seq(AnyRequest) : reqs = <<req>>
    BY <1>2
  <2>2. \A i \in 1 .. Len(reqs) : reqs[i].kind \in Kind
    BY <1>1, <2>1
  <2> QED BY <1>1, <1>3, <2>1, <2>2, NoAnswers DEF IInv
<1>6. \A m \in Range(ms) : m.src = c
  BY <1>2 DEF Range
<1>7. CASE receivePayload(c, ms, FALSE)
  <2> HIDE DEF ms
  <2>1. \A m \in Range(ms) : m.kind # "reply"
    BY <1>2, <1>6, <1>7, LocalIsPlain
  <2> QED BY <1>2, <1>4, <1>5, <1>7, <2>1, PlainRun
<1>8. CASE UNCHANGED executed
  BY <1>4, <1>5, <1>8, NoQuestions
<1> QED BY <1>7, <1>8 DEF Send

LEMMA RepliesSendBatch ==
  ASSUME IInv, NEW c \in Chain, NEW n \in Nat,
         NEW reqs \in [1 .. n -> Request], SendBatch(c, reqs)
  PROVE  Answers' = Answers /\ Questions' = Questions
<1> DEFINE ms == Prepare("batch", c, reqs)
           mine == {m \in Range(ms) : m.dst = c}
<1>1. /\ reqs \in Seq(AnyRequest) /\ Len(reqs) = n /\ "batch" \in Sender
      /\ \A i \in 1 .. Len(reqs) : reqs[i].kind \in Kind
  <2>1. Request \subseteq AnyRequest
    BY DEF Request, AnyRequest
  <2>2. reqs \in [1 .. n -> AnyRequest] /\ \A i \in 1 .. n : reqs[i].kind \in Kind
    BY <2>1 DEF Request
  <2> QED BY <2>2 DEF Sender
<1>2. Issue("batch", c, reqs)
  BY DEF SendBatch
<1>3. Answers' = Answers
  BY <1>1, <1>2, NoAnswers DEF IInv
<1>4. Range(issued') = Range(issued) \union Range(ms)
  BY <1>1, <1>2, IssueFacts DEF IInv
<1>5. /\ ms \in Seq(Message) /\ Len(ms) = n
      /\ \A i \in 1 .. n : ms[i].src = c
  BY <1>1, PrepareFacts DEF IInv, TypeOK
<1> HIDE DEF ms
<1>6. PICK local \in SetToSeqs(mine) : receivePayload(c, local, FALSE)
  BY DEF SendBatch, InlineDelivery, ms
<1>7. local \in Seq(Message) /\ Range(local) \subseteq mine
  <2>1. IsFiniteSet(mine)
    <3>1. IsFiniteSet(1 .. n)
      BY FS_Interval
    <3>2. ms \in Surjection(1 .. n, Range(ms))
      BY <1>5 DEF Range, Surjection
    <3>3. IsFiniteSet(Range(ms))
      BY <3>1, <3>2, FS_Surjection
    <3>4. mine \in SUBSET Range(ms)
      OBVIOUS
    <3> HIDE DEF mine
    <3> QED BY <3>3, <3>4, FS_Subset
  <2> DEFINE size == Cardinality(mine)
  <2>2. size \in Nat /\ local \in [1 .. size -> mine]
    BY <2>1, FS_CardinalityType DEF SetToSeqs
  <2>3. mine \subseteq Message
    BY <1>5 DEF Range
  <2> HIDE DEF mine
  <2> QED BY <2>2, <2>3 DEF Range
<1>8. \A m \in Range(local) : m.src = c
  BY <1>5, <1>7 DEF Range
<1>9. \A m \in Range(local) : m.kind # "reply"
  BY <1>6, <1>7, <1>8, LocalIsPlain
<1> QED BY <1>3, <1>4, <1>6, <1>7, <1>9, PlainRun

LEMMA RepliesBroadcast ==
  ASSUME IInv, NEW c \in Chain, NEW r \in Resource, NEW k \in Kind,
         Broadcast(c, r, k)
  PROVE  Answers' = Answers /\ Questions' = Questions
<1>1. PICK reqs \in Seq(AnyRequest) :
        /\ Issue("single", c, reqs)
        /\ \A i \in 1 .. Len(reqs) : reqs[i].kind = k
  BY BroadcastFacts DEF IInv
<1>2. Range(issued) \subseteq Range(issued') /\ Answers' = Answers
  BY <1>1, IssueFacts, NoAnswers DEF IInv, Sender
<1>3. executed' = executed
  BY DEF Broadcast
<1> QED BY <1>2, <1>3, NoQuestions

\* A delivered question adds one answer and itself.
LEMMA RepliesQuestion ==
  ASSUME IInv, NEW c \in Chain, NEW m \in dispatched, NEW meta \in BOOLEAN,
         Deliver(c, m, meta), m.kind = "reply"
  PROVE  /\ \E i : i \notin Answers /\ Answers' = Answers \union {i}
         /\ \E p : p \notin Questions /\ Questions' = Questions \union {p}
<1> DEFINE back == [dst |-> m.src, target |-> Direct, kind |-> "ack"]
<1>1. m \in Message /\ m \in Range(issued) /\ m.src \in Chain
  BY DEF IInv, TypeOK, Logged, Message
<1>2. back \in AnyRequest /\ back.kind = "ack" /\ "single" \in Sender
  BY <1>1 DEF AnyRequest, Dst, Target, Sender
<1>3. Issue("single", c, <<back>>)
  BY DEF Deliver
<1> HIDE DEF back
<1>4. PICK reqs \in Seq(AnyRequest) : reqs = <<back>>
  BY <1>2, SingletonFacts
<1>5. Len(reqs) = 1 /\ reqs[1] = back
  BY <1>4
<1>6. PICK ms : ms = Prepare("single", c, reqs)
  OBVIOUS
<1>7. ms \in Seq(Message) /\ Len(ms) = 1 /\ ms[1].kind = "ack"
  <2>1. ms \in Seq(Message) /\ Len(ms) = 1
    BY <1>2, <1>5, <1>6, PrepareFacts DEF IInv, TypeOK
  <2>2. \A i \in 1 .. Len(reqs) : Prepare("single", c, reqs)[i].kind = reqs[i].kind
    BY <1>2, PrepareFacts DEF IInv, TypeOK
  <2> QED BY <1>2, <1>5, <1>6, <2>1, <2>2
<1>8. issued' = issued \o ms /\ issued \in Seq(Message)
  BY <1>3, <1>4, <1>6 DEF Issue, IInv, TypeOK
<1>9. /\ Len(issued) \in Nat /\ DOMAIN issued = 1 .. Len(issued)
      /\ DOMAIN issued' = 1 .. (Len(issued) + 1)
      /\ issued'[Len(issued) + 1] = ms[1]
      /\ \A i \in 1 .. Len(issued) : issued'[i] = issued[i]
  <2>1. /\ Len(issued) \in Nat /\ DOMAIN issued = 1 .. Len(issued)
        /\ DOMAIN issued' = 1 .. (Len(issued) + Len(ms))
        /\ \A i \in 1 .. (Len(issued) + Len(ms)) :
             issued'[i] = IF i <= Len(issued) THEN issued[i] ELSE ms[i - Len(issued)]
    BY <1>7, <1>8, ConcatShape
  <2> QED BY <1>7, <2>1
<1>10. /\ Len(issued) + 1 \notin Answers
       /\ Answers' = Answers \union {Len(issued) + 1}
  <2>1. \A i \in 1 .. (Len(issued) + 1) : i \in 1 .. Len(issued) \/ i = Len(issued) + 1
    BY <1>9
  <2>2. \A i \in 1 .. Len(issued) : i \in 1 .. (Len(issued) + 1)
    BY <1>9
  <2>3. Len(issued) + 1 \in 1 .. (Len(issued) + 1) /\ Len(issued) + 1 \notin 1 .. Len(issued)
    BY <1>9
  <2> QED BY <1>7, <1>9, <2>1, <2>2, <2>3 DEF Answers
<1>11. Range(issued') = Range(issued) \union Range(ms)
  BY <1>7, <1>8, ConcatRange
<1>12. /\ receivePayload(c, <<m>>, meta)
       /\ <<m>> \in Seq(Message) /\ Range(<<m>>) = {m}
       /\ Len(<<m>>) = 1 /\ <<m>>[1] = m
  BY <1>1, SingletonFacts DEF Deliver
<1>13. /\ executed'[c] = executed[c] \union {m}
       /\ \A x \in Chain \ {c} : executed'[x] = executed[x]
  BY <1>12, ReceiveFacts DEF IInv
<1>14. m \notin executed[c]
  BY <1>12 DEF receivePayload, Runnable
<1>15. \A x \in Chain : executed[x] \subseteq Range(issued)
  BY DEF IInv, Logged
<1>16. <<c, m>> \notin Questions /\ Questions' = Questions \union {<<c, m>>}
  <2>1. <<c, m>> \notin Questions
    BY <1>14 DEF Questions
  <2>2. ASSUME NEW p \in Questions'
        PROVE  p \in Questions \union {<<c, m>>}
    <3>1. /\ p[1] \in Chain /\ p[2].kind = "reply" /\ p[2] \in executed'[p[1]]
          /\ p = <<p[1], p[2]>>
      BY DEF Questions
    <3>2. p[2] \in executed[p[1]] \/ (p[1] = c /\ p[2] = m)
      BY <1>13, <3>1
    <3>3. CASE p[2] \in executed[p[1]]
      BY <1>15, <3>1, <3>3 DEF Questions
    <3> QED BY <3>1, <3>2, <3>3
  <2>3. ASSUME NEW p \in Questions
        PROVE  p \in Questions'
    <3>1. /\ p[1] \in Chain /\ p[2].kind = "reply" /\ p[2] \in executed[p[1]]
          /\ p[2] \in Range(issued) /\ p = <<p[1], p[2]>>
      BY DEF Questions
    <3>2. p[2] \in executed'[p[1]] /\ p[2] \in Range(issued')
      BY <1>11, <1>13, <3>1
    <3> QED BY <3>1, <3>2 DEF Questions
  <2>4. <<c, m>> \in Questions'
    BY <1>1, <1>11, <1>13 DEF Questions
  <2> QED BY <2>1, <2>2, <2>3, <2>4
<1> QED BY <1>10, <1>16

LEMMA RepliesNext ==
  ASSUME IInv, IInv', Cardinality(Answers) = Cardinality(Questions), [Next]_vars
  PROVE  Cardinality(Answers') = Cardinality(Questions')
<1>1. CASE Answers' = Answers /\ Questions' = Questions
  BY <1>1
<1>2. ASSUME NEW c \in Chain, NEW m \in dispatched, NEW meta \in BOOLEAN,
             Deliver(c, m, meta)
      PROVE  Cardinality(Answers') = Cardinality(Questions')
  <2>1. CASE m.kind = "reply"
    <3>1. /\ \E i : i \notin Answers /\ Answers' = Answers \union {i}
          /\ \E p : p \notin Questions /\ Questions' = Questions \union {p}
      BY <1>2, <2>1, RepliesQuestion
    <3>2. IsFiniteSet(Answers) /\ IsFiniteSet(Questions)
      BY AnswersFinite DEF IInv
    <3>3. Cardinality(Answers') = Cardinality(Answers) + 1
      BY <3>1, <3>2, FS_AddElement
    <3>4. Cardinality(Questions') = Cardinality(Questions) + 1
      BY <3>1, <3>2, FS_AddElement
    <3> QED BY <3>3, <3>4
  <2>2. CASE m.kind # "reply"
    <3>1. /\ receivePayload(c, <<m>>, meta) /\ issued' = issued
          /\ m \in Message
      BY <1>2, <2>2 DEF Deliver, IInv, TypeOK
    <3>2. <<m>> \in Seq(Message) /\ Range(<<m>>) = {m}
      BY <3>1, SingletonFacts
    <3>3. PICK ms \in Seq(Message) : ms = <<m>>
      BY <3>2
    <3>4. Questions' = Questions
      BY <2>2, <3>1, <3>2, <3>3, PlainRun
    <3>5. Answers' = Answers
      BY <3>1 DEF Answers
    <3> QED BY <3>4, <3>5
  <2> QED BY <2>1, <2>2
<1>3. ASSUME NEW c \in Origin, NEW n \in 1 .. MaxBatchMessages - 1,
             NEW reqs \in [1 .. n -> Request], SendBatch(c, reqs)
      PROVE  Cardinality(Answers') = Cardinality(Questions')
  <2>1. n \in Nat /\ c \in Chain
    BY MessagingAssumption
  <2> QED BY <1>1, <1>3, <2>1, RepliesSendBatch
<1>4. ASSUME NEW c \in Origin, NEW req \in Request, Send(c, req)
      PROVE  Cardinality(Answers') = Cardinality(Questions')
  BY <1>1, <1>4, RepliesSend, MessagingAssumption
<1>5. ASSUME NEW c \in Origin, NEW r \in Resource, NEW k \in Kind,
             Broadcast(c, r, k)
      PROVE  Cardinality(Answers') = Cardinality(Questions')
  BY <1>1, <1>5, RepliesBroadcast, MessagingAssumption
<1>6. CASE UNCHANGED <<issued, executed>>
  BY <1>1, <1>6 DEF Answers, Questions
<1> QED
  BY <1>2, <1>3, <1>4, <1>5, <1>6 DEF Next, vars, RegisterResourceId, Govern

\* However often, late or out of order questions are delivered, exactly one
\* answer is sent for each chain on which a question ran.
THEOREM RepliesAreSentOnce == Spec => []EachReplyOnce
<1>1. Init => Cardinality(Answers) = Cardinality(Questions)
  <2> SUFFICES ASSUME Init
               PROVE  Answers = Questions
    OBVIOUS
  <2>1. Answers = {} /\ Questions = {}
    BY DEF Init, Answers, Questions, Range
  <2> QED BY <2>1
<1>2. /\ IInv /\ IInv' /\ Cardinality(Answers) = Cardinality(Questions) /\ [Next]_vars
      => Cardinality(Answers)' = Cardinality(Questions)'
  BY RepliesNext
<1>3. EachReplyOnce <=> Cardinality(Answers) = Cardinality(Questions)
  BY DEF EachReplyOnce, Answers, Questions
<1> DEFINE Same == Cardinality(Answers) = Cardinality(Questions)
<1>4. Init => Same
  BY <1>1
<1>5. IInv /\ IInv' /\ Same /\ [Next]_vars => Same'
  BY <1>2
<1>6. Same => EachReplyOnce
  BY <1>3
<1> HIDE DEF Same
<1> QED BY <1>4, <1>5, <1>6, Invariance, PTL DEF Spec

-------------------------------------------------------------------------------
(* Refinement of MessageBus                                                *)

\* What is behind the first sequence in a concatenation.
LEMMA SuffixOfConcat ==
  ASSUME NEW s \in Seq(Message), NEW t \in Seq(Message)
  PROVE  SubSeq(s \o t, Len(s) + 1, Len(s \o t)) = t
<1> DEFINE u == SubSeq(s \o t, Len(s) + 1, Len(s \o t))
<1>1. /\ s \o t \in Seq(Message) /\ Len(s \o t) = Len(s) + Len(t)
      /\ Len(s) \in Nat /\ Len(t) \in Nat
      /\ \A i \in 1 .. Len(t) : (s \o t)[Len(s) + i] = t[i]
  OBVIOUS
<1>2. u \in Seq(Message) /\ Len(u) = Len(t)
  BY <1>1
<1>3. \A i \in 1 .. Len(t) : u[i] = (s \o t)[Len(s) + i]
  BY <1>1
<1> HIDE DEF u
<1>4. u = t
  BY <1>1, <1>2, <1>3
<1> QED BY <1>4 DEF u

\* A step that runs messages is a step of the bus.
LEMMA RunStep ==
  ASSUME IInv, NEW c \in Chain, NEW q \in Seq(Message), NEW meta,
         receivePayload(c, q, meta),
         Range(issued) \subseteq Range(issued'),
         Range(q) \subseteq Range(issued'),
         \A m \in Range(q) : AddressedTo(m, c)
  PROVE  Bus!Next
<1>1. applied[c] \in Seq(Message) /\ applied \in [Chain -> Seq(Message)]
  BY DEF IInv, TypeOK
<1>2. applied' = [applied EXCEPT ![c] = applied[c] \o q] /\ IsInjective(q)
  BY DEF receivePayload
<1>3. applied'[c] = applied[c] \o q
  BY <1>1, <1>2
<1>4. SubSeq(applied'[c], Len(applied[c]) + 1, Len(applied'[c])) = q
  BY <1>1, <1>3, SuffixOfConcat
<1>5. ASSUME NEW i \in DOMAIN q
      PROVE  /\ q[i] \in Range(issued') /\ AddressedTo(q[i], c)
             /\ \A j \in DOMAIN applied[c] : applied[c][j] # q[i]
  <2>1. q[i] \in Range(q) /\ i \in 1 .. Len(q)
    BY DEF Range
  <2>2. q[i] \notin Range(applied[c])
    BY <2>1 DEF receivePayload, Runnable, IInv, Marked
  <2> QED BY <2>1, <2>2 DEF Range
<1>6. Bus!Run(c, q)
  <2>1. Bus!IsInjective(q)
    BY <1>2 DEF IsInjective, Bus!IsInjective
  <2> QED BY <1>2, <1>5, <2>1 DEF Bus!Run
<1> QED BY <1>4, <1>6 DEF Bus!Next

\* A step that runs nothing is a step of the bus.
LEMMA QuietStep ==
  ASSUME IInv, Range(issued) \subseteq Range(issued'), applied' = applied
  PROVE  Bus!Next
<1>1. Hub \in Chain /\ applied[Hub] \in Seq(Message) /\ applied \in [Chain -> Seq(Message)]
  BY MessagingAssumption DEF IInv, TypeOK
<1>2. << >> \in Seq(Message) /\ applied[Hub] \o << >> = applied[Hub]
  BY <1>1, ConcatEmptySeq
<1>3. SubSeq(applied'[Hub], Len(applied[Hub]) + 1, Len(applied'[Hub])) = << >>
  <2>1. Len(applied[Hub]) \in Nat /\ applied'[Hub] = applied[Hub]
    BY <1>1
  <2> QED BY <2>1, SubSeqEmpty
<1>4. Bus!Run(Hub, << >>)
  <2>1. Bus!IsInjective(<< >>) /\ DOMAIN << >> = {}
    BY DEF Bus!IsInjective
  <2>2. applied' = [applied EXCEPT ![Hub] = applied[Hub] \o << >>]
    BY <1>1, <1>2
  <2> QED BY <2>1, <2>2 DEF Bus!Run
<1> QED BY <1>1, <1>3, <1>4 DEF Bus!Next

LEMMA BusSend ==
  ASSUME IInv, NEW c \in Chain, NEW req \in Request, Send(c, req)
  PROVE  Bus!Next
<1> DEFINE ms == Prepare("single", c, <<req>>)
<1>1. req \in AnyRequest /\ "single" \in Sender
  BY DEF Request, AnyRequest, Sender
<1>2. /\ <<req>> \in Seq(AnyRequest) /\ ms \in Seq(Message) /\ Len(ms) = 1
      /\ ms[1].dst = req.dst
  BY <1>1, PrepareOne DEF IInv
<1>3. Issue("single", c, <<req>>)
  BY DEF Send
<1>4. Range(issued') = Range(issued) \union Range(ms)
  BY <1>1, <1>2, <1>3, IssueFacts DEF IInv
<1>5. \A m \in Range(ms) : m.dst = req.dst
  BY <1>2 DEF Range
<1>6. CASE req.dst = c /\ receivePayload(c, ms, FALSE)
  <2>1. \A m \in Range(ms) : AddressedTo(m, c)
    BY <1>5, <1>6 DEF AddressedTo
  <2> HIDE DEF ms
  <2> QED BY <1>2, <1>4, <1>6, <2>1, RunStep
<1>7. CASE UNCHANGED applied
  BY <1>4, <1>7, QuietStep
<1> QED BY <1>6, <1>7 DEF Send

LEMMA BusSendBatch ==
  ASSUME IInv, NEW c \in Chain, NEW n \in Nat,
         NEW reqs \in [1 .. n -> Request], SendBatch(c, reqs)
  PROVE  Bus!Next
<1> DEFINE ms == Prepare("batch", c, reqs)
<1> DEFINE mine == {m \in Range(ms) : m.dst = c}
<1>1. reqs \in Seq(AnyRequest) /\ "batch" \in Sender
  <2>1. Request \subseteq AnyRequest
    BY DEF Request, AnyRequest
  <2>2. reqs \in [1 .. n -> AnyRequest]
    BY <2>1
  <2> QED BY <2>2 DEF Sender
<1>2. ms \in Seq(Message)
  BY <1>1, PrepareFacts DEF IInv, TypeOK
<1>3. Range(issued') = Range(issued) \union Range(ms)
  <2>1. Issue("batch", c, reqs)
    BY DEF SendBatch
  <2> QED BY <1>1, <2>1, IssueFacts DEF IInv
<1>4. PICK local \in SetToSeqs(mine) : receivePayload(c, local, FALSE)
  BY DEF SendBatch, InlineDelivery
<1>5. Range(local) \subseteq mine /\ local \in Seq(Message)
  <2>1. mine \subseteq Message
    BY <1>2 DEF Range
  <2>2. IsFiniteSet(mine)
    <3>1. IsFiniteSet(1 .. Len(ms)) /\ ms \in Surjection(1 .. Len(ms), Range(ms))
      <4> HIDE DEF ms
      <4>1. Len(ms) \in Nat /\ DOMAIN ms = 1 .. Len(ms)
            /\ ms \in [1 .. Len(ms) -> Message]
        BY <1>2
      <4>2. IsFiniteSet(1 .. Len(ms))
        BY <4>1, FS_Interval
      <4> QED BY <4>1, <4>2 DEF Range, Surjection
    <3>2. IsFiniteSet(Range(ms))
      BY <3>1, FS_Surjection
    <3>3. mine \in SUBSET Range(ms)
      OBVIOUS
    <3> HIDE DEF mine
    <3> QED BY <3>2, <3>3, FS_Subset
  <2> DEFINE size == Cardinality(mine)
  <2>3. size \in Nat /\ local \in [1 .. size -> mine]
    BY <2>2, FS_CardinalityType DEF SetToSeqs
  <2> HIDE DEF mine
  <2> QED BY <2>1, <2>3 DEF Range
<1>6. \A m \in Range(local) : m \in Range(issued') /\ AddressedTo(m, c)
  BY <1>3, <1>5 DEF AddressedTo
<1> HIDE DEF ms, mine
<1> QED BY <1>3, <1>4, <1>5, <1>6, RunStep

LEMMA BusDeliver ==
  ASSUME IInv, IInv', NEW c \in Chain, NEW m \in dispatched, NEW meta \in BOOLEAN,
         Deliver(c, m, meta)
  PROVE  Bus!Next
<1> DEFINE q == <<m>>
<1>1. m \in Message /\ m \in Range(issued) /\ m.src \in Chain
  BY DEF IInv, TypeOK, Logged, Message
<1>2. q \in Seq(Message) /\ Range(q) = {m}
  BY <1>1, SingletonFacts
<1>3. receivePayload(c, q, meta) /\ AddressedTo(m, c)
  BY DEF Deliver
<1>4. Range(issued) \subseteq Range(issued')
  <2>1. CASE m.kind = "reply"
    <3> DEFINE back == [dst |-> m.src, target |-> Direct, kind |-> "ack"]
    <3>1. Issue("single", c, <<back>>)
      BY <2>1 DEF Deliver
    <3>2. back \in AnyRequest /\ "single" \in Sender
      BY <1>1 DEF AnyRequest, Dst, Target, Sender
    <3> HIDE DEF back
    <3>3. <<back>> \in Seq(AnyRequest)
      BY <3>2, SingletonFacts
    <3> QED BY <3>1, <3>2, <3>3, IssueFacts DEF IInv
  <2>2. CASE m.kind # "reply"
    BY <2>2 DEF Deliver
  <2> QED BY <2>1, <2>2
<1> HIDE DEF q
<1>5. Range(q) \subseteq Range(issued') /\ \A x \in Range(q) : AddressedTo(x, c)
  BY <1>1, <1>2, <1>3, <1>4
<1> QED BY <1>2, <1>3, <1>4, <1>5, RunStep

LEMMA BusBroadcast ==
  ASSUME IInv, NEW c \in Chain, NEW r \in Resource, NEW k \in Kind,
         Broadcast(c, r, k)
  PROVE  Bus!Next
<1>1. applied' = applied
  BY DEF Broadcast
<1>2. Range(issued) \subseteq Range(issued')
  <2>1. PICK reqs \in Seq(AnyRequest) : Issue("single", c, reqs)
    BY BroadcastFacts DEF IInv
  <2> QED BY <2>1, IssueFacts DEF IInv, Sender
<1> QED BY <1>1, <1>2, QuietStep

LEMMA BusNext == IInv /\ IInv' /\ [Next]_vars => [Bus!Next]_<<Range(issued), applied>>
<1> SUFFICES ASSUME IInv, IInv', [Next]_vars
             PROVE  Bus!Next \/ UNCHANGED <<Range(issued), applied>>
  OBVIOUS
<1>1. ASSUME NEW c \in Origin, NEW req \in Request, Send(c, req)
      PROVE  Bus!Next
  BY <1>1, BusSend, MessagingAssumption
<1>2. ASSUME NEW c \in Origin, NEW n \in 1 .. MaxBatchMessages - 1,
             NEW reqs \in [1 .. n -> Request], SendBatch(c, reqs)
      PROVE  Bus!Next
  <2>1. n \in Nat /\ c \in Chain
    BY MessagingAssumption
  <2> QED BY <1>2, <2>1, BusSendBatch
<1>3. ASSUME NEW c \in Origin, NEW r \in Resource, NEW k \in Kind,
             Broadcast(c, r, k)
      PROVE  Bus!Next
  BY <1>3, BusBroadcast, MessagingAssumption
<1>4. ASSUME NEW c \in Chain, NEW m \in dispatched, NEW meta \in BOOLEAN,
             Deliver(c, m, meta)
      PROVE  Bus!Next
  BY <1>4, BusDeliver
<1>5. ASSUME NEW c \in Chain,
             Govern(c) \/ \E r \in Resource : RegisterResourceId(c, r)
      PROVE  UNCHANGED <<Range(issued), applied>>
  BY <1>5 DEF Govern, RegisterResourceId
<1>6. CASE UNCHANGED vars
  BY <1>6 DEF vars
<1> QED BY <1>1, <1>2, <1>3, <1>4, <1>5, <1>6, MessagingAssumption DEF Next

\* Endpoint, senders, receiver, executor and a relayer that repeats, delays
\* and reorders messages implement the message bus.
THEOREM MessagingImplementsBus == Spec => ImplementsBus
<1>1. Init => Bus!Init
  BY DEF Init, Bus!Init, Range
<1>2. IInv /\ IInv' /\ [Next]_vars => [Bus!Next]_<<Range(issued), applied>>
  BY BusNext
<1> QED BY <1>1, <1>2, Invariance, PTL DEF Spec, ImplementsBus, Bus!Spec
===============================================================================

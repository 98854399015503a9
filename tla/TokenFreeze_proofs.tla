--------------------------- MODULE TokenFreeze_proofs ---------------------------
(***************************************************************************)
(* Proofs about TokenFreeze, for all PNs, tokens and numbers of changes.   *)
(*                                                                         *)
(* Nothing is assumed on the relayer: messages run in any order.  That the *)
(* PNs' copies follow the hub's list is proved for an operator who names   *)
(* no chain twice; README.md says which formula fails otherwise.           *)
(***************************************************************************)
EXTENDS TokenFreeze, FiniteSetTheorems, TLAPS

USE DEF heard

\* A mirror, or a teleport, exists only once the issuer activated the token.
MirrorsNeedIssuer ==
  \A t \in Token, p \in PN :
    (t \in bound[p] \/ <<t, p>> \in teleports) => t \in bound[Issuer[t]]

StatusInv ==
  TypeOK /\ MirrorsNeedIssuer /\ IssuerFrozenInactive /\ FreezeKeepsStanding

\* The messages on their way to a PN are numbered apart, and no number is ahead
\* of the hub's counter.
Numbered ==
  \A p \in PN :
    /\ \A m, k \in pending[p] : m.n <= sent /\ (m.n = k.n => m = k)
    /\ \A x \in Pair : newest[p][x] <= sent

\* The hub's list holds each participant once.
ListedOnce == \A t \in Token, c \in PN : frozenTokens[t][c] <= 1

CopyInv == TypeOK /\ Numbered /\ ListedOnce /\ CopyFollowsHub

-------------------------------------------------------------------------------
\* How often a chain is in a list.
LEMMA TimesFacts ==
  ASSUME NEW c \in PN, NEW list \in ChainLists
  PROVE  /\ Times(c, list) \in Nat
         /\ IsInjective(list) => Times(c, list) <= 1
<1> DEFINE S == {i \in DOMAIN list : list[i] = c}
<1>1. list \in Seq(PN) /\ DOMAIN list = 1 .. Len(list) /\ Len(list) \in Nat
  BY TokenFreezeAssumption
<1>2. IsFiniteSet(S) /\ Cardinality(S) \in Nat
  <2>1. IsFiniteSet(1 .. Len(list)) /\ S \in SUBSET (1 .. Len(list))
    BY <1>1, FS_Interval
  <2> HIDE DEF S
  <2> QED BY <2>1, FS_Subset, FS_CardinalityType
<1>3. ASSUME IsInjective(list) PROVE Cardinality(S) <= 1
  <2>1. \A i, j \in S : i = j
    BY <1>3 DEF IsInjective
  <2> HIDE DEF S
  <2>2. CASE S = {}
    BY <2>2, FS_EmptySet
  <2>3. CASE S # {}
    <3>1. PICK i : i \in S
      BY <2>3
    <3>2. S = {i}
      BY <3>1, <2>1
    <3> QED BY <3>2, FS_Singleton
  <2> QED BY <2>2, <2>3
<1> QED BY <1>2, <1>3 DEF Times

\* What is left on the hub's list, and what the PNs are told.
LEMMA LeftFacts ==
  ASSUME NEW c \in PN, NEW t \in Token, NEW list \in ChainLists,
         frozenTokens[t][c] \in Nat
  PROVE  /\ Left(t, c, list) \in Nat
         /\ Times(c, list) = 0 => Left(t, c, list) = frozenTokens[t][c]
         /\ frozenTokens[t][c] <= 1 =>
              /\ Left(t, c, list) <= 1
              /\ Times(c, list) > 0 => Left(t, c, list) = 0
<1>1. Times(c, list) \in Nat
  BY TimesFacts
<1> QED BY <1>1 DEF Left

\* Freezes and unfreezes keep the types.
LEMMA CopyTypes ==
  ASSUME TypeOK, NEW t \in Token, NEW list \in ChainLists,
         FreezeToken(t, list) \/ UnfreezeToken(t, list)
  PROVE  TypeOK'
<1>1. \A c \in PN : Times(c, list) \in Nat /\ Left(t, c, list) \in Nat
  BY TimesFacts, LeftFacts DEF TypeOK
<1>2. frozenTokens' \in [Token -> [PN -> Nat]]
  <2>1. CASE FreezeToken(t, list)
    <3> DEFINE new == [c \in PN |->
                         IF ~ Listed(t) THEN Times(c, list)
                         ELSE IF frozenTokens[t][c] = 0 /\ Times(c, list) > 0 THEN 1
                         ELSE frozenTokens[t][c]]
    <3>1. new \in [PN -> Nat]
      BY <1>1 DEF TypeOK
    <3>2. frozenTokens' = [frozenTokens EXCEPT ![t] = new]
      BY <2>1 DEF FreezeToken
    <3> HIDE DEF new
    <3> QED BY <3>1, <3>2 DEF TypeOK
  <2>2. CASE UnfreezeToken(t, list)
    <3> DEFINE new == [c \in PN |-> Left(t, c, list)]
    <3>1. new \in [PN -> Nat]
      BY <1>1
    <3>2. frozenTokens' = [frozenTokens EXCEPT ![t] = new]
      BY <2>2 DEF UnfreezeToken
    <3> HIDE DEF new
    <3> QED BY <3>1, <3>2 DEF TypeOK
  <2> QED BY <2>1, <2>2
<1>3. ASSUME NEW kind \in {"update", "remove"}, NEW l \in SUBSET Pair,
             Broadcast(kind, l)
      PROVE  pending' \in [PN -> SUBSET Message] /\ sent' \in Nat
  BY <1>3 DEF Broadcast, TypeOK, Message
<1>4. pending' \in [PN -> SUBSET Message] /\ sent' \in Nat
  <2>1. CASE FreezeToken(t, list)
    <3>1. {t} \X {c \in PN : frozenTokens'[t][c] > 0} \in SUBSET Pair
      BY DEF Pair
    <3> QED BY <1>3, <2>1, <3>1 DEF FreezeToken
  <2>2. CASE UnfreezeToken(t, list)
    <3>1. Told(t, list) \in SUBSET Pair
      BY DEF Pair, Told
    <3> QED BY <1>3, <2>2, <3>1 DEF UnfreezeToken
  <2> QED BY <2>1, <2>2
<1>5. changes' \in Nat
  BY DEF FreezeToken, UnfreezeToken, Change, TypeOK
<1>6. UNCHANGED <<hubToken, submissions, activations, frozen, bound, hubStatus,
                  before, teleports, teleported, standing, synced, heard>>
  BY DEF FreezeToken, UnfreezeToken
<1> QED BY <1>2, <1>4, <1>5, <1>6 DEF TypeOK

\* So do snapshots and skips.
LEMMA SnapshotTypes ==
  ASSUME TypeOK, NEW p \in PN, SendSnapshot(p) \/ SkipMessages(p)
  PROVE  TypeOK'
<1>1. HubFrozen \in SUBSET Pair
  BY DEF HubFrozen
<1>2. pending' \in [PN -> SUBSET Message] /\ sent' \in Nat
  <2>1. CASE SendSnapshot(p)
    <3> DEFINE m == [n |-> sent + 1, kind |-> "sync", list |-> HubFrozen]
    <3>1. m \in Message /\ sent + 1 \in Nat
      BY <1>1 DEF TypeOK, Message
    <3>2. pending' = [pending EXCEPT ![p] = pending[p] \union {m}] /\ sent' = sent + 1
      BY <2>1 DEF SendSnapshot
    <3> HIDE DEF m
    <3> QED BY <3>1, <3>2 DEF TypeOK
  <2>2. CASE SkipMessages(p)
    BY <2>2 DEF SkipMessages, TypeOK
  <2> QED BY <2>1, <2>2
<1> QED BY <1>2 DEF SendSnapshot, SkipMessages, Change, TypeOK

-------------------------------------------------------------------------------
(* The status invariant                                                    *)

LEMMA StatusInit == Init => StatusInv
BY TokenFreezeAssumption
   DEF Init, StatusInv, TypeOK, MirrorsNeedIssuer, IssuerFrozenInactive,
       FreezeKeepsStanding, isTokenActiveForHub, HubStatus, TokenStatus, Pair

\* A decision of p about t that is not activation under a freeze.
LEMMA DecideKeeps ==
  ASSUME StatusInv, NEW p \in PN, NEW t \in Token,
         NEW s \in HubStatus \ {"FROZEN"}, Decide(p, t, s),
         UNCHANGED <<frozen, before>>
  PROVE  /\ hubStatus' \in [PN -> [Token -> HubStatus]]
         /\ standing' \in [PN -> [Token -> HubStatus \ {"FROZEN"}]]
         /\ FreezeKeepsStanding'
         /\ hubStatus'[p][t] = s
         /\ \A q \in PN, v \in Token :
              <<q, v>> # <<p, t>> => hubStatus'[q][v] = hubStatus[q][v]
BY DEF StatusInv, TypeOK, Decide, FreezeKeepsStanding

\* What hearing a message changes.
LEMMA HearFacts ==
  ASSUME TypeOK, NEW p \in PN, NEW m \in Message, Hear(p, m)
  PROVE  /\ newest' \in [PN -> [Pair -> Nat]]
         /\ overtaken' \in [PN -> SUBSET Pair]
         /\ \A q \in PN : q # p => newest'[q] = newest[q] /\ overtaken'[q] = overtaken[q]
         /\ \A x \in Pair :
              \/ ~ Mentions(m, x) /\ newest'[p][x] = newest[p][x]
                 /\ (x \in overtaken'[p] <=> x \in overtaken[p])
              \/ Mentions(m, x) /\ newest[p][x] > m.n
                 /\ newest'[p][x] = newest[p][x] /\ x \in overtaken'[p]
              \/ Mentions(m, x) /\ newest[p][x] <= m.n
                 /\ newest'[p][x] = m.n /\ x \notin overtaken'[p]
<1> DEFINE about == {x \in Pair : Mentions(m, x)}
           late  == {x \in about : newest[p][x] > m.n}
           next  == [x \in Pair |-> IF x \in about \ late THEN m.n ELSE newest[p][x]]
<1>1. m.n \in Nat /\ newest \in [PN -> [Pair -> Nat]] /\ overtaken \in [PN -> SUBSET Pair]
  BY DEF TypeOK, Message
<1>2. next \in [Pair -> Nat] /\ about \subseteq Pair /\ late \subseteq about
  BY <1>1
<1>3. /\ newest' = [newest EXCEPT ![p] = next]
      /\ overtaken' = [overtaken EXCEPT ![p] = (overtaken[p] \ about) \union late]
  BY DEF Hear
<1>4. \A x \in Pair : /\ x \in about <=> Mentions(m, x)
                      /\ x \in late <=> Mentions(m, x) /\ newest[p][x] > m.n
                      /\ next[x] = IF x \in about \ late THEN m.n ELSE newest[p][x]
  OBVIOUS
<1> HIDE DEF about, late, next
<1>5. newest'[p] = next /\ overtaken'[p] = (overtaken[p] \ about) \union late
  BY <1>1, <1>3
<1>6. /\ newest' \in [PN -> [Pair -> Nat]]
      /\ overtaken' \in [PN -> SUBSET Pair]
      /\ \A q \in PN : q # p => newest'[q] = newest[q] /\ overtaken'[q] = overtaken[q]
  BY <1>1, <1>2, <1>3
<1>7. ASSUME NEW x \in Pair
      PROVE  newest[p][x] > m.n <=> ~ (newest[p][x] <= m.n)
  BY <1>1
<1>8. \A x \in Pair : \/ ~ Mentions(m, x) /\ newest'[p][x] = newest[p][x]
                         /\ (x \in overtaken'[p] <=> x \in overtaken[p])
                      \/ Mentions(m, x) /\ newest[p][x] > m.n
                         /\ newest'[p][x] = newest[p][x] /\ x \in overtaken'[p]
                      \/ Mentions(m, x) /\ newest[p][x] <= m.n
                         /\ newest'[p][x] = m.n /\ x \notin overtaken'[p]
  <2> SUFFICES ASSUME NEW x \in Pair
               PROVE  \/ ~ Mentions(m, x) /\ newest'[p][x] = newest[p][x]
                         /\ (x \in overtaken'[p] <=> x \in overtaken[p])
                      \/ Mentions(m, x) /\ newest[p][x] > m.n
                         /\ newest'[p][x] = newest[p][x] /\ x \in overtaken'[p]
                      \/ Mentions(m, x) /\ newest[p][x] <= m.n
                         /\ newest'[p][x] = m.n /\ x \notin overtaken'[p]
    OBVIOUS
  <2>1. CASE ~ Mentions(m, x)
    BY <1>4, <1>5, <2>1
  <2>2. CASE Mentions(m, x) /\ newest[p][x] > m.n
    BY <1>4, <1>5, <2>2
  <2>3. CASE Mentions(m, x) /\ newest[p][x] <= m.n
    BY <1>4, <1>5, <1>7, <2>3
  <2> QED BY <1>7, <2>1, <2>2, <2>3
<1> QED BY <1>6, <1>8

\* Running a freeze message.
LEMMA StatusRun ==
  ASSUME StatusInv, NEW p \in PN, NEW m \in pending[p], RunFreezeMessage(p, m)
  PROVE  StatusInv'
<1> DEFINE copy == Applied(m, frozen[p])
           T == Touched(m, frozen[p]) \intersect bound[p]
<1>1. m \in Message /\ frozen[p] \in SUBSET Pair
  BY DEF StatusInv, TypeOK
<1>2. copy \in SUBSET Pair
  BY <1>1 DEF Applied, Message
<1>3. frozen' = [frozen EXCEPT ![p] = copy]
  BY DEF RunFreezeMessage
<1>4. SyncHubLayerStatus(p, T, copy)
  BY DEF RunFreezeMessage
<1>5. \A t \in T : t \in Token
  BY DEF StatusInv, TypeOK
<1>6. ASSUME NEW t \in bound[p], <<t, p>> \in copy, t \notin T
      PROVE  <<t, p>> \in frozen[p]
  <2>1. \A x \in m.list : x[1] \in Touched(m, frozen[p])
    BY DEF Touched
  <2>2. <<t, p>> \notin m.list
    BY <1>6, <2>1
  <2> QED BY <1>1, <1>6, <2>2 DEF Applied, Message
<1> HIDE DEF copy, T
<1>7. ASSUME NEW q \in PN, NEW t \in Token
      PROVE  /\ hubStatus'[q][t] =
                  IF q = p /\ t \in Freezing(p, T, copy) THEN "FROZEN"
                  ELSE IF q = p /\ t \in Thawing(p, T, copy) THEN before[p][t]
                  ELSE hubStatus[q][t]
             /\ before'[q][t] =
                  IF q = p /\ t \in Freezing(p, T, copy) THEN hubStatus[p][t]
                  ELSE IF q = p /\ t \in Thawing(p, T, copy) THEN "UNDEFINED"
                  ELSE before[q][t]
  <2>1. q = p \/ q # p
    OBVIOUS
  <2>2. hubStatus \in [PN -> [Token -> HubStatus]] /\ before \in [PN -> [Token -> HubStatus]]
    BY DEF StatusInv, TypeOK
  <2> QED BY <1>4, <2>1, <2>2 DEF SyncHubLayerStatus
<1>8. TypeOK'
  <2>1. /\ hubStatus' \in [PN -> [Token -> HubStatus]]
        /\ before' \in [PN -> [Token -> HubStatus]]
    BY <1>4 DEF SyncHubLayerStatus, StatusInv, TypeOK, HubStatus
  <2>2. frozen' \in [PN -> SUBSET Pair]
    BY <1>2, <1>3 DEF StatusInv, TypeOK
  <2>3. pending' \in [PN -> SUBSET Message]
    BY DEF RunFreezeMessage, StatusInv, TypeOK
  <2>4. newest' \in [PN -> [Pair -> Nat]] /\ overtaken' \in [PN -> SUBSET Pair]
    BY <1>1, HearFacts DEF RunFreezeMessage, StatusInv
  <2> QED BY <2>1, <2>2, <2>3, <2>4 DEF RunFreezeMessage, StatusInv, TypeOK
<1>9. MirrorsNeedIssuer'
  BY DEF RunFreezeMessage, StatusInv, MirrorsNeedIssuer
<1>10. FreezeKeepsStanding'
  <2> SUFFICES ASSUME NEW q \in PN, NEW t \in Token
               PROVE  standing'[q][t] = IF hubStatus'[q][t] = "FROZEN"
                                        THEN before'[q][t] ELSE hubStatus'[q][t]
    BY DEF FreezeKeepsStanding
  <2>1. standing'[q][t] = standing[q][t] /\ standing[q][t] # "FROZEN"
    BY DEF RunFreezeMessage, StatusInv, TypeOK
  <2>2. standing[q][t] = IF hubStatus[q][t] = "FROZEN" THEN before[q][t]
                         ELSE hubStatus[q][t]
    BY DEF StatusInv, FreezeKeepsStanding
  <2>3. t \in Freezing(p, T, copy) => hubStatus[p][t] # "FROZEN"
    BY DEF Freezing
  <2>4. t \in Thawing(p, T, copy) => hubStatus[p][t] = "FROZEN"
    BY DEF Thawing
  <2>5. CASE q = p /\ t \in Freezing(p, T, copy)
    BY <1>7, <2>1, <2>2, <2>3, <2>5
  <2>6. CASE q = p /\ t \in Thawing(p, T, copy)
    <3>1. t \notin Freezing(p, T, copy)
      BY <2>3, <2>4, <2>6
    <3>2. hubStatus'[q][t] = before[p][t]
      BY <1>7, <2>6, <3>1
    <3> QED BY <2>1, <2>2, <2>4, <2>6, <3>2
  <2>7. CASE ~ (q = p /\ t \in Freezing(p, T, copy))
             /\ ~ (q = p /\ t \in Thawing(p, T, copy))
    BY <1>7, <2>1, <2>2, <2>7
  <2> QED BY <2>5, <2>6, <2>7
<1>11. IssuerFrozenInactive'
  <2> SUFFICES ASSUME NEW t \in Token, t \in bound'[Issuer[t]],
                      <<t, Issuer[t]>> \in frozen'[Issuer[t]]
               PROVE  hubStatus'[Issuer[t]][t] # "AUTHORIZED"
    BY DEF IssuerFrozenInactive, isTokenActiveForHub
  <2>1. bound' = bound /\ Issuer[t] \in PN
    BY TokenFreezeAssumption DEF RunFreezeMessage
  <2>2. <<t, Issuer[t]>> \in frozen[Issuer[t]] => hubStatus[Issuer[t]][t] # "AUTHORIZED"
    BY <2>1 DEF StatusInv, IssuerFrozenInactive, isTokenActiveForHub
  <2>3. CASE Issuer[t] # p
    <3>1. frozen'[Issuer[t]] = frozen[Issuer[t]]
      BY <1>3, <2>1, <2>3 DEF StatusInv, TypeOK
    <3> QED BY <3>1, <2>1, <2>2, <2>3, <1>7
  <2>4. CASE Issuer[t] = p
    <3>1. frozen'[p] = copy
      BY <1>3 DEF StatusInv, TypeOK
    <3>2. CASE t \in T
      BY <1>7, <2>4, <3>1, <3>2 DEF Freezing, Thawing
    <3>3. CASE t \notin T
      <4>1. <<t, p>> \in frozen[p]
        BY <1>6, <2>1, <2>4, <3>1, <3>3
      <4> QED BY <1>7, <2>2, <2>4, <3>3, <4>1 DEF Freezing, Thawing
    <3> QED BY <3>2, <3>3
  <2> QED BY <2>3, <2>4
<1> QED BY <1>8, <1>9, <1>10, <1>11 DEF StatusInv

LEMMA StatusNext == StatusInv /\ [Next]_vars => StatusInv'
<1> SUFFICES ASSUME StatusInv, [Next]_vars PROVE StatusInv'
  OBVIOUS
<1> USE TokenFreezeAssumption
<1>1. ASSUME NEW t \in Token, SubmitToHub(t) PROVE StatusInv'
  <2>1. /\ FreezeKeepsStanding'
        /\ hubStatus' \in [PN -> [Token -> HubStatus]]
        /\ standing' \in [PN -> [Token -> HubStatus \ {"FROZEN"}]]
        /\ hubStatus'[Issuer[t]][t] = "WAITING_APPROVAL"
        /\ \A q \in PN, v \in Token : <<q, v>> # <<Issuer[t], t>> =>
             hubStatus'[q][v] = hubStatus[q][v]
    BY <1>1, DecideKeeps DEF SubmitToHub, HubStatus
  <2>2. TypeOK' /\ MirrorsNeedIssuer'
    BY <1>1, <2>1 DEF SubmitToHub, StatusInv, TypeOK, MirrorsNeedIssuer
  <2>3. IssuerFrozenInactive'
    BY <1>1, <2>1 DEF SubmitToHub, StatusInv, IssuerFrozenInactive, isTokenActiveForHub
  <2> QED BY <2>1, <2>2, <2>3 DEF StatusInv
<1>2. ASSUME NEW t \in Token, AddToken(t) PROVE StatusInv'
  <2>1. TypeOK'
    BY <1>2 DEF AddToken, StatusInv, TypeOK, TokenStatus
  <2> QED BY <1>2, <2>1 DEF AddToken, StatusInv, MirrorsNeedIssuer,
             IssuerFrozenInactive, FreezeKeepsStanding, isTokenActiveForHub
<1>3. ASSUME NEW t \in Token, ActivateToken(t) PROVE StatusInv'
  <2>1. Issuer[t] \in PN
    OBVIOUS
  <2>2. TypeOK'
    BY <1>3, <2>1 DEF ActivateToken, StatusInv, TypeOK, HubStatus
  <2>3. MirrorsNeedIssuer'
    BY <1>3, <2>1 DEF ActivateToken, StatusInv, TypeOK, MirrorsNeedIssuer
  <2>4. IssuerFrozenInactive'
    BY <1>3, <2>1 DEF ActivateToken, StatusInv, TypeOK, IssuerFrozenInactive,
                      isTokenActiveForHub
  <2>5. FreezeKeepsStanding'
    BY <1>3, <2>1 DEF ActivateToken, StatusInv, TypeOK, FreezeKeepsStanding
  <2> QED BY <2>2, <2>3, <2>4, <2>5 DEF StatusInv
<1>4. ASSUME NEW t \in Token, NEW s \in TokenStatus, UpdateStatus(t, s)
      PROVE  StatusInv'
  <2>1. TypeOK'
    BY <1>4 DEF UpdateStatus, Change, StatusInv, TypeOK
  <2> QED BY <1>4, <2>1 DEF UpdateStatus, StatusInv, MirrorsNeedIssuer,
             IssuerFrozenInactive, FreezeKeepsStanding, isTokenActiveForHub
<1>5. ASSUME NEW t \in Token, NEW list \in ChainLists,
             FreezeToken(t, list) \/ UnfreezeToken(t, list)
      PROVE  StatusInv'
  <2>1. TypeOK'
    BY <1>5, CopyTypes DEF StatusInv
  <2> QED BY <1>5, <2>1 DEF FreezeToken, UnfreezeToken, StatusInv,
             MirrorsNeedIssuer, IssuerFrozenInactive, FreezeKeepsStanding,
             isTokenActiveForHub
<1>6. ASSUME NEW p \in PN, NEW t \in Token, RejectToken(p, t) PROVE StatusInv'
  <2>1. /\ FreezeKeepsStanding'
        /\ hubStatus' \in [PN -> [Token -> HubStatus]]
        /\ standing' \in [PN -> [Token -> HubStatus \ {"FROZEN"}]]
        /\ hubStatus'[p][t] = "UNAUTHORIZED"
        /\ \A q \in PN, v \in Token : <<q, v>> # <<p, t>> =>
             hubStatus'[q][v] = hubStatus[q][v]
    BY <1>6, DecideKeeps DEF RejectToken, HubStatus
  <2>2. TypeOK' /\ MirrorsNeedIssuer'
    BY <1>6, <2>1 DEF RejectToken, Change, StatusInv, TypeOK, MirrorsNeedIssuer
  <2>3. IssuerFrozenInactive'
    BY <1>6, <2>1 DEF RejectToken, StatusInv, IssuerFrozenInactive, isTokenActiveForHub
  <2> QED BY <2>1, <2>2, <2>3 DEF StatusInv
<1>7. ASSUME NEW p \in PN, NEW t \in Token, ReceiveTeleport(p, t)
      PROVE  StatusInv'
  <2>1. t \in bound[Issuer[t]]
    BY <1>7 DEF ReceiveTeleport, StatusInv, MirrorsNeedIssuer
  <2>2. CASE t \notin bound[p]
    <3>1. Decide(p, t, "AUTHORIZED") /\ p # Issuer[t]
          /\ bound' = [bound EXCEPT ![p] = bound[p] \union {t}]
      BY <1>7, <2>1, <2>2 DEF ReceiveTeleport
    <3>2. /\ FreezeKeepsStanding'
          /\ hubStatus' \in [PN -> [Token -> HubStatus]]
          /\ standing' \in [PN -> [Token -> HubStatus \ {"FROZEN"}]]
          /\ \A q \in PN, v \in Token : <<q, v>> # <<p, t>> =>
               hubStatus'[q][v] = hubStatus[q][v]
      BY <1>7, <3>1, DecideKeeps DEF ReceiveTeleport, HubStatus
    <3>3. bound' \in [PN -> SUBSET Token]
      BY <3>1 DEF StatusInv, TypeOK
    <3>4. TypeOK'
      BY <1>7, <3>2, <3>3 DEF ReceiveTeleport, StatusInv, TypeOK
    <3>5. MirrorsNeedIssuer'
      BY <1>7, <2>1, <3>1 DEF ReceiveTeleport, StatusInv, TypeOK, MirrorsNeedIssuer
    <3>6. IssuerFrozenInactive'
      <4> SUFFICES ASSUME NEW v \in Token, v \in bound'[Issuer[v]],
                          <<v, Issuer[v]>> \in frozen'[Issuer[v]]
                   PROVE  hubStatus'[Issuer[v]][v] # "AUTHORIZED"
        BY DEF IssuerFrozenInactive, isTokenActiveForHub
      <4>1. frozen' = frozen /\ Issuer[v] \in PN /\ <<Issuer[v], v>> # <<p, t>>
        BY <1>7, <3>1 DEF ReceiveTeleport
      <4>2. v \in bound[Issuer[v]]
        BY <3>1, <4>1 DEF StatusInv, TypeOK
      <4> QED BY <3>2, <4>1, <4>2 DEF StatusInv, IssuerFrozenInactive, isTokenActiveForHub
    <3> QED BY <3>2, <3>4, <3>5, <3>6 DEF StatusInv
  <2>3. CASE t \in bound[p]
    <3>1. UNCHANGED <<bound, hubStatus, standing>>
      BY <1>7, <2>3 DEF ReceiveTeleport
    <3>2. TypeOK'
      BY <1>7, <3>1 DEF ReceiveTeleport, StatusInv, TypeOK
    <3> QED BY <1>7, <3>1, <3>2 DEF ReceiveTeleport, StatusInv, MirrorsNeedIssuer,
               IssuerFrozenInactive, FreezeKeepsStanding, isTokenActiveForHub
  <2> QED BY <2>2, <2>3
<1>8. ASSUME NEW p \in PN, SendSnapshot(p) \/ SkipMessages(p) PROVE StatusInv'
  <2>1. TypeOK'
    BY <1>8, SnapshotTypes DEF StatusInv
  <2> QED BY <1>8, <2>1 DEF SendSnapshot, SkipMessages, StatusInv,
             MirrorsNeedIssuer, IssuerFrozenInactive, FreezeKeepsStanding,
             isTokenActiveForHub
<1>9. ASSUME NEW p \in PN, NEW m \in pending[p], RunFreezeMessage(p, m)
      PROVE  StatusInv'
  BY <1>9, StatusRun
<1>10. ASSUME NEW p \in PN, NEW q \in PN, NEW t \in Token, SendTeleport(p, q, t)
       PROVE  StatusInv'
  <2>1. TypeOK'
    <3>1. teleports' \subseteq Pair /\ teleported' \in Nat
      BY <1>10 DEF SendTeleport, StatusInv, TypeOK, Pair
    <3> QED BY <1>10, <3>1 DEF SendTeleport, StatusInv, TypeOK
  <2>2. MirrorsNeedIssuer'
    BY <1>10 DEF SendTeleport, StatusInv, MirrorsNeedIssuer
  <2> QED BY <1>10, <2>1, <2>2 DEF SendTeleport, StatusInv, IssuerFrozenInactive,
             FreezeKeepsStanding, isTokenActiveForHub
<1>11. CASE UNCHANGED vars
  BY <1>11 DEF vars, StatusInv, TypeOK, MirrorsNeedIssuer, IssuerFrozenInactive,
               FreezeKeepsStanding, isTokenActiveForHub
<1> QED BY <1>1, <1>2, <1>3, <1>4, <1>5, <1>6, <1>7, <1>8, <1>9, <1>10, <1>11
        DEF Next

\* Types, the layers of a frozen token and the decisions about its life hold
\* for any relayer and any operator.
THEOREM StatusInvariance == Spec => []StatusInv
<1> QED BY StatusInit, StatusNext, PTL DEF Spec

\* A frozen token the issuer activated never works on the hub layer.
THEOREM FrozenIssuerTokensAreInactive == Spec => []IssuerFrozenInactive
<1>1. StatusInv => IssuerFrozenInactive
  BY DEF StatusInv
<1> QED BY <1>1, StatusInvariance, PTL

\* A freeze and its end never revive an older lifecycle decision.
THEOREM FreezesLoseNoDecision == Spec => []FreezeKeepsStanding
<1>1. StatusInv => FreezeKeepsStanding
  BY DEF StatusInv
<1> QED BY <1>1, StatusInvariance, PTL

-------------------------------------------------------------------------------
(* The copies of the hub's list                                            *)

\* What the operator does: no chain twice in one call.
NoChainTwice == \A list \in ChainLists : IsInjective(list)

\* One PN's copy follows the hub's list at the pair x.
Follows(p, x) ==
  \/ \E m \in pending[p] :
       /\ Mentions(m, x)
       /\ m.n > newest[p][x]
       /\ \A k \in pending[p] : Mentions(k, x) => k.n <= m.n
       /\ Says(m, x) <=> x \in HubFrozen
  \/ /\ \A m \in pending[p] : Mentions(m, x) => m.n < newest[p][x]
     /\ x \in overtaken[p] \/ (x \in frozen[p] <=> x \in HubFrozen)

LEMMA FollowsIsCopy == CopyFollowsHub <=> \A p \in synced, x \in Pair : Follows(p, x)
BY DEF CopyFollowsHub, Follows

\* A new message m to p, which says what the hub's list now says of the pairs
\* it mentions, when the hub's list does not change for the others.
LEMMA NewMessage ==
  ASSUME CopyInv, NEW p \in PN, NEW x \in Pair, NEW m \in Message,
         m.n = sent + 1,
         pending'[p] = pending[p] \union {m}, frozen' = frozen, heard' = heard,
         Mentions(m, x) => (Says(m, x) <=> x \in HubFrozen'),
         ~ Mentions(m, x) => (Follows(p, x) /\ (x \in HubFrozen' <=> x \in HubFrozen))
  PROVE  Follows(p, x)'
<1>1. \A k \in pending[p] : k \in Message /\ k.n <= sent /\ k.n \in Nat
  BY DEF CopyInv, TypeOK, Numbered, Message
<1>2. sent \in Nat /\ newest[p][x] \in Nat /\ newest[p][x] <= sent
  BY DEF CopyInv, TypeOK, Numbered
<1>3. CASE Mentions(m, x)
  <2>1. m.n > newest'[p][x] /\ \A k \in pending'[p] : k.n <= m.n
    BY <1>1, <1>2
  <2> QED BY <1>3, <2>1 DEF Follows, Mentions, Says
<1>4. CASE ~ Mentions(m, x)
  BY <1>4 DEF Follows, Mentions, Says
<1> QED BY <1>3, <1>4

\* A new message keeps the numbers apart.
LEMMA NumberedNew ==
  ASSUME CopyInv, NEW p \in PN, NEW m \in Message, m.n = sent + 1,
         sent' = sent + 1, pending'[p] = pending[p] \union {m}, newest' = newest
  PROVE  /\ \A k, l \in pending'[p] : k.n <= sent' /\ (k.n = l.n => k = l)
         /\ \A x \in Pair : newest'[p][x] <= sent'
<1>1. \A k \in pending[p] : k \in Message /\ k.n <= sent /\ k.n \in Nat
  BY DEF CopyInv, TypeOK, Numbered, Message
<1>2. sent \in Nat
  BY DEF CopyInv, TypeOK
<1>3. \A k, l \in pending[p] : k.n = l.n => k = l
  BY DEF CopyInv, Numbered
<1>4. \A x \in Pair : newest[p][x] \in Nat /\ newest[p][x] <= sent
  BY DEF CopyInv, TypeOK, Numbered
<1>5. \A x \in Pair : newest'[p][x] <= sent'
  BY <1>2, <1>4
<1> QED BY <1>1, <1>2, <1>3, <1>5

LEMMA CopyFreeze ==
  ASSUME NoChainTwice, CopyInv, NEW t \in Token, NEW list \in ChainLists,
         FreezeToken(t, list)
  PROVE  CopyInv'
<1> DEFINE on == {t} \X {c \in PN : frozenTokens'[t][c] > 0}
           m == [n |-> sent + 1, kind |-> "update", list |-> on]
<1>1. TypeOK'
  BY CopyTypes DEF CopyInv
<1>2. m \in Message /\ m.n = sent + 1 /\ sent' = sent + 1
  <2>1. on \in SUBSET Pair
    BY DEF Pair
  <2>2. sent \in Nat
    BY DEF CopyInv, TypeOK
  <2>3. sent' = sent + 1
    BY DEF FreezeToken, Broadcast
  <2> QED BY <2>1, <2>2, <2>3 DEF Message
<1>3. \A p \in PN : pending'[p] = pending[p] \union {m}
  BY DEF FreezeToken, Broadcast
<1>4. ASSUME NEW c \in PN
      PROVE  /\ frozenTokens'[t][c] \in {0, 1}
             /\ frozenTokens[t][c] \in {0, 1}
             /\ frozenTokens[t][c] = 1 => frozenTokens'[t][c] = 1
  <2>1. Times(c, list) \in {0, 1}
    BY TimesFacts DEF NoChainTwice
  <2>2. frozenTokens[t][c] \in Nat /\ frozenTokens[t][c] <= 1
    BY DEF CopyInv, TypeOK, ListedOnce
  <2>3. frozenTokens[t][c] = 1 => Listed(t)
    BY DEF Listed
  <2>4. frozenTokens'[t][c] =
          IF ~ Listed(t) THEN Times(c, list)
          ELSE IF frozenTokens[t][c] = 0 /\ Times(c, list) > 0 THEN 1
          ELSE frozenTokens[t][c]
    BY DEF FreezeToken, CopyInv, TypeOK
  <2> QED BY <2>1, <2>2, <2>3, <2>4
<1>5. \A v \in Token : v # t => frozenTokens'[v] = frozenTokens[v]
  BY DEF FreezeToken, CopyInv, TypeOK
<1>6. ListedOnce'
  BY <1>4, <1>5 DEF CopyInv, ListedOnce
<1>7. \A x \in Pair : x[1] \in Token /\ x[2] \in PN /\ x = <<x[1], x[2]>>
  BY DEF Pair
<1>8. ASSUME NEW x \in Pair
      PROVE  /\ Mentions(m, x) => Says(m, x) /\ x \in HubFrozen'
             /\ ~ Mentions(m, x) => (x \in HubFrozen' <=> x \in HubFrozen)
  <2>1. Mentions(m, x) <=> x[1] = t /\ frozenTokens'[t][x[2]] > 0
    BY <1>7 DEF Mentions
  <2>2. Mentions(m, x) => Says(m, x)
    BY DEF Mentions, Says
  <2>3. (x \in HubFrozen' <=> frozenTokens'[x[1]][x[2]] > 0)
        /\ (x \in HubFrozen <=> frozenTokens[x[1]][x[2]] > 0)
    BY DEF HubFrozen
  <2> QED BY <1>4, <1>5, <1>7, <2>1, <2>2, <2>3
<1> HIDE DEF m
<1>9. Numbered'
  <2>1. newest' = newest
    BY DEF FreezeToken, UnfreezeToken
  <2> QED BY <1>2, <1>3, <2>1, NumberedNew DEF Numbered
<1>10. CopyFollowsHub'
  <2>1. frozen' = frozen /\ heard' = heard /\ synced' = synced /\ synced \subseteq PN
    BY DEF FreezeToken, CopyInv, TypeOK
  <2>2. \A p \in synced, x \in Pair : Follows(p, x)
    BY FollowsIsCopy DEF CopyInv
  <2>3. \A p \in synced, x \in Pair : Follows(p, x)'
    BY <1>2, <1>3, <1>8, <2>1, <2>2, NewMessage
  <2> QED BY <2>1, <2>3 DEF CopyFollowsHub, Follows
<1> QED BY <1>1, <1>6, <1>9, <1>10 DEF CopyInv

LEMMA CopyUnfreeze ==
  ASSUME NoChainTwice, CopyInv, NEW t \in Token, NEW list \in ChainLists,
         UnfreezeToken(t, list)
  PROVE  CopyInv'
<1> DEFINE m == [n |-> sent + 1, kind |-> "remove", list |-> Told(t, list)]
<1>1. TypeOK'
  BY CopyTypes DEF CopyInv
<1>2. m \in Message /\ m.n = sent + 1 /\ sent' = sent + 1
  <2>1. Told(t, list) \in SUBSET Pair
    BY DEF Pair, Told
  <2>2. sent \in Nat
    BY DEF CopyInv, TypeOK
  <2>3. sent' = sent + 1
    BY DEF UnfreezeToken, Broadcast
  <2> QED BY <2>1, <2>2, <2>3 DEF Message
<1>3. \A p \in PN : pending'[p] = pending[p] \union {m}
  BY DEF UnfreezeToken, Broadcast
<1>4. ASSUME NEW c \in PN
      PROVE  /\ frozenTokens'[t][c] \in {0, 1}
             /\ Times(c, list) > 0 => frozenTokens'[t][c] = 0
             /\ ~ (Times(c, list) > 0) => frozenTokens'[t][c] = frozenTokens[t][c]
  <2>1. frozenTokens[t][c] \in Nat /\ frozenTokens[t][c] <= 1
    BY DEF CopyInv, TypeOK, ListedOnce
  <2>2. frozenTokens'[t][c] = Left(t, c, list)
    BY DEF UnfreezeToken, CopyInv, TypeOK
  <2>3. Times(c, list) \in Nat
    BY TimesFacts
  <2> QED BY <2>1, <2>2, <2>3, LeftFacts
<1>5. \A v \in Token : v # t => frozenTokens'[v] = frozenTokens[v]
  BY DEF UnfreezeToken, CopyInv, TypeOK
<1>6. ListedOnce'
  BY <1>4, <1>5 DEF CopyInv, ListedOnce
<1>7. \A x \in Pair : x[1] \in Token /\ x[2] \in PN /\ x = <<x[1], x[2]>>
  BY DEF Pair
<1>8. ASSUME NEW x \in Pair
      PROVE  /\ ~ Says(m, x)
             /\ Mentions(m, x) => x \notin HubFrozen'
             /\ ~ Mentions(m, x) => (x \in HubFrozen' <=> x \in HubFrozen)
  <2>1. Mentions(m, x) <=> x[1] = t /\ Times(x[2], list) > 0
    BY <1>7 DEF Mentions, Told
  <2>2. ~ Says(m, x)
    BY DEF Says
  <2>3. (x \in HubFrozen' <=> frozenTokens'[x[1]][x[2]] > 0)
        /\ (x \in HubFrozen <=> frozenTokens[x[1]][x[2]] > 0)
    BY DEF HubFrozen
  <2> QED BY <1>4, <1>5, <1>7, <2>1, <2>2, <2>3
<1> HIDE DEF m
<1>9. Numbered'
  <2>1. newest' = newest
    BY DEF FreezeToken, UnfreezeToken
  <2> QED BY <1>2, <1>3, <2>1, NumberedNew DEF Numbered
<1>10. CopyFollowsHub'
  <2>1. frozen' = frozen /\ heard' = heard /\ synced' = synced /\ synced \subseteq PN
    BY DEF UnfreezeToken, CopyInv, TypeOK
  <2>2. \A p \in synced, x \in Pair : Follows(p, x)
    BY FollowsIsCopy DEF CopyInv
  <2>3. \A p \in synced, x \in Pair : Follows(p, x)'
    BY <1>2, <1>3, <1>8, <2>1, <2>2, NewMessage
  <2> QED BY <2>1, <2>3 DEF CopyFollowsHub, Follows
<1> QED BY <1>1, <1>6, <1>9, <1>10 DEF CopyInv

LEMMA CopySnapshot ==
  ASSUME CopyInv, NEW p \in PN, SendSnapshot(p)
  PROVE  CopyInv'
<1> DEFINE m == [n |-> sent + 1, kind |-> "sync", list |-> HubFrozen]
<1>1. TypeOK'
  BY SnapshotTypes DEF CopyInv
<1>2. m \in Message /\ m.n = sent + 1 /\ sent' = sent + 1
  <2>1. HubFrozen \in SUBSET Pair
    BY DEF HubFrozen
  <2>2. sent \in Nat
    BY DEF CopyInv, TypeOK
  <2> QED BY <2>1, <2>2 DEF Message, SendSnapshot
<1>3. /\ pending' = [pending EXCEPT ![p] = pending[p] \union {m}]
      /\ pending'[p] = pending[p] \union {m}
      /\ \A q \in PN : q # p => pending'[q] = pending[q]
  BY DEF SendSnapshot, CopyInv, TypeOK
<1>4. HubFrozen' = HubFrozen /\ frozenTokens' = frozenTokens /\ frozen' = frozen
      /\ heard' = heard /\ synced' = synced \union {p} /\ synced \subseteq PN
  BY DEF SendSnapshot, HubFrozen, CopyInv, TypeOK
<1>5. \A x \in Pair : Mentions(m, x) /\ (Says(m, x) <=> x \in HubFrozen)
  BY DEF Mentions, Says
<1> HIDE DEF m
<1>6. Numbered'
  <2>1. \A k, l \in pending'[p] : k.n <= sent' /\ (k.n = l.n => k = l)
    BY <1>2, <1>3, <1>4, NumberedNew
  <2>3. \A q \in PN, x \in Pair : newest'[q][x] <= sent'
    <3>1. \A q \in PN, x \in Pair : newest[q][x] \in Nat /\ newest[q][x] <= sent
      BY DEF CopyInv, TypeOK, Numbered
    <3> QED BY <1>2, <1>4, <3>1 DEF CopyInv, TypeOK
  <2>2. ASSUME NEW q \in PN, q # p, NEW k \in pending[q], NEW l \in pending[q]
        PROVE  k.n <= sent' /\ (k.n = l.n => k = l)
    <3>1. k.n <= sent /\ (k.n = l.n => k = l) /\ k.n \in Nat /\ sent \in Nat
      BY DEF CopyInv, Numbered, TypeOK, Message
    <3> QED BY <1>2, <3>1
  <2> QED BY <1>3, <2>1, <2>2, <2>3 DEF Numbered
<1>7. CopyFollowsHub'
  <2>1. ASSUME NEW x \in Pair PROVE Follows(p, x)'
    BY <1>2, <1>3, <1>4, <1>5, NewMessage
  <2>2. ASSUME NEW q \in synced, q # p, NEW x \in Pair PROVE Follows(q, x)'
    <3>1. Follows(q, x)
      BY FollowsIsCopy DEF CopyInv
    <3>2. pending'[q] = pending[q]
      BY <1>3, <1>4, <2>2
    <3> QED BY <1>4, <3>1, <3>2 DEF Follows
  <2> QED BY <1>4, <2>1, <2>2 DEF CopyFollowsHub, Follows
<1> QED BY <1>1, <1>4, <1>6, <1>7 DEF CopyInv, ListedOnce

LEMMA CopySkip ==
  ASSUME CopyInv, NEW p \in PN, SkipMessages(p)
  PROVE  CopyInv'
<1>1. TypeOK'
  BY SnapshotTypes DEF CopyInv
<1>2. /\ \A q \in PN : pending'[q] \subseteq pending[q]
      /\ \A q \in PN : q # p => pending'[q] = pending[q]
      /\ synced' = synced \ {p} /\ synced \subseteq PN
      /\ UNCHANGED <<sent, frozen, frozenTokens, HubFrozen, heard>>
  BY DEF SkipMessages, HubFrozen, CopyInv, TypeOK
<1>3. Numbered'
  BY <1>2 DEF CopyInv, Numbered
<1>4. CopyFollowsHub'
  <2>1. ASSUME NEW q \in synced', NEW x \in Pair PROVE Follows(q, x)'
    <3>1. Follows(q, x) /\ pending'[q] = pending[q]
      BY <1>2, FollowsIsCopy DEF CopyInv
    <3> QED BY <1>2, <3>1 DEF Follows
  <2> QED BY <2>1 DEF CopyFollowsHub, Follows
<1> QED BY <1>1, <1>2, <1>3, <1>4 DEF CopyInv, ListedOnce

\* The message that runs is the newest about a pair, and then the copy says
\* what it says; or a newer one is on its way, which keeps the last word; or a
\* newer one has run, and the pair is overtaken.
LEMMA CopyRun ==
  ASSUME CopyInv, TypeOK', NEW p \in PN, NEW m \in pending[p],
         RunFreezeMessage(p, m)
  PROVE  CopyInv'
<1>1. /\ pending'[p] = pending[p] \ {m}
      /\ \A q \in PN : q # p => pending'[q] = pending[q]
      /\ frozen'[p] = Applied(m, frozen[p])
      /\ \A q \in PN : q # p => frozen'[q] = frozen[q]
      /\ synced' = synced /\ synced \subseteq PN
      /\ UNCHANGED <<sent, frozenTokens, HubFrozen>>
  BY DEF RunFreezeMessage, HubFrozen, CopyInv, TypeOK
<1>2. m \in Message /\ m.n \in Nat /\ m.n <= sent
      /\ \A k \in pending[p] : k \in Message /\ k.n \in Nat
  BY DEF CopyInv, TypeOK, Numbered, Message
<1>3. /\ \A q \in PN : q # p => newest'[q] = newest[q] /\ overtaken'[q] = overtaken[q]
      /\ \A x \in Pair :
           \/ ~ Mentions(m, x) /\ newest'[p][x] = newest[p][x]
              /\ (x \in overtaken'[p] <=> x \in overtaken[p])
           \/ Mentions(m, x) /\ newest[p][x] > m.n
              /\ newest'[p][x] = newest[p][x] /\ x \in overtaken'[p]
           \/ Mentions(m, x) /\ newest[p][x] <= m.n
              /\ newest'[p][x] = m.n /\ x \notin overtaken'[p]
  BY <1>2, HearFacts DEF RunFreezeMessage, CopyInv
<1>4. \A q \in PN, x \in Pair : newest[q][x] \in Nat /\ newest[q][x] <= sent
  BY DEF CopyInv, TypeOK, Numbered
<1>5. Numbered'
  <2>1. \A q \in PN : pending'[q] \subseteq pending[q]
    BY <1>1
  <2>2. ASSUME NEW q \in PN, NEW x \in Pair PROVE newest'[q][x] <= sent'
    <3>1. newest[q][x] \in Nat /\ newest[q][x] <= sent /\ sent' = sent
      BY <1>1, <1>4
    <3>2. newest'[q][x] = newest[q][x] \/ newest'[q][x] = m.n
      <4>1. CASE q # p
        BY <1>3, <4>1
      <4>2. CASE q = p
        BY <1>3, <4>2
      <4> QED BY <4>1, <4>2
    <3> QED BY <1>2, <3>1, <3>2
  <2> QED BY <1>1, <2>1, <2>2 DEF CopyInv, Numbered
<1>6. ASSUME NEW x \in Pair
      PROVE  x \in frozen'[p] <=> IF Mentions(m, x) THEN Says(m, x) ELSE x \in frozen[p]
  BY <1>1, <1>2 DEF Applied, Mentions, Says, Message
<1>7. ASSUME NEW x \in Pair, Follows(p, x) PROVE Follows(p, x)'
  <2>1. CASE /\ \A k \in pending[p] : Mentions(k, x) => k.n < newest[p][x]
             /\ x \in overtaken[p] \/ (x \in frozen[p] <=> x \in HubFrozen)
    <3>1. /\ newest'[p][x] = newest[p][x]
          /\ x \in overtaken'[p] \/ (x \in frozen'[p] <=> x \in HubFrozen')
      <4>1. CASE Mentions(m, x)
        <5>1. newest[p][x] > m.n /\ ~ (newest[p][x] <= m.n)
          BY <1>2, <1>4, <2>1, <4>1
        <5> QED BY <1>3, <4>1, <5>1
      <4>2. CASE ~ Mentions(m, x)
        BY <1>1, <1>3, <1>6, <2>1, <4>2
      <4> QED BY <4>1, <4>2
    <3>2. \A k \in pending'[p] : Mentions(k, x) => k.n < newest'[p][x]
      BY <1>1, <2>1, <3>1
    <3> QED BY <3>1, <3>2 DEF Follows, Mentions
  <2>2. ASSUME NEW l \in pending[p], Mentions(l, x), l.n > newest[p][x],
               \A k \in pending[p] : Mentions(k, x) => k.n <= l.n,
               Says(l, x) <=> x \in HubFrozen
        PROVE  Follows(p, x)'
    <3>1. CASE l # m
      <4>1. Mentions(m, x) => m.n < l.n
        <5>1. m.n # l.n
          BY <3>1 DEF CopyInv, Numbered
        <5> QED BY <1>2, <2>2, <5>1
      <4>2. l.n > newest'[p][x]
        <5>1. newest'[p][x] = newest[p][x] \/ (Mentions(m, x) /\ newest'[p][x] = m.n)
          BY <1>3
        <5> QED BY <1>2, <2>2, <4>1, <5>1
      <4>3. l \in pending'[p] /\ \A k \in pending'[p] : Mentions(k, x) => k.n <= l.n
        BY <1>1, <2>2, <3>1
      <4> QED BY <1>1, <2>2, <4>2, <4>3 DEF Follows, Mentions, Says
    <3>2. CASE l = m
      <4>1. newest'[p][x] = m.n
        BY <1>2, <1>3, <1>4, <2>2, <3>2
      <4>2. \A k \in pending'[p] : Mentions(k, x) => k.n < newest'[p][x]
        <5> SUFFICES ASSUME NEW k \in pending[p], k # m, Mentions(k, x)
                     PROVE  k.n < m.n
          BY <1>1, <4>1
        <5>1. k.n <= m.n /\ k.n \in Nat /\ m.n \in Nat
          BY <1>2, <2>2, <3>2
        <5>2. k.n # m.n
          BY DEF CopyInv, Numbered
        <5> QED BY <5>1, <5>2
      <4>3. x \in frozen'[p] <=> x \in HubFrozen'
        BY <1>1, <1>6, <2>2, <3>2
      <4> QED BY <4>2, <4>3 DEF Follows, Mentions
    <3> QED BY <3>1, <3>2
  <2> QED BY <1>7, <2>1, <2>2 DEF Follows
<1>8. CopyFollowsHub'
  <2>1. ASSUME NEW q \in synced, NEW x \in Pair PROVE Follows(q, x)'
    <3>1. Follows(q, x) /\ q \in PN
      BY <1>1, FollowsIsCopy DEF CopyInv
    <3>2. CASE q = p
      BY <1>7, <3>1, <3>2
    <3>3. CASE q # p
      BY <1>1, <1>3, <3>1, <3>3 DEF Follows
    <3> QED BY <3>2, <3>3
  <2> QED BY <1>1, <2>1 DEF CopyFollowsHub, Follows
<1> QED BY <1>1, <1>5, <1>8 DEF CopyInv, ListedOnce

LEMMA CopyInit == Init => CopyInv
<1> SUFFICES ASSUME Init PROVE CopyInv
  OBVIOUS
<1>1. TypeOK
  BY StatusInit DEF StatusInv
<1>2. HubFrozen = {}
  BY DEF Init, HubFrozen, Pair
<1> QED BY <1>1, <1>2 DEF Init, CopyInv, Numbered, ListedOnce, CopyFollowsHub

LEMMA CopyNext ==
  ASSUME NoChainTwice
  PROVE  CopyInv /\ StatusInv' /\ [Next]_vars => CopyInv'
<1> SUFFICES ASSUME CopyInv, StatusInv', [Next]_vars PROVE CopyInv'
  OBVIOUS
<1>1. TypeOK'
  BY DEF StatusInv
<1>2. ASSUME NEW t \in Token, NEW list \in ChainLists,
             FreezeToken(t, list) \/ UnfreezeToken(t, list)
      PROVE  CopyInv'
  BY <1>2, CopyFreeze, CopyUnfreeze
<1>3. ASSUME NEW p \in PN, SendSnapshot(p) \/ SkipMessages(p) PROVE CopyInv'
  BY <1>3, CopySnapshot, CopySkip
<1>4. ASSUME NEW p \in PN, NEW m \in pending[p], RunFreezeMessage(p, m)
      PROVE  CopyInv'
  BY <1>1, <1>4, CopyRun
<1>5. ASSUME UNCHANGED <<frozenTokens, sent, pending, frozen, synced, heard>>
      PROVE  CopyInv'
  <2>1. HubFrozen' = HubFrozen
    BY <1>5 DEF HubFrozen
  <2>2. Numbered' /\ ListedOnce'
    BY <1>5 DEF CopyInv, Numbered, ListedOnce
  <2>3. CopyFollowsHub'
    BY <1>5, <2>1 DEF CopyInv, CopyFollowsHub
  <2> QED BY <1>1, <2>2, <2>3 DEF CopyInv
<1>6. ASSUME NEW t \in Token, SubmitToHub(t) \/ AddToken(t) \/ ActivateToken(t)
      PROVE  CopyInv'
  BY <1>5, <1>6 DEF SubmitToHub, AddToken, ActivateToken
<1>7. ASSUME NEW t \in Token, NEW s \in TokenStatus, UpdateStatus(t, s)
      PROVE  CopyInv'
  BY <1>5, <1>7 DEF UpdateStatus
<1>8. ASSUME NEW p \in PN, NEW t \in Token, RejectToken(p, t) \/ ReceiveTeleport(p, t)
      PROVE  CopyInv'
  BY <1>5, <1>8 DEF RejectToken, ReceiveTeleport
<1>9. ASSUME NEW p \in PN, NEW q \in PN, NEW t \in Token, SendTeleport(p, q, t)
      PROVE  CopyInv'
  BY <1>5, <1>9 DEF SendTeleport
<1>10. CASE UNCHANGED vars
  BY <1>5, <1>10 DEF vars
<1> QED BY <1>2, <1>3, <1>4, <1>6, <1>7, <1>8, <1>9, <1>10 DEF Next

\* Whatever the order of the messages, with an operator who names no chain twice
\* the newest word on a pair is the hub's, on its way or run, and a copy differs
\* from the hub's list only in pairs about which a message was overtaken.
THEOREM CopiesFollowTheHub ==
  ASSUME NoChainTwice
  PROVE  Spec => []CopyFollowsHub
<1>1. CopyInv => CopyFollowsHub
  BY DEF CopyInv
<1>2. CopyInv /\ StatusInv' /\ [Next]_vars => CopyInv'
  BY CopyNext
<1> QED BY <1>1, <1>2, CopyInit, StatusInvariance, PTL DEF Spec
===============================================================================

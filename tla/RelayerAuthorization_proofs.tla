--------------------- MODULE RelayerAuthorization_proofs ---------------------
(***************************************************************************)
(* Proofs about RelayerAuthorization, for any lists of keys, nodes, upsets *)
(* and runs: what a run has gone past did happen, a key that holds the     *)
(* role on the public chain has been funded, an audit after a run that is  *)
(* done misses only what was revoked, and no run has one transaction mined *)
(* twice if CTS's first lists name every key once.                         *)
(***************************************************************************)
EXTENDS RelayerAuthorization, FiniteSetTheorems, WellFoundedInduction, TLAPS

Kinds == {"fund", "grant"}
Jobs == [kind : Kinds, chain : Chain, key : Key]
Phases == {"idle", "fetch", "read", "sending", "waiting", "done", "failed"}

PoolType ==
  /\ pool = [c \in Chain |-> pool[c]]
  /\ \A c \in Chain : /\ DOMAIN pool[c] \subseteq Nat /\ IsFiniteSet(DOMAIN pool[c])
                      /\ \A n \in DOMAIN pool[c] : pool[c][n] \in AllTxs
NodeType ==
  /\ mined \in [Chain -> Seq(AllTxs)] /\ PoolType
  /\ flying \subseteq [nonce : Nat, tx : [run : 0 .. MaxRuns, job : Jobs]]
  /\ holds \in [Chain -> SUBSET Key] /\ revoked \in [Chain -> SUBSET Key]
TaskType ==
  /\ cts \in [Name -> Seq(Key)]
  /\ run \in 0 .. MaxRuns /\ task \in Task /\ phase \in Phases
  /\ step \in DOMAIN Stages(task)
  /\ DOMAIN fetched \subseteq Name /\ \A l \in DOMAIN fetched : fetched[l] \in Seq(Key)
  /\ outstanding \in Seq(Jobs)
TypeInv == NodeType /\ TaskType

\* Stage i is over: its transactions have been mined, all in this run.
Sends(i, key) == [run |-> run, job |-> [kind |-> Stages(task)[i].kind,
                                        chain |-> Stages(task)[i].chain, key |-> key]]
Over(i) == /\ Stages(task)[i].list \in DOMAIN fetched
           /\ \A key \in Range(fetched[Stages(task)[i].list]) :
                Sends(i, key) \in Range(mined[Stages(task)[i].chain])

\* The lists a run has, and what it has sent.
FetchInv ==
  /\ phase = "fetch" => task = "hub" \/ step = 1
  /\ (phase \in {"read", "sending", "waiting", "done"} /\ task # "hub") =>
       \A i \in DOMAIN Stages(task) : Stages(task)[i].list \in DOMAIN fetched
  /\ phase \in {"read", "sending", "waiting"} => Now.list \in DOMAIN fetched
PastInv == \A i \in Behind : Over(i)
WorkInv ==
  phase \in {"read", "sending", "waiting"} =>
    /\ \A j \in Range(outstanding) : \E key \in Range(fetched[Now.list]) : j = Job(key)
    /\ \A key \in Range(fetched[Now.list]) :
         Job(key) \in Range(outstanding) \/ Tx(Job(key)) \in Range(mined[Now.chain])
AnswerInv ==
  /\ phase \in {"sending", "waiting"} =>
       /\ sent \in [Range(outstanding) -> Nat]
       /\ answer \in [Range(outstanding) -> {"none", "accepted", "collided", "failed"}]
  /\ phase = "waiting" => \A j \in DOMAIN answer : answer[j] \in {"accepted", "collided"}

\* What is on the chains, and what is under way to the public one.
HoldInv == \A c \in Chain : \A tx \in Range(mined[c]) :
             tx.job.kind = "grant" => tx.job.key \in holds[c] \cup revoked[c]
Funded(key) == \E tx \in Range(mined["pc"]) : tx.job = [kind |-> "fund", chain |-> "pc", key |-> key]
FundInv ==
  /\ \A key \in holds["pc"] : Funded(key)
  /\ \A n \in DOMAIN pool["pc"] :
       pool["pc"][n].job.kind = "grant" => Funded(pool["pc"][n].job.key)
  /\ \A f \in flying :
       (f.tx.job.kind = "grant" /\ f.tx.job.chain = "pc") => Funded(f.tx.job.key)

AuditInv ==
  /\ audit \in [phase : {"idle", "reading", "reported"}, chain : Chain, expected : SUBSET Key,
                covered : BOOLEAN, missing : SUBSET Key, unexpected : SUBSET Key]
  /\ audit.covered => audit.expected \subseteq holds[audit.chain] \cup revoked[audit.chain]
  /\ (audit.covered /\ audit.phase = "reported") => audit.missing \subseteq revoked[audit.chain]

RunInv == FetchInv /\ PastInv /\ WorkInv /\ AnswerInv
IInv == TypeInv /\ RunInv /\ HoldInv /\ FundInv /\ AuditInv

-----------------------------------------------------------------------------
\* Facts about the stages of the tasks.

LEMMA StageFields ==
  ASSUME NEW k, NEW c, NEW l
  PROVE  Stage(k, c, l).kind = k /\ Stage(k, c, l).chain = c /\ Stage(k, c, l).list = l
BY DEF Stage

LEMMA StageFacts ==
  ASSUME NEW t \in Task
  PROVE  /\ Len(Stages(t)) \in Nat /\ 1 <= Len(Stages(t)) /\ DOMAIN Stages(t) = 1 .. Len(Stages(t))
         /\ \A i \in DOMAIN Stages(t) :
              /\ Stages(t)[i].kind \in Kinds /\ Stages(t)[i].chain \in Chain
              /\ Stages(t)[i].list \in Name
<1>1. t \in {"node", "node_private", "hub"}
  BY RelayerAssumption
<1>2. CASE t = "node"
  BY <1>2 DEF Stages, Stage, Kinds, Chain, Name
<1>3. CASE t = "node_private"
  BY <1>3 DEF Stages, Stage, Kinds, Chain, Name
<1>4. CASE t = "hub"
  BY <1>4 DEF Stages, Stage, Kinds, Chain, Name
<1> QED BY <1>1, <1>2, <1>3, <1>4

\* Where a task reads lists, it reads the one it needs, and none that it has
\* used; and nothing is left to read later, but for the hub's.
LEMMA FetchFacts ==
  ASSUME NEW t \in Task, NEW i \in DOMAIN Stages(t)
  PROVE  /\ Fetches(t, i) \subseteq Name
         /\ t = "hub" \/ i = 1 =>
              /\ Stages(t)[i].list \in Fetches(t, i)
              /\ \A k \in 1 .. (i - 1) : Stages(t)[k].list \notin Fetches(t, i)
         /\ t = "hub" => Fetches(t, i) # {}
         /\ t # "hub" /\ i = 1 =>
              \A k \in DOMAIN Stages(t) : Stages(t)[k].list \in First(t) \cup Fetches(t, i)
         /\ First(t) \subseteq Name /\ (t = "hub" => First(t) = {})
         /\ t # "hub" /\ i # 1 => Fetches(t, i) = {}
<1>1. Fetches(t, i) \subseteq Name /\ First(t) \subseteq Name
  BY StageFacts DEF Fetches, First, Name
<1>2. CASE t = "hub"
  <2>1. Fetches(t, i) = {Stages(t)[i].list}
    BY <1>2 DEF Fetches
  <2>2. \A k \in 1 .. (i - 1) : Stages(t)[k].list # Stages(t)[i].list
    BY <1>2 DEF Stages, Stage
  <2> QED BY <1>1, <1>2, <2>1, <2>2 DEF First
<1>3. CASE t = "node"
  <2>1. i = 1 => Stages(t)[i].list \notin First(t)
    BY <1>3 DEF Stages, Stage, First
  <2> QED BY <1>1, <1>3, <2>1 DEF Fetches
<1>4. CASE t # "hub" /\ t # "node"
  BY <1>1, <1>4 DEF Fetches, First
<1> QED BY <1>2, <1>3, <1>4

\* The role is granted on the public chain after its keys have been funded.
LEMMA FundedFirst ==
  ASSUME NEW t \in Task, NEW i \in DOMAIN Stages(t),
         Stages(t)[i].kind = "grant", Stages(t)[i].chain = "pc"
  PROVE  \E k \in 1 .. (i - 1) : /\ k \in DOMAIN Stages(t)
                                 /\ Stages(t)[k].kind = "fund" /\ Stages(t)[k].chain = "pc"
                                 /\ Stages(t)[k].list = Stages(t)[i].list
<1>1. t \in {"node", "node_private", "hub"}
  BY RelayerAssumption
<1>2. CASE t = "node"
  <2>1. i = 3 /\ 1 \in 1 .. (i - 1) /\ 1 \in DOMAIN Stages(t)
    BY <1>2 DEF Stages, Stage
  <2>2. /\ Stages(t)[1].kind = "fund" /\ Stages(t)[1].chain = "pc"
        /\ Stages(t)[1].list = Stages(t)[i].list
    BY <1>2, <2>1 DEF Stages, Stage
  <2> QED BY <2>1, <2>2
<1>3. CASE t \in {"node_private", "hub"}
  BY <1>3 DEF Stages, Stage
<1> QED BY <1>1, <1>2, <1>3

\* An audited list is granted by a stage of the task.
LEMMA AuditedFacts ==
  ASSUME task \in Task, NEW c \in Used, NEW l \in Audited(c)
  PROVE  \E i \in DOMAIN Stages(task) : Stages(task)[i] = Stage("grant", c, l)
<1>1. task \in {"node", "node_private", "hub"}
  BY RelayerAssumption
<1>2. CASE task = "node"
  <2>1. DOMAIN Stages(task) = 1 .. 4
    BY <1>2 DEF Stages
  <2>2. /\ Stages(task)[1].chain = "pc" /\ Stages(task)[2] = Stage("grant", "pn", "public_pn")
        /\ Stages(task)[3] = Stage("grant", "pc", "public_pc")
        /\ Stages(task)[4] = Stage("grant", "pn", "private")
    BY <1>2 DEF Stages, Stage
  <2>3. c \in {"pn", "pc"}
    BY <2>1, <2>2 DEF Used, Stage
  <2>4. CASE c = "pn"
    BY <1>2, <2>1, <2>2, <2>4 DEF Audited
  <2>5. CASE c = "pc"
    BY <2>1, <2>2, <2>5 DEF Audited
  <2> QED BY <2>3, <2>4, <2>5
<1>3. CASE task = "node_private"
  <2>1. DOMAIN Stages(task) = 1 .. 1 /\ Stages(task)[1] = Stage("grant", "pn", "private")
    BY <1>3 DEF Stages
  <2>2. c = "pn"
    BY <2>1 DEF Used, Stage
  <2> QED BY <1>3, <2>1, <2>2 DEF Audited
<1>4. CASE task = "hub"
  <2>1. /\ DOMAIN Stages(task) = 1 .. 2 /\ Stages(task)[1] = Stage("grant", "hub", "hub_a")
        /\ Stages(task)[2] = Stage("grant", "hub", "hub_b")
    BY <1>4 DEF Stages
  <2>2. c = "hub"
    BY <2>1 DEF Used, Stage
  <2> QED BY <2>1, <2>2 DEF Audited
<1> QED BY <1>1, <1>2, <1>3, <1>4

-----------------------------------------------------------------------------
\* The nonce that the node gives: the first free one.

LEMMA LeastNat ==
  ASSUME NEW T \in SUBSET Nat, T # {}
  PROVE  \E x \in T : \A y \in T : x <= y
<1> DEFINE R == OpToRel(<, Nat)
<1>1. IsWellFoundedOn(R, Nat) /\ T \subseteq Nat
  BY NatLessThanWellFounded
<1>2. \A x, y \in Nat : y < x => <<y, x>> \in R
  BY DEF OpToRel
<1> HIDE DEF R
<1>3. PICK x \in T : \A y \in T : ~(<<y, x>> \in R)
  BY <1>1, WFMin
<1>4. ASSUME NEW y \in T PROVE x <= y
  <2>1. ~(y < x)
    BY <1>2, <1>3
  <2> QED BY <2>1
<1> QED BY <1>4

LEMMA FirstFree ==
  ASSUME NEW m \in Nat, NEW D \in SUBSET Nat, IsFiniteSet(D)
  PROVE  \E n \in m .. (m + Cardinality(D)) : n \notin D /\ m .. (n - 1) \subseteq D
<1> DEFINE free == {n \in m .. (m + Cardinality(D)) : n \notin D}
<1>1. Cardinality(D) \in Nat
  BY FS_CardinalityType
<1>2. free # {}
  <2>1. Cardinality(m .. (m + Cardinality(D))) = Cardinality(D) + 1
    BY <1>1, FS_Interval
  <2>2. ~(m .. (m + Cardinality(D)) \subseteq D)
    BY <1>1, <2>1, FS_Subset
  <2> QED BY <2>2
<1>3. free \in SUBSET Nat
  BY <1>1
<1>4. PICK n \in free : \A k \in free : n <= k
  BY <1>2, <1>3, LeastNat
<1>5. \A k \in m .. (n - 1) : k \in D
  BY <1>1, <1>4
<1> QED BY <1>4, <1>5

LEMMA NonceFacts ==
  ASSUME NodeType, NEW c \in Chain
  PROVE  PendingNonce(c) \in Nat
<1>1. Len(mined[c]) \in Nat /\ DOMAIN pool[c] \in SUBSET Nat /\ IsFiniteSet(DOMAIN pool[c])
  BY DEF NodeType, PoolType
<1>2. Cardinality(DOMAIN pool[c]) \in Nat
  BY <1>1, FS_CardinalityType
<1>3. NextFree(c) \in Len(mined[c]) .. (Len(mined[c]) + Cardinality(DOMAIN pool[c]))
  BY <1>1, FirstFree DEF NextFree
<1> QED BY <1>1, <1>2, <1>3 DEF PendingNonce
-----------------------------------------------------------------------------
\* What steps of the node and of the operator leave of a run.

Grows == \A c \in Chain : Range(mined[c]) \subseteq Range(mined'[c])

\* A run keeps what it knows when it stays in its stage, or fails in it.
LEMMA RunKept ==
  ASSUME RunInv, TaskType, Grows, AnswerInv',
         run' = run, task' = task, fetched' = fetched, step' = step,
         \/ phase' = phase /\ outstanding' = outstanding
         \/ phase' = "failed" /\ phase # "done"
         \/ /\ {phase, phase'} \subseteq {"read", "sending", "waiting"}
            /\ outstanding' = outstanding
  PROVE  RunInv'
<1>1. FetchInv'
  BY DEF RunInv, FetchInv, Now
<1>2. PastInv'
  <2>1. Behind' \subseteq Behind
    BY DEF Behind
  <2>2. \A i \in Behind : i \in DOMAIN Stages(task)
    BY StageFacts DEF TaskType, Behind
  <2>3. ASSUME NEW i \in Behind PROVE Over(i)'
    <3>1. Over(i) /\ Stages(task)[i].chain \in Chain
      BY <2>2, <2>3, StageFacts DEF RunInv, PastInv, TaskType
    <3> QED BY <3>1 DEF Over, Sends, Grows
  <2> QED BY <2>1, <2>3 DEF PastInv
<1>3. WorkInv'
  <2>1. Now.chain \in Chain
    BY StageFacts DEF TaskType, Now
  <2> SUFFICES ASSUME phase' \in {"read", "sending", "waiting"}
               PROVE  /\ \A j \in Range(outstanding') : \E key \in Range(fetched[Now.list]) : j = Job(key)
                      /\ \A key \in Range(fetched[Now.list]) :
                           \/ Job(key) \in Range(outstanding')
                           \/ Tx(Job(key)) \in Range(mined'[Now.chain])
    BY DEF WorkInv, Now, Job, Tx
  <2>2. phase \in {"read", "sending", "waiting"} /\ outstanding' = outstanding
    OBVIOUS
  <2> QED BY <2>1, <2>2 DEF RunInv, WorkInv, Grows
<1> QED BY <1>1, <1>2, <1>3 DEF RunInv

LEMMA AnswerKept ==
  ASSUME AnswerInv, phase' = phase, outstanding' = outstanding, sent' = sent,
         NEW f, NEW what \in {"accepted", "collided", "failed"}, answer' = Answered(f, what)
  PROVE  AnswerInv'
BY DEF AnswerInv, Answered

LEMMA SameAnswers ==
  ASSUME AnswerInv, UNCHANGED <<outstanding, sent, answer>>,
         phase' = phase \/ phase' \notin {"sending", "waiting"}
  PROVE  AnswerInv'
BY DEF AnswerInv

\* The role is only taken from a key by a revocation.
Keeps == \A c \in Chain : /\ holds[c] \cup revoked[c] \subseteq holds'[c] \cup revoked'[c]
                          /\ revoked[c] \subseteq revoked'[c]

LEMMA HoldKept ==
  ASSUME HoldInv, Keeps, mined' = mined
  PROVE  HoldInv'
BY DEF HoldInv, Keeps

LEMMA AuditKept ==
  ASSUME AuditInv, Keeps, audit' = audit
  PROVE  AuditInv'
BY DEF AuditInv, Keeps

LEMMA FundKept ==
  ASSUME FundInv, mined' = mined, holds'["pc"] \subseteq holds["pc"], pool' = pool, flying' \subseteq flying
  PROVE  FundInv'
BY DEF FundInv, Funded

\* A transaction that gets into the pool.
LEMMA PooledFacts ==
  ASSUME PoolType, NEW c \in Chain, NEW nonce \in Nat, NEW tx \in AllTxs, pool' = Pooled(c, nonce, tx)
  PROVE  /\ PoolType'
         /\ \A d \in Chain : \A n \in DOMAIN pool'[d] :
              (d = c /\ pool'[d][n] = tx) \/ (n \in DOMAIN pool[d] /\ pool'[d][n] = pool[d][n])
<1> DEFINE P == [n \in DOMAIN pool[c] \cup {nonce} |-> IF n = nonce THEN tx ELSE pool[c][n]]
<1>1. pool' = [d \in Chain |-> IF d = c THEN P ELSE pool[d]]
  BY DEF Pooled, PoolType
<1>2. /\ DOMAIN P = DOMAIN pool[c] \cup {nonce}
      /\ \A n \in DOMAIN P : P[n] = IF n = nonce THEN tx ELSE pool[c][n]
  OBVIOUS
<1>3. IsFiniteSet(DOMAIN P)
  BY <1>2, FS_AddElement DEF PoolType
<1> HIDE DEF P
<1>4. pool' = [d \in Chain |-> pool'[d]] /\ pool'[c] = P /\ \A d \in Chain : d # c => pool'[d] = pool[d]
  BY <1>1
<1>5. \A d \in Chain : \A n \in DOMAIN pool'[d] :
        (d = c /\ pool'[d][n] = tx) \/ (n \in DOMAIN pool[d] /\ pool'[d][n] = pool[d][n])
  BY <1>2, <1>4
<1>6. \A d \in Chain : DOMAIN pool'[d] \subseteq Nat /\ IsFiniteSet(DOMAIN pool'[d])
  BY <1>2, <1>3, <1>4 DEF PoolType
<1>7. \A d \in Chain : \A n \in DOMAIN pool'[d] : pool'[d][n] \in AllTxs
  BY <1>5 DEF PoolType
<1> QED BY <1>4, <1>5, <1>6, <1>7 DEF PoolType
-----------------------------------------------------------------------------
\* The steps of the node.

\* A transaction is under way before it is in the pool.
LEMMA FundPooled ==
  ASSUME FundInv, NodeType, NEW f \in flying, mined' = mined, holds' = holds, flying' \subseteq flying,
         pool' = pool \/ pool' = Pooled(f.tx.job.chain, f.nonce, f.tx)
  PROVE  /\ FundInv' /\ PoolType'
<1>1. f.nonce \in Nat /\ f.tx \in AllTxs /\ f.tx.job \in Jobs /\ f.tx.job.chain \in Chain
  BY DEF NodeType, AllTxs, AllJobs, Jobs, Kinds
<1>2. CASE pool' = pool
  BY <1>2, FundKept DEF NodeType, PoolType
<1>3. CASE pool' = Pooled(f.tx.job.chain, f.nonce, f.tx)
  <2>1. PoolType' /\ \A n \in DOMAIN pool'["pc"] :
          \/ f.tx.job.chain = "pc" /\ pool'["pc"][n] = f.tx
          \/ n \in DOMAIN pool["pc"] /\ pool'["pc"][n] = pool["pc"][n]
    BY <1>1, <1>3, PooledFacts DEF NodeType, Chain
  <2> QED BY <2>1 DEF FundInv, Funded
<1> QED BY <1>2, <1>3

LEMMA ArriveKeeps ==
  ASSUME IInv, NEW f \in flying, Arrive(f) \/ \E seen \in BOOLEAN : SendFails(f, seen)
  PROVE  IInv'
<1>1. /\ flying' = flying \ {f}
      /\ \E what \in {"accepted", "collided", "failed"} : answer' = Answered(f, what)
      /\ pool' = pool \/ pool' = Pooled(f.tx.job.chain, f.nonce, f.tx)
      /\ UNCHANGED <<mined, holds, operator, run, task, phase, fetched, step, outstanding, sent, audit>>
  BY DEF Arrive, SendFails
<1>2. FundInv' /\ PoolType'
  BY <1>1, FundPooled DEF IInv, TypeInv
<1>3. TypeInv'
  BY <1>1, <1>2 DEF IInv, TypeInv, NodeType, TaskType, operator
<1>4. AnswerInv'
  BY <1>1, AnswerKept DEF IInv, RunInv
<1>5. RunInv'
  BY <1>1, <1>4, RunKept DEF IInv, TypeInv, Grows
<1>6. Keeps
  BY <1>1 DEF Keeps, operator
<1> QED BY <1>1, <1>2, <1>3, <1>5, <1>6, HoldKept, AuditKept DEF IInv

LEMMA AppendRange ==
  ASSUME NEW S, NEW s \in Seq(S), NEW x \in S
  PROVE  Range(Append(s, x)) = Range(s) \cup {x}
<1>1. /\ DOMAIN Append(s, x) = 1 .. (Len(s) + 1) /\ DOMAIN s = 1 .. Len(s) /\ Len(s) \in Nat
      /\ Append(s, x)[Len(s) + 1] = x
      /\ \A i \in 1 .. Len(s) : Append(s, x)[i] = s[i]
  OBVIOUS
<1>2. \A i \in 1 .. (Len(s) + 1) : i \in 1 .. Len(s) \/ i = Len(s) + 1
  BY <1>1
<1>3. Range(Append(s, x)) \subseteq Range(s) \cup {x}
  BY <1>1, <1>2 DEF Range
<1>4. x \in Range(Append(s, x))
  BY <1>1 DEF Range
<1>5. Range(s) \subseteq Range(Append(s, x))
  <2> SUFFICES ASSUME NEW i \in 1 .. Len(s) PROVE s[i] \in Range(Append(s, x))
    BY <1>1 DEF Range
  <2>1. i \in 1 .. (Len(s) + 1)
    BY <1>1
  <2> QED BY <1>1, <2>1 DEF Range
<1> QED BY <1>3, <1>4, <1>5

LEMMA MineKeeps ==
  ASSUME IInv, NEW c \in Chain, Mine(c)
  PROVE  IInv'
<1> DEFINE tx == pool[c][Len(mined[c])]
<1>1. /\ Len(mined[c]) \in DOMAIN pool[c]
      /\ mined' = [mined EXCEPT ![c] = Append(@, tx)]
      /\ holds' = IF tx.job.kind = "grant" THEN [holds EXCEPT ![c] = @ \cup {tx.job.key}] ELSE holds
      /\ pool' = [pool EXCEPT ![c] = [n \in DOMAIN @ \ {Len(mined[c])} |-> @[n]]]
      /\ UNCHANGED <<flying, operator, program, audit>>
  BY DEF Mine
<1>2. tx \in AllTxs /\ Len(mined[c]) \in Nat /\ mined[c] \in Seq(AllTxs)
  BY <1>1 DEF IInv, TypeInv, NodeType, PoolType
<1>3. tx.job.kind = "grant" => tx.job.key \in Key
  BY <1>2 DEF AllTxs, AllJobs, NoJob
<1>4. (c = "pc" /\ tx.job.kind = "grant") => Funded(tx.job.key)
  BY <1>1 DEF IInv, FundInv
<1> HIDE DEF tx
<1>5. mined' \in [Chain -> Seq(AllTxs)]
  BY <1>1, <1>2 DEF IInv, TypeInv, NodeType
<1>6. /\ mined'[c] = Append(mined[c], tx) /\ Range(mined'[c]) = Range(mined[c]) \cup {tx}
      /\ \A d \in Chain : d # c => mined'[d] = mined[d]
  <2>1. mined'[c] = Append(mined[c], tx) /\ \A d \in Chain : d # c => mined'[d] = mined[d]
    BY <1>1 DEF IInv, TypeInv, NodeType
  <2>2. Range(Append(mined[c], tx)) = Range(mined[c]) \cup {tx}
    BY <1>2, AppendRange
  <2> QED BY <2>1, <2>2
<1>7. Grows
  BY <1>6 DEF Grows
<1>8. /\ holds' \in [Chain -> SUBSET Key]
      /\ holds'[c] = IF tx.job.kind = "grant" THEN holds[c] \cup {tx.job.key} ELSE holds[c]
      /\ \A d \in Chain : d # c => holds'[d] = holds[d]
  BY <1>1, <1>3 DEF IInv, TypeInv, NodeType
<1>9. PoolType' /\ \A d \in Chain : \A n \in DOMAIN pool'[d] :
                     n \in DOMAIN pool[d] /\ pool'[d][n] = pool[d][n]
  <2> DEFINE P == [n \in DOMAIN pool[c] \ {Len(mined[c])} |-> pool[c][n]]
  <2>1. pool' = [d \in Chain |-> IF d = c THEN P ELSE pool[d]]
    BY <1>1 DEF IInv, TypeInv, NodeType, PoolType
  <2>2. DOMAIN P = DOMAIN pool[c] \ {Len(mined[c])} /\ \A n \in DOMAIN P : P[n] = pool[c][n]
    OBVIOUS
  <2>3. IsFiniteSet(DOMAIN P)
    BY <2>2, FS_RemoveElement DEF IInv, TypeInv, NodeType, PoolType
  <2> HIDE DEF P
  <2>4. pool' = [d \in Chain |-> pool'[d]] /\ pool'[c] = P /\ \A d \in Chain : d # c => pool'[d] = pool[d]
    BY <2>1
  <2>5. \A d \in Chain : \A n \in DOMAIN pool'[d] : n \in DOMAIN pool[d] /\ pool'[d][n] = pool[d][n]
    BY <2>2, <2>4
  <2>6. \A d \in Chain : DOMAIN pool'[d] \subseteq Nat /\ IsFiniteSet(DOMAIN pool'[d])
    BY <2>2, <2>3, <2>4 DEF IInv, TypeInv, NodeType, PoolType
  <2>7. \A d \in Chain : \A n \in DOMAIN pool'[d] : pool'[d][n] \in AllTxs
    BY <2>5 DEF IInv, TypeInv, NodeType, PoolType
  <2> QED BY <2>4, <2>5, <2>6, <2>7 DEF PoolType
<1>10. TypeInv'
  BY <1>1, <1>5, <1>8, <1>9 DEF IInv, TypeInv, NodeType, TaskType, operator, program, stage
<1>11. RunInv'
  <2>1. AnswerInv'
    BY <1>1, SameAnswers DEF IInv, RunInv, program, stage
  <2> QED BY <1>1, <1>7, <2>1, RunKept DEF IInv, TypeInv, program, stage
<1>12. Keeps
  BY <1>1, <1>8 DEF Keeps, operator
<1>13. HoldInv'
  <2> SUFFICES ASSUME NEW d \in Chain, NEW x \in Range(mined'[d]), x.job.kind = "grant"
               PROVE  x.job.key \in holds'[d] \cup revoked'[d]
    BY DEF HoldInv
  <2>1. CASE x \in Range(mined[d])
    BY <1>12, <2>1 DEF IInv, HoldInv, Keeps
  <2>2. CASE x \notin Range(mined[d])
    BY <1>6, <1>8, <2>2
  <2> QED BY <2>1, <2>2
<1>14. FundInv'
  <2>1. \A key : Funded(key) => Funded(key)'
    BY <1>7 DEF Funded, Grows, Chain
  <2>2. \A key \in holds'["pc"] : Funded(key)'
    <3>1. "pc" \in Chain
      BY DEF Chain
    <3> QED BY <1>4, <1>8, <2>1, <3>1 DEF IInv, FundInv
  <2>3. (\A n \in DOMAIN pool["pc"] : pool["pc"][n].job.kind = "grant" => Funded(pool["pc"][n].job.key))'
    <3>1. "pc" \in Chain
      BY DEF Chain
    <3>2. ASSUME NEW n \in DOMAIN pool'["pc"], pool'["pc"][n].job.kind = "grant"
          PROVE  \E x \in Range(mined'["pc"]) :
                   x.job = [kind |-> "fund", chain |-> "pc", key |-> pool'["pc"][n].job.key]
      <4>1. n \in DOMAIN pool["pc"] /\ pool'["pc"][n] = pool["pc"][n]
        BY <1>9, <3>1
      <4>2. Funded(pool["pc"][n].job.key)
        BY <3>2, <4>1 DEF IInv, FundInv
      <4> QED BY <2>1, <4>1, <4>2 DEF Funded
    <3> QED BY <3>2 DEF Funded
  <2>4. \A f \in flying' : (f.tx.job.kind = "grant" /\ f.tx.job.chain = "pc") => Funded(f.tx.job.key)'
    BY <1>1, <2>1 DEF IInv, FundInv
  <2> QED BY <2>2, <2>3, <2>4 DEF FundInv
<1> QED BY <1>1, <1>10, <1>11, <1>12, <1>13, <1>14, AuditKept DEF IInv

LEMMA ForeignSendKeeps ==
  ASSUME IInv, NEW c \in Chain, ForeignSend(c)
  PROVE  IInv'
<1> DEFINE tx == [run |-> 0, job |-> NoJob]
<1>1. /\ pool' = Pooled(c, PendingNonce(c), tx)
      /\ UNCHANGED <<mined, flying, holds, operator, program, audit>>
  BY DEF ForeignSend
<1>2. tx \in AllTxs /\ tx.job.kind = "other"
  BY RelayerAssumption DEF AllTxs, AllJobs, NoJob
<1> HIDE DEF tx
<1>3. PoolType' /\ \A d \in Chain : \A n \in DOMAIN pool'[d] :
        (d = c /\ pool'[d][n] = tx) \/ (n \in DOMAIN pool[d] /\ pool'[d][n] = pool[d][n])
  BY <1>1, <1>2, NonceFacts, PooledFacts DEF IInv, TypeInv, NodeType
<1>4. TypeInv'
  BY <1>1, <1>3 DEF IInv, TypeInv, NodeType, TaskType, operator, program, stage
<1>5. RunInv'
  <2>1. AnswerInv'
    BY <1>1, SameAnswers DEF IInv, RunInv, program, stage
  <2> QED BY <1>1, <2>1, RunKept DEF IInv, TypeInv, Grows, program, stage
<1>6. Keeps
  BY <1>1 DEF Keeps, operator
<1>7. FundInv'
  <2>1. "pc" \in Chain
    BY DEF Chain
  <2>2. \A n \in DOMAIN pool'["pc"] : pool'["pc"][n].job.kind = "grant" =>
          n \in DOMAIN pool["pc"] /\ pool'["pc"][n] = pool["pc"][n]
    BY <1>2, <1>3, <2>1
  <2> QED BY <1>1, <2>2 DEF IInv, FundInv, Funded
<1> QED BY <1>1, <1>4, <1>5, <1>6, <1>7, HoldKept, AuditKept DEF IInv

-----------------------------------------------------------------------------
\* The steps of the task.

\* A step of the program that sends nothing.
LEMMA ProgramStep ==
  ASSUME IInv, TaskType', RunInv', UNCHANGED <<chain, revoked, audit>>
  PROVE  IInv'
<1>1. NodeType'
  BY DEF IInv, TypeInv, NodeType, PoolType, chain
<1>2. Keeps
  BY DEF Keeps, chain
<1>3. HoldInv' /\ AuditInv' /\ FundInv'
  BY <1>2, HoldKept, AuditKept, FundKept DEF IInv, chain
<1> QED BY <1>1, <1>3 DEF IInv, TypeInv

LEMMA StartKeeps ==
  ASSUME IInv, Start
  PROVE  IInv'
<1>1. /\ Ended /\ run < MaxRuns /\ run' = run + 1 /\ step' = 1 /\ phase' = "fetch"
      /\ fetched' = [l \in {} |-> << >>] /\ outstanding' = << >>
      /\ UNCHANGED <<chain, operator, task, audit>>
  BY DEF Start
<1>2. TaskType'
  <2>1. task \in Task /\ 1 \in DOMAIN Stages(task)
    BY StageFacts DEF IInv, TypeInv, TaskType
  <2>2. run' \in 0 .. MaxRuns
    BY <1>1, RelayerAssumption DEF IInv, TypeInv, TaskType
  <2> QED BY <1>1, <2>1, <2>2 DEF IInv, TypeInv, TaskType, operator, Phases
<1>3. RunInv'
  <2>1. Behind' = {}
    BY <1>1 DEF Behind
  <2> QED BY <1>1, <2>1 DEF RunInv, FetchInv, PastInv, WorkInv, AnswerInv
<1> QED BY <1>1, <1>2, <1>3, ProgramStep DEF operator

LEMMA FetchFirstKeeps ==
  ASSUME IInv, NEW ok \in BOOLEAN, FetchFirst(ok)
  PROVE  IInv'
<1>1. /\ phase = "fetch" /\ phase' = IF ok THEN "fetch" ELSE "failed"
      /\ First(task) # {} /\ UNCHANGED <<chain, operator, run, task, step, outstanding, audit>>
      /\ fetched' = IF ok THEN [l \in First(task) |-> cts[l]] ELSE fetched
  BY DEF FetchFirst, stage
<1>2. /\ task \in Task /\ step \in DOMAIN Stages(task) /\ First(task) \subseteq Name
      /\ task # "hub" /\ step = 1
  BY <1>1, FetchFacts DEF IInv, TypeInv, TaskType, RunInv, FetchInv
<1>3. AnswerInv'
  BY <1>1 DEF AnswerInv
<1>4. CASE ~ok
  <2>1. TaskType'
    BY <1>1, <1>4 DEF IInv, TypeInv, TaskType, operator, Phases
  <2>2. RunInv'
    BY <1>1, <1>3, <1>4, RunKept DEF IInv, TypeInv, Grows, chain
  <2> QED BY <1>1, <2>1, <2>2, ProgramStep DEF operator
<1>5. CASE ok
  <2>1. TaskType'
    BY <1>1, <1>2, <1>5 DEF IInv, TypeInv, TaskType, operator, Phases
  <2>2. Behind' = {}
    BY <1>1, <1>2, <1>5 DEF Behind
  <2>3. RunInv'
    BY <1>1, <1>2, <1>3, <1>5, <2>2 DEF RunInv, FetchInv, PastInv, WorkInv
  <2> QED BY <1>1, <2>1, <2>3, ProgramStep DEF operator
<1> QED BY <1>4, <1>5

LEMMA FetchKeeps ==
  ASSUME IInv, NEW ok \in BOOLEAN, Fetch(ok)
  PROVE  IInv'
<1> DEFINE lists == [l \in DOMAIN fetched \cup Fetches(task, step) |->
                       IF l \in Fetches(task, step) THEN cts[l] ELSE fetched[l]]
<1>1. /\ phase = "fetch" /\ phase' = IF ok THEN "read" ELSE "failed"
      /\ First(task) \subseteq DOMAIN fetched /\ fetched' = IF ok THEN lists ELSE fetched
      /\ outstanding' = IF ok THEN [i \in DOMAIN lists[Now.list] |-> Job(lists[Now.list][i])] ELSE << >>
      /\ UNCHANGED <<chain, operator, run, task, step, audit>>
  BY DEF Fetch
<1>2. /\ task \in Task /\ step \in DOMAIN Stages(task) /\ DOMAIN Stages(task) = 1 .. Len(Stages(task))
      /\ Fetches(task, step) \subseteq Name /\ step \in Nat
  BY StageFacts, FetchFacts DEF IInv, TypeInv, TaskType
<1>3. CASE ~ok
  <2>1. TaskType'
    BY <1>1, <1>3 DEF IInv, TypeInv, TaskType, operator, Phases
  <2>2. RunInv'
    <3>1. AnswerInv'
      BY <1>1, <1>3 DEF AnswerInv
    <3> QED BY <1>1, <1>3, <3>1, RunKept DEF IInv, TypeInv, Grows, chain
  <2> QED BY <1>1, <2>1, <2>2, ProgramStep DEF operator
<1>4. CASE ok
  <2>1. /\ DOMAIN lists = DOMAIN fetched \cup Fetches(task, step)
        /\ \A l \in Fetches(task, step) : lists[l] = cts[l]
        /\ \A l \in DOMAIN fetched : l \notin Fetches(task, step) => lists[l] = fetched[l]
    OBVIOUS
  <2>2. fetched' = lists
    BY <1>1, <1>4
  <2> HIDE DEF lists
  <2>3. Now.list \in Fetches(task, step) /\ \A k \in 1 .. (step - 1) : Stages(task)[k].list \notin Fetches(task, step)
    BY <1>1, <1>2, FetchFacts DEF IInv, RunInv, FetchInv, Now
  <2>4. DOMAIN lists \subseteq Name /\ \A l \in DOMAIN lists : lists[l] \in Seq(Key)
    BY <1>2, <2>1 DEF IInv, TypeInv, TaskType
  <2>5. lists[Now.list] \in Seq(Key) /\ Now.list \in DOMAIN lists
    BY <2>1, <2>3, <2>4
  <2>6. outstanding' = [i \in 1 .. Len(lists[Now.list]) |-> Job(lists[Now.list][i])]
    BY <1>1, <1>4, <2>5
  <2>7. Now' = Now /\ \A key : Job(key)' = Job(key)
    BY <1>1 DEF Now, Job
  <2>8. \A key \in Key : Job(key) \in Jobs
    BY <1>2, StageFacts DEF Job, Jobs, Now
  <2>9. TaskType'
    <3>1. outstanding' \in Seq(Jobs)
      <4>1. \A i \in 1 .. Len(lists[Now.list]) : Job(lists[Now.list][i]) \in Jobs
        BY <2>5, <2>8
      <4>2. Len(lists[Now.list]) \in Nat
        BY <2>5
      <4> QED BY <2>6, <4>1, <4>2
    <3> QED BY <1>1, <1>4, <2>2, <2>4, <3>1 DEF IInv, TypeInv, TaskType, operator, Phases
  <2>10. FetchInv'
    <3>1. task # "hub" => \A i \in DOMAIN Stages(task) : Stages(task)[i].list \in DOMAIN lists
      BY <1>1, <1>2, <2>1, FetchFacts DEF IInv, RunInv, FetchInv
    <3> QED BY <1>1, <1>4, <2>2, <2>5, <2>7, <3>1 DEF FetchInv
  <2>11. PastInv'
    <3>1. Behind' = 1 .. (step - 1) /\ Behind = 1 .. (step - 1)
      BY <1>1, <1>4 DEF Behind
    <3>2. ASSUME NEW k \in 1 .. (step - 1) PROVE Over(k)'
      <4>1. Over(k) /\ k \in DOMAIN Stages(task)
        BY <1>2, <3>1 DEF IInv, RunInv, PastInv
      <4>2. Stages(task)[k].list \in DOMAIN lists /\ lists[Stages(task)[k].list] = fetched[Stages(task)[k].list]
        BY <2>1, <2>3, <4>1 DEF Over
      <4> QED BY <1>1, <2>2, <4>1, <4>2 DEF Over, Sends, chain
    <3> QED BY <3>1, <3>2 DEF PastInv
  <2>12. WorkInv'
    <3>1. /\ \A j \in Range(outstanding') : \E key \in Range(lists[Now.list]) : j = Job(key)
          /\ \A key \in Range(lists[Now.list]) : Job(key) \in Range(outstanding')
      <4> DEFINE l == lists[Now.list]
      <4>1. DOMAIN l = 1 .. Len(l) /\ outstanding' = [i \in 1 .. Len(l) |-> Job(l[i])]
        BY <2>5, <2>6
      <4> HIDE DEF l
      <4>2. /\ Range(outstanding') = {Job(l[i]) : i \in 1 .. Len(l)}
            /\ Range(l) = {l[i] : i \in 1 .. Len(l)}
        BY <4>1 DEF Range
      <4>3. /\ \A j \in Range(outstanding') : \E key \in Range(l) : j = Job(key)
            /\ \A key \in Range(l) : Job(key) \in Range(outstanding')
        BY <4>2
      <4> QED BY <4>3 DEF l
    <3> QED BY <2>2, <2>7, <3>1 DEF WorkInv
  <2>13. AnswerInv'
    BY <1>1, <1>4 DEF AnswerInv
  <2> QED BY <1>1, <2>9, <2>10, <2>11, <2>12, <2>13, ProgramStep DEF RunInv, operator
<1> QED BY <1>3, <1>4

LEMMA SettledKeeps ==
  ASSUME IInv, SendsSettled
  PROVE  IInv'
<1>1. /\ phase = "sending" /\ phase' \in {"failed", "waiting"}
      /\ UNCHANGED <<chain, operator, run, task, fetched, step, stage, audit>>
  BY DEF SendsSettled
<1>2. TaskType'
  BY <1>1 DEF IInv, TypeInv, TaskType, operator, stage, Phases
<1>3. AnswerInv'
  <2>1. phase' = "waiting" => \A j \in DOMAIN answer : answer[j] \in {"accepted", "collided"}
    <3> SUFFICES ASSUME phase' = "waiting", NEW j \in DOMAIN answer
                 PROVE  answer[j] \in {"accepted", "collided"}
      OBVIOUS
    <3>1. answer[j] \in {"none", "accepted", "collided", "failed"}
      BY <1>1 DEF IInv, RunInv, AnswerInv
    <3>2. Having("failed") = {} /\ Having("none") = {}
      BY DEF SendsSettled
    <3> QED BY <3>1, <3>2 DEF Having
  <2> QED BY <1>1, <2>1 DEF IInv, RunInv, AnswerInv, stage
<1>4. RunInv'
  BY <1>1, <1>3, RunKept DEF IInv, TypeInv, Grows, chain, stage
<1> QED BY <1>1, <1>2, <1>4, ProgramStep DEF operator

LEMMA CrashKeeps ==
  ASSUME IInv, Crash
  PROVE  IInv'
<1>1. /\ phase # "done" /\ phase' = "failed"
      /\ UNCHANGED <<chain, operator, run, task, fetched, step, stage, audit>>
  BY DEF Crash, Ended
<1>2. TaskType'
  BY <1>1 DEF IInv, TypeInv, TaskType, operator, stage, Phases
<1>3. AnswerInv'
  BY <1>1, SameAnswers DEF IInv, RunInv, stage
<1>4. RunInv'
  BY <1>1, <1>3, RunKept DEF IInv, TypeInv, Grows, chain
<1> QED BY <1>1, <1>2, <1>4, ProgramStep DEF operator

LEMMA ReadNonceKeeps ==
  ASSUME IInv, ReadNonce
  PROVE  IInv'
<1> DEFINE nonce(i) == PendingNonce(Now.chain) + i - 1
           at(j) == CHOOSE i \in DOMAIN outstanding : outstanding[i] = j
<1>1. /\ phase = "read" /\ phase' = "sending"
      /\ sent' = [j \in Range(outstanding) |-> nonce(at(j))]
      /\ flying' = flying \cup {[nonce |-> nonce(i), tx |-> Tx(outstanding[i])] : i \in DOMAIN outstanding}
      /\ answer' = [j \in Range(outstanding) |-> "none"]
      /\ UNCHANGED <<mined, pool, holds, operator, run, task, fetched, step, outstanding, audit>>
  BY DEF ReadNonce
<1>2. /\ Now.chain \in Chain /\ step \in DOMAIN Stages(task) /\ task \in Task
      /\ DOMAIN Stages(task) = 1 .. Len(Stages(task)) /\ step \in Nat
  BY StageFacts DEF IInv, TypeInv, TaskType, Now
<1>3. \A i \in DOMAIN outstanding : nonce(i) \in Nat
  <2>1. PendingNonce(Now.chain) \in Nat
    BY <1>2, NonceFacts DEF IInv, TypeInv
  <2>2. \A i \in DOMAIN outstanding : i \in Nat /\ i >= 1
    BY DEF IInv, TypeInv, TaskType
  <2> QED BY <2>1, <2>2
<1>4. \A i \in DOMAIN outstanding : Tx(outstanding[i]) \in [run : 0 .. MaxRuns, job : Jobs]
  <2>1. \A i \in DOMAIN outstanding : outstanding[i] \in Jobs
    BY DEF IInv, TypeInv, TaskType
  <2> QED BY <2>1 DEF Tx, IInv, TypeInv, TaskType
<1>5. \A j \in Range(outstanding) : at(j) \in DOMAIN outstanding
  BY DEF Range
<1>6. sent' \in [Range(outstanding) -> Nat]
  BY <1>1, <1>3, <1>5
<1> HIDE DEF nonce, at
<1>7. TypeInv'
  <2>1. flying' \subseteq [nonce : Nat, tx : [run : 0 .. MaxRuns, job : Jobs]]
    BY <1>1, <1>3, <1>4 DEF IInv, TypeInv, NodeType
  <2>2. NodeType'
    BY <1>1, <2>1 DEF IInv, TypeInv, NodeType, PoolType, operator
  <2>3. TaskType'
    BY <1>1 DEF IInv, TypeInv, TaskType, Phases, operator
  <2> QED BY <2>2, <2>3 DEF TypeInv
<1>8. RunInv'
  <2>1. AnswerInv'
    BY <1>1, <1>6 DEF AnswerInv
  <2> QED BY <1>1, <2>1, RunKept DEF IInv, TypeInv, Grows
<1>9. Keeps
  BY <1>1 DEF Keeps, operator
<1>10. FundInv'
  <2>1. ASSUME NEW i \in DOMAIN outstanding, outstanding[i].kind = "grant", outstanding[i].chain = "pc"
        PROVE  Funded(outstanding[i].key)
    <3>1. outstanding[i] \in Range(outstanding)
      BY DEF Range
    <3>2. PICK key \in Range(fetched[Now.list]) : outstanding[i] = Job(key)
      BY <1>1, <3>1 DEF IInv, RunInv, WorkInv
    <3>3. Now.kind = "grant" /\ Now.chain = "pc" /\ outstanding[i].key = key
      BY <2>1, <3>2 DEF Job
    <3>4. PICK k \in 1 .. (step - 1) :
            /\ k \in DOMAIN Stages(task)
            /\ Stages(task)[k].kind = "fund" /\ Stages(task)[k].chain = "pc"
            /\ Stages(task)[k].list = Now.list
      BY <1>2, <3>3, FundedFirst DEF Now
    <3>5. Over(k)
      BY <1>1, <3>4 DEF IInv, RunInv, PastInv, Behind
    <3>6. Sends(k, key) \in Range(mined["pc"])
      BY <3>4, <3>5 DEF Over
    <3> QED BY <3>3, <3>4, <3>6 DEF Funded, Sends
  <2>2. \A f \in flying' : (f.tx.job.kind = "grant" /\ f.tx.job.chain = "pc") => Funded(f.tx.job.key)
    <3> SUFFICES ASSUME NEW f \in flying', f.tx.job.kind = "grant", f.tx.job.chain = "pc"
                 PROVE  Funded(f.tx.job.key)
      OBVIOUS
    <3>1. CASE f \in flying
      BY <3>1 DEF IInv, FundInv
    <3>2. CASE f \notin flying
      <4>1. PICK i \in DOMAIN outstanding : f.tx.job = outstanding[i]
        BY <1>1, <3>2 DEF Tx
      <4> QED BY <2>1, <4>1
    <3> QED BY <3>1, <3>2
  <2> QED BY <1>1, <2>2 DEF IInv, FundInv, Funded
<1> QED BY <1>1, <1>7, <1>8, <1>9, <1>10, HoldKept, AuditKept DEF IInv

\* An accepted transaction that is waited for, and not replaced, is mined.
LEMMA AcceptedMined ==
  ASSUME IInv, phase = "waiting", \A j \in Having("accepted") : Settled(j) /\ MinedAs(j)
  PROVE  \A j \in Having("accepted") : Tx(j) \in Range(mined[Now.chain])
<1> SUFFICES ASSUME NEW j \in Having("accepted")
             PROVE  Tx(j) \in Range(mined[Now.chain])
  OBVIOUS
<1>1. Now.chain \in Chain
  BY StageFacts DEF IInv, TypeInv, TaskType, Now
<1>2. mined[Now.chain] \in Seq(AllTxs)
  BY <1>1 DEF IInv, TypeInv, NodeType
<1>3. sent[j] \in Nat
  BY DEF Having, IInv, RunInv, AnswerInv
<1>4. sent[j] < Len(mined[Now.chain]) /\ mined[Now.chain][sent[j] + 1] = Tx(j)
  BY DEF Settled, MinedAs
<1>5. sent[j] + 1 \in DOMAIN mined[Now.chain]
  BY <1>2, <1>3, <1>4
<1> QED BY <1>4, <1>5 DEF Range

\* Every order of a part of a list is a list of that part.
LEMMA Ordered ==
  ASSUME NEW S, NEW s \in Seq(S), NEW T \in SUBSET Range(s), NEW o \in SetToSeqs(T)
  PROVE  o \in Seq(S) /\ Range(o) = T
<1> DEFINE n == Cardinality(T)
<1>1. IsFiniteSet(T) /\ T \subseteq S
  <2>1. IsFiniteSet(1 .. Len(s))
    BY FS_Interval
  <2>2. s \in Surjection(1 .. Len(s), Range(s))
    BY DEF Range, Surjection
  <2>3. IsFiniteSet(Range(s))
    BY <2>1, <2>2, FS_Surjection
  <2>4. Range(s) \subseteq S
    BY DEF Range
  <2> QED BY <2>3, <2>4, FS_Subset
<1>2. n \in Nat
  BY <1>1, FS_CardinalityType
<1>3. o \in [1 .. n -> T] /\ \A i, j \in 1 .. n : i # j => o[i] # o[j]
  BY DEF SetToSeqs
<1> HIDE DEF n
<1>4. o \in Seq(S)
  BY <1>1, <1>2, <1>3
<1>5. Range(o) \subseteq T
  BY <1>3 DEF Range
<1>6. T \subseteq Range(o)
  <2>1. IsFiniteSet(1 .. n) /\ Cardinality(1 .. n) = Cardinality(T)
    BY <1>2, FS_Interval DEF n
  <2>2. o \in Injection(1 .. n, T)
    BY <1>3 DEF Injection, IsInjective
  <2>3. o \in Surjection(1 .. n, T)
    BY <1>1, <2>1, <2>2, FS_Injection
  <2> QED BY <2>3 DEF Surjection, Range
<1> QED BY <1>4, <1>5, <1>6

\* The last wait of a stage: all that it sends has been mined.
LEMMA StageEndsKeeps ==
  ASSUME IInv, phase = "waiting", StageEnds, Having("collided") = {},
         \A j \in Having("accepted") : Settled(j) /\ MinedAs(j),
         UNCHANGED <<chain, operator, run, task, fetched, audit>>
  PROVE  IInv'
<1>1. /\ task \in Task /\ step \in DOMAIN Stages(task) /\ DOMAIN Stages(task) = 1 .. Len(Stages(task))
      /\ Len(Stages(task)) \in Nat /\ step \in Nat
  BY StageFacts DEF IInv, TypeInv, TaskType
<1>2. Over(step)
  <2>1. Now.list \in DOMAIN fetched
    BY DEF IInv, RunInv, FetchInv
  <2>2. ASSUME NEW key \in Range(fetched[Now.list])
        PROVE  Tx(Job(key)) \in Range(mined[Now.chain])
    <3>1. CASE Job(key) \in Range(outstanding)
      <4>1. Job(key) \in DOMAIN answer /\ answer[Job(key)] \in {"accepted", "collided"}
        BY <3>1 DEF IInv, RunInv, AnswerInv
      <4>2. Job(key) \in Having("accepted")
        BY <4>1 DEF Having
      <4> QED BY <4>2, AcceptedMined
    <3>2. CASE Job(key) \notin Range(outstanding)
      BY <2>2, <3>2 DEF IInv, RunInv, WorkInv
    <3> QED BY <3>1, <3>2
  <2> QED BY <2>1, <2>2 DEF Over, Sends, Now, Tx, Job
<1>3. \A i \in 1 .. step : Over(i)
  <2>1. \A i \in 1 .. (step - 1) : Over(i)
    BY DEF IInv, RunInv, PastInv, Behind
  <2>2. \A i \in 1 .. step : i \in 1 .. (step - 1) \/ i = step
    BY <1>1
  <2> QED BY <1>2, <2>1, <2>2
<1>4. \A i \in 1 .. step : Over(i)'
  <2> SUFFICES ASSUME NEW i \in 1 .. step PROVE Over(i)'
    OBVIOUS
  <2>1. Over(i)
    BY <1>3
  <2> QED BY <2>1 DEF Over, Sends, chain
<1>5. task # "hub" => \A i \in DOMAIN Stages(task) : Stages(task)[i].list \in DOMAIN fetched
  BY DEF IInv, RunInv, FetchInv
<1>6. CASE step = Len(Stages(task))
  <2>1. /\ step' = step /\ phase' = "done" /\ outstanding' = << >>
    BY <1>6 DEF StageEnds
  <2>2. TaskType'
    BY <2>1 DEF IInv, TypeInv, TaskType, operator, Phases
  <2>3. PastInv'
    BY <1>1, <1>4, <1>6, <2>1 DEF PastInv, Behind
  <2>4. RunInv'
    BY <1>5, <2>1, <2>3 DEF RunInv, FetchInv, WorkInv, AnswerInv
  <2> QED BY <2>2, <2>4, ProgramStep DEF operator
<1>7. CASE step # Len(Stages(task))
  <2>1. /\ step' = step + 1 /\ step + 1 \in DOMAIN Stages(task)
        /\ phase' = IF Fetches(task, step + 1) # {} THEN "fetch" ELSE "read"
        /\ outstanding' = IF phase' = "read" THEN NextJobs ELSE << >>
    <3>1. step + 1 \in DOMAIN Stages(task)
      <4> DEFINE n == Len(Stages(task))
      <4>1. n \in Nat /\ step \in 1 .. n /\ step # n /\ DOMAIN Stages(task) = 1 .. n
        BY <1>1, <1>7
      <4> HIDE DEF n
      <4>2. step + 1 \in 1 .. n
        BY <4>1
      <4> QED BY <4>1, <4>2
    <3>2. step' = step + 1
      BY <1>7 DEF StageEnds
    <3>3. phase' = IF Fetches(task, step + 1) # {} THEN "fetch" ELSE "read"
      BY <1>7 DEF StageEnds
    <3>4. outstanding' = IF phase' = "read" THEN NextJobs ELSE << >>
      BY DEF StageEnds
    <3> QED BY <3>1, <3>2, <3>3, <3>4
  <2>2. PastInv'
    <3>1. Behind' = 1 .. step
      BY <1>1, <2>1 DEF Behind
    <3> QED BY <1>4, <3>1 DEF PastInv
  <2>3. CASE Fetches(task, step + 1) # {}
    <3>1. task = "hub" /\ phase' = "fetch" /\ outstanding' = << >>
      BY <1>1, <2>1, <2>3, FetchFacts
    <3>2. TaskType'
      BY <2>1, <3>1 DEF IInv, TypeInv, TaskType, operator, Phases
    <3>3. RunInv'
      BY <2>2, <3>1 DEF RunInv, FetchInv, WorkInv, AnswerInv
    <3> QED BY <3>2, <3>3, ProgramStep DEF operator
  <2>4. CASE Fetches(task, step + 1) = {}
    <3> DEFINE s == Stages(task)[step + 1]
               l == fetched[s.list]
               J(key) == [kind |-> s.kind, chain |-> s.chain, key |-> key]
    <3>1. task # "hub" /\ phase' = "read" /\ outstanding' = NextJobs
      BY <1>1, <2>1, <2>4, FetchFacts
    <3>2. s.list \in DOMAIN fetched /\ s.kind \in Kinds /\ s.chain \in Chain
      BY <1>1, <1>5, <2>1, <3>1, StageFacts
    <3>3. l \in Seq(Key)
      BY <3>2 DEF IInv, TypeInv, TaskType
    <3>4. outstanding' = [i \in 1 .. Len(l) |-> J(l[i])] /\ Len(l) \in Nat /\ DOMAIN l = 1 .. Len(l)
      BY <3>1, <3>3 DEF NextJobs
    <3>5. Now' = s /\ \A key : Job(key)' = J(key)
      BY <2>1 DEF Now, Job
    <3>6. \A key \in Key : J(key) \in Jobs
      BY <3>2 DEF Jobs
    <3> HIDE DEF l, J
    <3>7. outstanding' \in Seq(Jobs)
      <4>1. \A i \in 1 .. Len(l) : J(l[i]) \in Jobs
        BY <3>3, <3>6
      <4> QED BY <3>4, <4>1
    <3>8. TaskType'
      BY <2>1, <3>1, <3>7 DEF IInv, TypeInv, TaskType, operator, Phases
    <3>9. FetchInv'
      BY <1>5, <3>1, <3>2, <3>5 DEF FetchInv
    <3>10. WorkInv'
      <4>1. /\ Range(outstanding') = {J(l[i]) : i \in 1 .. Len(l)}
            /\ Range(l) = {l[i] : i \in 1 .. Len(l)}
        BY <3>4 DEF Range
      <4>2. /\ \A j \in Range(outstanding') : \E key \in Range(l) : j = J(key)
            /\ \A key \in Range(l) : J(key) \in Range(outstanding')
        BY <4>1
      <4>3. fetched'[Now'.list] = l
        BY <3>5 DEF l
      <4> QED BY <3>5, <4>2, <4>3 DEF WorkInv
    <3>11. AnswerInv'
      BY <3>1 DEF AnswerInv
    <3> QED BY <2>2, <3>8, <3>9, <3>10, <3>11, ProgramStep DEF RunInv, operator
  <2> QED BY <2>3, <2>4
<1> QED BY <1>6, <1>7

LEMMA ResendKeeps ==
  ASSUME IInv, phase = "waiting", phase' \in {"failed", "read"},
         outstanding' \in SetToSeqs(Having("collided")),
         \A j \in Having("accepted") : Settled(j) /\ MinedAs(j),
         UNCHANGED <<chain, operator, run, task, fetched, step, audit>>
  PROVE  IInv'
<1>1. outstanding \in Seq(Jobs) /\ DOMAIN answer = Range(outstanding)
  BY DEF IInv, TypeInv, TaskType, RunInv, AnswerInv
<1>2. Having("collided") \in SUBSET Range(outstanding)
  BY <1>1 DEF Having
<1>3. outstanding' \in Seq(Jobs) /\ Range(outstanding') = Having("collided")
  BY <1>1, <1>2, Ordered
<1>4. TaskType'
  BY <1>3 DEF IInv, TypeInv, TaskType, operator, Phases
<1>5. Now' = Now /\ \A key : Job(key)' = Job(key) /\ Tx(Job(key))' = Tx(Job(key))
  BY DEF Now, Job, Tx
<1>6. WorkInv'
  <2>1. \A j \in Range(outstanding') : \E key \in Range(fetched[Now.list]) : j = Job(key)
    BY <1>2, <1>3 DEF IInv, RunInv, WorkInv
  <2>2. ASSUME NEW key \in Range(fetched[Now.list]), Job(key) \notin Range(outstanding')
        PROVE  Tx(Job(key)) \in Range(mined[Now.chain])
    <3>1. CASE Job(key) \in Range(outstanding)
      <4>1. Job(key) \in DOMAIN answer /\ answer[Job(key)] \in {"accepted", "collided"}
        BY <1>1, <3>1 DEF IInv, RunInv, AnswerInv
      <4>2. Job(key) \in Having("accepted")
        BY <1>3, <2>2, <4>1 DEF Having
      <4> QED BY <4>2, AcceptedMined
    <3>2. CASE Job(key) \notin Range(outstanding)
      BY <2>2, <3>2 DEF IInv, RunInv, WorkInv
    <3> QED BY <3>1, <3>2
  <2>3. mined' = mined /\ fetched' = fetched
    BY DEF chain
  <2> QED BY <1>5, <2>1, <2>2, <2>3 DEF WorkInv
<1>7. FetchInv'
  BY <1>5 DEF IInv, RunInv, FetchInv
<1>8. PastInv'
  <2>1. Behind' = Behind
    BY DEF Behind
  <2>2. \A i \in Behind : Over(i)'
    <3> SUFFICES ASSUME NEW i \in Behind PROVE Over(i)'
      OBVIOUS
    <3>1. Over(i)
      BY DEF IInv, RunInv, PastInv
    <3> QED BY <3>1 DEF Over, Sends, chain
  <2> QED BY <2>1, <2>2 DEF PastInv
<1>9. AnswerInv'
  BY DEF AnswerInv
<1> QED BY <1>4, <1>6, <1>7, <1>8, <1>9, ProgramStep DEF RunInv, operator

LEMMA WaitKeeps ==
  ASSUME IInv, Wait
  PROVE  IInv'
<1>1. /\ phase = "waiting" /\ \A j \in Having("accepted") : Settled(j)
      /\ UNCHANGED <<node, chain, operator, run, task, fetched, audit>>
  BY DEF Wait, WaitEnds
<1>2. CASE \E j \in Having("accepted") : ~MinedAs(j)
  <2>1. phase' = "failed" /\ UNCHANGED <<step, stage>>
    BY <1>2 DEF Wait
  <2>2. TaskType'
    BY <1>1, <2>1 DEF IInv, TypeInv, TaskType, operator, stage, Phases
  <2>3. AnswerInv'
    BY <2>1 DEF AnswerInv
  <2>4. RunInv'
    BY <1>1, <2>1, <2>3, RunKept DEF IInv, TypeInv, Grows, chain
  <2> QED BY <1>1, <2>2, <2>4, ProgramStep DEF operator
<1>3. CASE \A j \in Having("accepted") : MinedAs(j)
  <2>1. CASE Having("collided") = {}
    <3>1. StageEnds
      BY <1>3, <2>1 DEF Wait
    <3> QED BY <1>1, <1>3, <2>1, <3>1, StageEndsKeeps
  <2>2. CASE Having("collided") # {}
    <3>1. /\ phase' \in {"failed", "read"} /\ outstanding' \in SetToSeqs(Having("collided"))
          /\ UNCHANGED <<step, attempt, sent, answer>>
      BY <1>3, <2>2 DEF Wait
    <3> QED BY <1>1, <1>3, <3>1, ResendKeeps
  <2> QED BY <2>1, <2>2
<1> QED BY <1>2, <1>3

-----------------------------------------------------------------------------
\* The steps of the operator and of the audit.

LEMMA RotateKeeps ==
  ASSUME IInv, NEW l \in Name, NEW key \in Spare, NEW i \in DOMAIN cts[l], Rotate(l, i, key)
  PROVE  IInv'
<1>1. /\ cts' = [cts EXCEPT ![l] = [@ EXCEPT ![i] = key]]
      /\ UNCHANGED <<chain, revoked, program, audit>>
  BY DEF Rotate
<1>2. cts' \in [Name -> Seq(Key)]
  <2>1. key \in Key
    BY DEF Key
  <2>2. cts \in [Name -> Seq(Key)]
    BY DEF IInv, TypeInv, TaskType
  <2>3. [cts[l] EXCEPT ![i] = key] \in Seq(Key)
    BY <2>1, <2>2
  <2> QED BY <1>1, <2>2, <2>3
<1>3. TaskType'
  BY <1>1, <1>2 DEF IInv, TypeInv, TaskType, program, stage
<1>4. RunInv'
  <2>1. AnswerInv'
    BY <1>1, SameAnswers DEF IInv, RunInv, program, stage
  <2> QED BY <1>1, <2>1, RunKept DEF IInv, TypeInv, Grows, chain, program, stage
<1> QED BY <1>1, <1>3, <1>4, ProgramStep

LEMMA RevokeKeeps ==
  ASSUME IInv, NEW c \in Chain, NEW key \in Key, Revoke(c, key)
  PROVE  IInv'
<1>1. /\ holds' = [holds EXCEPT ![c] = @ \ {key}] /\ revoked' = [revoked EXCEPT ![c] = @ \cup {key}]
      /\ UNCHANGED <<mined, pool, flying, cts, program, audit>>
  BY DEF Revoke
<1>2. /\ holds' \in [Chain -> SUBSET Key] /\ revoked' \in [Chain -> SUBSET Key]
      /\ \A d \in Chain : holds'[d] = IF d = c THEN holds[d] \ {key} ELSE holds[d]
      /\ \A d \in Chain : revoked'[d] = IF d = c THEN revoked[d] \cup {key} ELSE revoked[d]
  BY <1>1 DEF IInv, TypeInv, NodeType
<1>3. TypeInv'
  BY <1>1, <1>2 DEF IInv, TypeInv, NodeType, PoolType, TaskType, program, stage
<1>4. RunInv'
  <2>1. AnswerInv'
    BY <1>1, SameAnswers DEF IInv, RunInv, program, stage
  <2> QED BY <1>1, <2>1, RunKept DEF IInv, TypeInv, Grows, program, stage
<1>5. Keeps
  BY <1>2 DEF Keeps
<1>6. FundInv'
  <2>1. holds'["pc"] \subseteq holds["pc"]
    BY <1>2 DEF Chain
  <2> QED BY <1>1, <2>1, FundKept DEF IInv
<1> QED BY <1>1, <1>3, <1>4, <1>5, <1>6, HoldKept, AuditKept DEF IInv

LEMMA AuditKeeps ==
  ASSUME IInv, UNCHANGED <<chain, operator, program>>, AuditInv'
  PROVE  IInv'
<1>1. TypeInv'
  BY DEF IInv, TypeInv, NodeType, PoolType, TaskType, chain, operator, program, stage
<1>2. RunInv'
  <2>1. AnswerInv'
    BY SameAnswers DEF IInv, RunInv, program, stage
  <2> QED BY <2>1, RunKept DEF IInv, TypeInv, Grows, chain, program, stage
<1>3. Keeps
  BY DEF Keeps, chain, operator
<1> QED BY <1>1, <1>2, <1>3, HoldKept, FundKept DEF IInv, chain

\* What an audit expects of a run that is done has been granted.
LEMMA AuditBeginKeeps ==
  ASSUME IInv, NEW c \in Used, AuditBegin(c)
  PROVE  IInv'
<1>1. /\ audit' = [NoAudit EXCEPT !.phase = "reading", !.chain = c, !.expected = Advertised(c),
                     !.covered = /\ phase = "done"
                                 /\ \A l \in Audited(c) : l \in DOMAIN fetched /\ fetched[l] = cts[l]]
      /\ UNCHANGED <<chain, operator, program>>
  BY DEF AuditBegin
<1>2. c \in Chain
  BY StageFacts DEF IInv, TypeInv, TaskType, Used
<1>3. Advertised(c) \subseteq Key
  <2>1. Audited(c) \subseteq Name
    BY DEF Audited, Name
  <2>2. \A l \in Name : Range(cts[l]) \subseteq Key
    <3> SUFFICES ASSUME NEW l \in Name PROVE Range(cts[l]) \subseteq Key
      OBVIOUS
    <3>1. cts[l] \in Seq(Key)
      BY DEF IInv, TypeInv, TaskType
    <3> QED BY <3>1 DEF Range
  <2> QED BY <2>1, <2>2 DEF Advertised
<1>4. ASSUME phase = "done", \A l \in Audited(c) : l \in DOMAIN fetched /\ fetched[l] = cts[l],
             NEW key \in Advertised(c)
      PROVE  key \in holds[c] \cup revoked[c]
  <2>1. PICK l \in Audited(c) : key \in Range(cts[l])
    BY DEF Advertised
  <2>2. PICK i \in DOMAIN Stages(task) : Stages(task)[i] = Stage("grant", c, l)
    BY AuditedFacts DEF IInv, TypeInv, TaskType
  <2>3. Over(i)
    BY <1>4 DEF IInv, RunInv, PastInv, Behind
  <2>4. Sends(i, key) \in Range(mined[c])
    BY <1>4, <2>1, <2>2, <2>3, StageFields DEF Over
  <2>5. Sends(i, key).job.kind = "grant" /\ Sends(i, key).job.key = key
    BY <2>2, StageFields DEF Sends
  <2> QED BY <1>2, <2>4, <2>5 DEF IInv, HoldInv
<1>5. /\ audit'.phase = "reading" /\ audit'.chain = c /\ audit'.expected = Advertised(c)
      /\ audit'.missing = {} /\ audit'.unexpected = {} /\ audit'.covered \in BOOLEAN
      /\ audit'.covered => /\ phase = "done"
                           /\ \A l \in Audited(c) : l \in DOMAIN fetched /\ fetched[l] = cts[l]
      /\ audit' = [phase |-> "reading", chain |-> c, expected |-> Advertised(c),
                   covered |-> audit'.covered, missing |-> {}, unexpected |-> {}]
  BY <1>1 DEF NoAudit
<1>6. AuditInv'
  <2>1. audit' \in [phase : {"idle", "reading", "reported"}, chain : Chain, expected : SUBSET Key,
                    covered : BOOLEAN, missing : SUBSET Key, unexpected : SUBSET Key]
    BY <1>2, <1>3, <1>5
  <2>2. audit'.covered => audit'.expected \subseteq holds'[audit'.chain] \cup revoked'[audit'.chain]
    BY <1>1, <1>4, <1>5 DEF chain, operator
  <2> QED BY <1>5, <2>1, <2>2 DEF AuditInv
<1> QED BY <1>1, <1>6, AuditKeeps

LEMMA AuditEndKeeps ==
  ASSUME IInv, AuditEnd
  PROVE  IInv'
<1> DEFINE M == audit.expected \ holds[audit.chain]
           U == holds[audit.chain] \ audit.expected
<1>1. /\ audit' = [audit EXCEPT !.phase = "reported", !.missing = M, !.unexpected = U]
      /\ UNCHANGED <<chain, operator, program>>
  BY DEF AuditEnd, Drift
<1>2. audit \in [phase : {"idle", "reading", "reported"}, chain : Chain, expected : SUBSET Key,
                 covered : BOOLEAN, missing : SUBSET Key, unexpected : SUBSET Key]
  BY DEF IInv, AuditInv
<1>3. M \subseteq Key /\ U \subseteq Key
  BY <1>2 DEF IInv, TypeInv, NodeType
<1>4. audit.covered => M \subseteq revoked[audit.chain]
  BY DEF IInv, AuditInv
<1> HIDE DEF M, U
<1>5. /\ audit' \in [phase : {"idle", "reading", "reported"}, chain : Chain, expected : SUBSET Key,
                     covered : BOOLEAN, missing : SUBSET Key, unexpected : SUBSET Key]
      /\ audit'.chain = audit.chain /\ audit'.expected = audit.expected
      /\ audit'.covered = audit.covered /\ audit'.missing = M
  BY <1>1, <1>2, <1>3
<1>6. AuditInv'
  BY <1>1, <1>4, <1>5 DEF IInv, AuditInv, chain, operator
<1> QED BY <1>1, <1>6, AuditKeeps

-----------------------------------------------------------------------------
\* The invariant, and what it implies.

LEMMA InitHolds ==
  ASSUME Init
  PROVE  IInv
<1>1. NodeType
  <2>1. \A c \in Chain : DOMAIN pool[c] = {} /\ pool[c] = << >>
    BY DEF Init
  <2>2. IsFiniteSet({})
    BY FS_EmptySet
  <2>3. PoolType
    BY <2>1, <2>2 DEF PoolType, Init
  <2> QED BY <2>3 DEF Init, NodeType
<1>2. TaskType
  <2>1. cts \in [Name -> Seq(Key)] /\ run \in 0 .. MaxRuns
    BY RelayerAssumption DEF Init
  <2>2. step \in DOMAIN Stages(task)
    BY StageFacts DEF Init
  <2> QED BY <2>1, <2>2 DEF Init, TaskType, Phases
<1>3. RunInv
  <2>1. Behind = {}
    BY DEF Init, Behind
  <2> QED BY <2>1 DEF Init, RunInv, FetchInv, PastInv, WorkInv, AnswerInv
<1>4. \A c \in Chain : Range(mined[c]) = {} /\ holds[c] = {} /\ DOMAIN pool[c] = {}
  BY DEF Init, Range
<1>5. HoldInv
  BY <1>4 DEF HoldInv
<1>6. FundInv
  BY <1>4 DEF Init, FundInv, Chain
<1>7. AuditInv
  BY DEF Init, AuditInv, NoAudit, Chain
<1> QED BY <1>1, <1>2, <1>3, <1>5, <1>6, <1>7 DEF IInv, TypeInv

LEMMA Stutters ==
  ASSUME IInv, UNCHANGED vars
  PROVE  IInv'
BY AuditKeeps DEF vars, AuditInv, IInv, chain, operator

LEMMA NextHolds ==
  ASSUME IInv, [Next]_vars
  PROVE  IInv'
<1>1. Used \subseteq Chain /\ \A n \in DOMAIN Stages(task) : Stages(task)[n].list \in Name
  BY StageFacts DEF IInv, TypeInv, TaskType, Used
<1>2. CASE Start
  BY <1>2, StartKeeps
<1>3. CASE TaskStep
  BY <1>3, FetchFirstKeeps, FetchKeeps, ReadNonceKeeps, SettledKeeps, WaitKeeps DEF TaskStep
<1>4. CASE Crash
  BY <1>4, CrashKeeps
<1>5. CASE \E f \in flying : Arrive(f) \/ \E seen \in BOOLEAN : SendFails(f, seen)
  BY <1>5, ArriveKeeps
<1>6. CASE \E c \in Used : Mine(c) \/ ForeignSend(c)
  BY <1>1, <1>6, MineKeeps, ForeignSendKeeps
<1>7. CASE \E l \in {Stages(task)[n].list : n \in DOMAIN Stages(task)}, key \in Spare :
             \E i \in DOMAIN cts[l] : Rotate(l, i, key)
  BY <1>1, <1>7, RotateKeeps
<1>8. CASE \E c \in Used, key \in Key : Revoke(c, key)
  BY <1>1, <1>8, RevokeKeeps
<1>9. CASE \E c \in Used : AuditBegin(c)
  BY <1>9, AuditBeginKeeps
<1>10. CASE AuditEnd
  BY <1>10, AuditEndKeeps
<1>11. CASE UNCHANGED vars
  BY <1>11, Stutters
<1> QED BY <1>2, <1>3, <1>4, <1>5, <1>6, <1>7, <1>8, <1>9, <1>10, <1>11 DEF Next

\* The invariant of the tasks, the chains and the audit holds in every
\* reachable state of RelayerAuthorization, for any lists, runs and upsets.
THEOREM Invariant == Spec => []IInv
<1>1. Init => IInv
  BY InitHolds
<1>2. IInv /\ [Next]_vars => IInv'
  BY NextHolds
<1> QED BY <1>1, <1>2, PTL DEF Spec

LEMMA FundsOnPublic ==
  ASSUME NEW t \in Task, NEW i \in DOMAIN Stages(t), Stages(t)[i].kind = "fund"
  PROVE  Stages(t)[i].chain = "pc"
<1>1. t \in {"node", "node_private", "hub"}
  BY RelayerAssumption
<1>2. CASE t = "node"
  <2>1. \A k \in 1 .. 4 : k = 1 \/ k = 2 \/ k = 3 \/ k = 4
    OBVIOUS
  <2> QED BY <1>2, <2>1 DEF Stages, Stage
<1>3. CASE t \in {"node_private", "hub"}
  BY <1>3 DEF Stages, Stage
<1> QED BY <1>1, <1>2, <1>3

\* What a run of add-authorized-relayers (or -pnh) has gone past has happened: collisions, resends,
\* crashes and transactions of others never let it pass over a key
\* (utils/sendWithAllocatedNonces).
THEOREM PassedOverNone == Spec => []StagesBehindHold
<1>1. IInv => StagesBehindHold
  <2> SUFFICES ASSUME IInv, NEW i \in Behind, NEW key \in Range(fetched[Stages(task)[i].list])
               PROVE  IF Stages(task)[i].kind = "fund"
                      THEN \E n \in DOMAIN mined["pc"] :
                             mined["pc"][n] = [run |-> run, job |-> [kind |-> "fund", chain |-> "pc", key |-> key]]
                      ELSE key \in holds[Stages(task)[i].chain] \cup revoked[Stages(task)[i].chain]
    BY DEF StagesBehindHold
  <2>1. i \in DOMAIN Stages(task) /\ task \in Task
    BY StageFacts DEF IInv, TypeInv, TaskType, Behind
  <2>2. Sends(i, key) \in Range(mined[Stages(task)[i].chain])
    BY DEF IInv, RunInv, PastInv, Over
  <2>3. CASE Stages(task)[i].kind = "fund"
    <3>1. Stages(task)[i].chain = "pc"
      BY <2>1, <2>3, FundsOnPublic
    <3>2. Sends(i, key) = [run |-> run, job |-> [kind |-> "fund", chain |-> "pc", key |-> key]]
      BY <2>3, <3>1 DEF Sends
    <3> QED BY <2>2, <2>3, <3>1, <3>2 DEF Range
  <2>4. CASE Stages(task)[i].kind # "fund"
    <3>1. Stages(task)[i].kind = "grant" /\ Stages(task)[i].chain \in Chain
      BY <2>1, <2>4, StageFacts DEF Kinds
    <3>2. Sends(i, key).job.kind = "grant" /\ Sends(i, key).job.key = key
      BY <3>1 DEF Sends
    <3> QED BY <2>2, <2>4, <3>1, <3>2 DEF IInv, HoldInv
  <2> QED BY <2>3, <2>4
<1> QED BY <1>1, Invariant, PTL

\* A key that holds RELAYER on the public chain has been funded there, in
\* whichever run, whatever failed (add-authorized-relayers funds first).
THEOREM HoldersAreFunded == Spec => []FundedBeforeRelaying
<1>1. IInv => FundedBeforeRelaying
  <2> SUFFICES ASSUME IInv, NEW key \in holds["pc"]
               PROVE  \E n \in DOMAIN mined["pc"] :
                        mined["pc"][n].job = [kind |-> "fund", chain |-> "pc", key |-> key]
    BY DEF FundedBeforeRelaying
  <2>1. Funded(key)
    BY DEF IInv, FundInv
  <2> QED BY <2>1 DEF Funded, Range
<1> QED BY <1>1, Invariant, PTL

\* The audit of the relayers, of a chain whose task is done with the lists the
\* audit has read, misses only keys that the operator has revoked (check-roles).
THEOREM AuditMissesRevoked == Spec => []MissingIsRevoked
<1>1. IInv => MissingIsRevoked
  BY DEF IInv, AuditInv, MissingIsRevoked
<1> QED BY <1>1, Invariant, PTL

-----------------------------------------------------------------------------
(***************************************************************************)
(* No transaction twice.  If the first lists of CTS name every key once, a *)
(* run sends a job again only when the transaction is nowhere: neither in  *)
(* the chain, nor in the pool, nor in flight.                              *)
(***************************************************************************)

\* Every key stands in one place of the lists.
OnceOnly(lists) ==
  \A l, k \in DOMAIN lists : \A i \in DOMAIN lists[l], j \in DOMAIN lists[k] :
    lists[l][i] = lists[k][j] => l = k /\ i = j
KeysDiffer == OnceOnly(List0)

\* What the run has read is advertised still, or has been rotated out for good.
ListInv ==
  /\ OnceOnly(cts) /\ OnceOnly(fetched)
  /\ \A l \in Name : Range(cts[l]) \cap retired = {}
  /\ \A l \in DOMAIN fetched : Range(fetched[l]) \subseteq Range(cts[l]) \cup retired

\* The account's transactions on a chain by nonce, mined or in the pool.
Ledger(c) == [n \in (0 .. (Len(mined[c]) - 1)) \cup DOMAIN pool[c] |->
                IF n < Len(mined[c]) THEN mined[c][n + 1] ELSE pool[c][n]]
PoolAhead == \A c \in Chain : \A n \in DOMAIN pool[c] : n >= Len(mined[c])

\* A transaction is in one place.
PlaceInv ==
  /\ PoolAhead
  /\ \A c \in Chain : \A m, n \in DOMAIN Ledger(c) :
       (m # n /\ Ledger(c)[m].run # 0) => Ledger(c)[m] # Ledger(c)[n]
  /\ \A f \in flying : \A c \in Chain : \A n \in DOMAIN Ledger(c) : f.tx # Ledger(c)[n]
  /\ \A f, g \in flying : f.tx = g.tx => f = g

\* The jobs of the stages that the run has entered, but those still to be sent.
Entered(i, j) ==
  /\ j.kind = Stages(task)[i].kind /\ j.chain = Stages(task)[i].chain
  /\ Stages(task)[i].list \in DOMAIN fetched /\ j.key \in Range(fetched[Stages(task)[i].list])
  /\ i <= step /\ (phase = "fetch" => i < step)
Waits(j) == \/ phase = "read" /\ j \in Range(outstanding)
            \/ phase \in {"sending", "waiting"} /\ j \in Having("collided")
MaySent(j) == (\E i \in DOMAIN Stages(task) : Entered(i, j)) /\ ~Waits(j)

\* The run knows of its transactions.
Known(tx) == tx.run <= run /\ ((run # 0 /\ tx.run = run) => MaySent(tx.job))
SentInv ==
  /\ \A c \in Chain : \A tx \in Range(Ledger(c)) : Known(tx)
  /\ \A f \in flying : f.tx.run # 0 /\ Known(f.tx)

\* A run under way has a number, and no job twice to send.
JobInv == /\ run = 0 => phase = "idle"
          /\ phase = "read" => \A m, n \in DOMAIN outstanding :
                                 outstanding[m] = outstanding[n] => m = n

OnceInv == ListInv /\ PlaceInv /\ SentInv /\ JobInv

LEMMA StagesDiffer ==
  ASSUME NEW t \in Task, NEW i \in DOMAIN Stages(t), NEW k \in DOMAIN Stages(t), i # k,
         Stages(t)[i].kind = Stages(t)[k].kind, Stages(t)[i].chain = Stages(t)[k].chain
  PROVE  Stages(t)[i].list # Stages(t)[k].list
<1>1. t \in {"node", "node_private", "hub"}
  BY RelayerAssumption
<1>2. CASE t = "node"
  <2>1. i \in 1 .. 4 /\ k \in 1 .. 4
    BY <1>2 DEF Stages
  <2>2. /\ Stages(t)[1] = Stage("fund", "pc", "public_pc") /\ Stages(t)[2] = Stage("grant", "pn", "public_pn")
        /\ Stages(t)[3] = Stage("grant", "pc", "public_pc") /\ Stages(t)[4] = Stage("grant", "pn", "private")
    BY <1>2 DEF Stages
  <2>3. \A n \in 1 .. 4 : n = 1 \/ n = 2 \/ n = 3 \/ n = 4
    OBVIOUS
  <2> QED BY <2>1, <2>2, <2>3, StageFields
<1>3. CASE t = "node_private"
  BY <1>3 DEF Stages
<1>4. CASE t = "hub"
  BY <1>4 DEF Stages, Stage
<1> QED BY <1>1, <1>2, <1>3, <1>4

LEMMA LedgerFacts ==
  ASSUME NodeType, NEW c \in Chain
  PROVE  /\ Len(mined[c]) \in Nat /\ DOMAIN Ledger(c) = (0 .. (Len(mined[c]) - 1)) \cup DOMAIN pool[c]
         /\ DOMAIN Ledger(c) \subseteq Nat
         /\ \A n \in DOMAIN Ledger(c) :
              /\ Ledger(c)[n] = IF n < Len(mined[c]) THEN mined[c][n + 1] ELSE pool[c][n]
              /\ Ledger(c)[n] \in AllTxs
<1>1. mined[c] \in Seq(AllTxs) /\ Len(mined[c]) \in Nat
  BY DEF NodeType
<1>2. /\ DOMAIN Ledger(c) = (0 .. (Len(mined[c]) - 1)) \cup DOMAIN pool[c]
      /\ \A n \in DOMAIN Ledger(c) : Ledger(c)[n] = IF n < Len(mined[c]) THEN mined[c][n + 1] ELSE pool[c][n]
  BY DEF Ledger
<1>3. DOMAIN pool[c] \subseteq Nat /\ \A n \in DOMAIN pool[c] : pool[c][n] \in AllTxs
  BY DEF NodeType, PoolType
<1>4. ASSUME NEW n \in DOMAIN Ledger(c) PROVE n \in Nat /\ Ledger(c)[n] \in AllTxs
  <2>1. n \in Nat
    BY <1>1, <1>2, <1>3, <1>4
  <2>2. CASE n < Len(mined[c])
    <3>1. n + 1 \in 1 .. Len(mined[c])
      BY <1>1, <2>1, <2>2
    <3>2. mined[c][n + 1] \in AllTxs
      BY <1>1, <3>1
    <3> QED BY <1>2, <1>4, <2>1, <2>2, <3>2
  <2>3. CASE ~(n < Len(mined[c]))
    <3>1. n \in DOMAIN pool[c]
      BY <1>1, <1>2, <1>4, <2>1, <2>3
    <3> QED BY <1>2, <1>3, <2>1, <2>3, <3>1
  <2> QED BY <2>2, <2>3, <2>1
<1> QED BY <1>1, <1>2, <1>4

\* Mining takes no transaction to another nonce.
LEMMA MineLedger ==
  ASSUME NodeType, NodeType', PoolAhead, NEW c \in Chain, Mine(c)
  PROVE  PoolAhead' /\ \A d \in Chain : Ledger(d)' = Ledger(d)
<1> DEFINE n0 == Len(mined[c])
<1>1. /\ n0 \in DOMAIN pool[c] /\ n0 \in Nat /\ mined[c] \in Seq(AllTxs)
      /\ mined'[c] = Append(mined[c], pool[c][n0])
      /\ DOMAIN pool'[c] = DOMAIN pool[c] \ {n0}
      /\ \A n \in DOMAIN pool[c] \ {n0} : pool'[c][n] = pool[c][n]
      /\ \A d \in Chain : d # c => mined'[d] = mined[d] /\ pool'[d] = pool[d]
  BY DEF Mine, NodeType, PoolType
<1>2. /\ Len(mined'[c]) = n0 + 1 /\ mined'[c][n0 + 1] = pool[c][n0]
      /\ \A i \in 1 .. n0 : mined'[c][i] = mined[c][i]
  BY <1>1
<1>3. DOMAIN pool[c] \subseteq Nat /\ \A n \in DOMAIN pool[c] : n >= n0
  BY DEF NodeType, PoolType, PoolAhead
<1> HIDE DEF n0
<1>4. PoolAhead'
  <2> SUFFICES ASSUME NEW d \in Chain, NEW n \in DOMAIN pool'[d] PROVE n >= Len(mined'[d])
    BY DEF PoolAhead
  <2>1. CASE d = c
    <3>1. n \in Nat /\ n >= n0 /\ n # n0
      BY <1>1, <1>3, <2>1
    <3> QED BY <1>1, <1>2, <2>1, <3>1
  <2>2. CASE d # c
    BY <1>1, <2>2 DEF PoolAhead
  <2> QED BY <2>1, <2>2
<1>5. Ledger(c)' = Ledger(c)
  <2>1. 0 .. (Len(mined'[c]) - 1) = (0 .. (n0 - 1)) \cup {n0}
    <3>1. \A x \in Nat : 0 .. ((x + 1) - 1) = (0 .. (x - 1)) \cup {x}
      OBVIOUS
    <3> QED BY <1>1, <1>2, <3>1
  <2>2. (0 .. (Len(mined'[c]) - 1)) \cup DOMAIN pool'[c] = (0 .. (Len(mined[c]) - 1)) \cup DOMAIN pool[c]
    BY <1>1, <2>1 DEF n0
  <2>3. ASSUME NEW n \in (0 .. (Len(mined[c]) - 1)) \cup DOMAIN pool[c]
        PROVE  (IF n < Len(mined'[c]) THEN mined'[c][n + 1] ELSE pool'[c][n])
               = (IF n < Len(mined[c]) THEN mined[c][n + 1] ELSE pool[c][n])
    <3>1. n \in Nat /\ (n < n0 \/ n \in DOMAIN pool[c]) /\ n0 = Len(mined[c])
      BY <1>1, <1>3 DEF n0
    <3>2. CASE n < n0
      <4>1. n + 1 \in 1 .. n0 /\ n < Len(mined'[c])
        BY <1>1, <1>2, <3>1, <3>2
      <4> QED BY <1>2, <3>1, <3>2, <4>1
    <3>3. CASE n = n0
      <4>1. ~(n < n0) /\ n < Len(mined'[c])
        BY <1>1, <1>2, <3>3
      <4> QED BY <1>2, <3>1, <3>3, <4>1
    <3>4. CASE n > n0
      <4>1. ~(n < n0) /\ ~(n < Len(mined'[c])) /\ n \in DOMAIN pool[c] \ {n0}
        BY <1>1, <1>2, <3>1, <3>4
      <4> QED BY <1>1, <3>1, <4>1
    <3> QED BY <1>1, <3>1, <3>2, <3>3, <3>4
  <2> QED BY <2>2, <2>3 DEF Ledger
<1>6. ASSUME NEW d \in Chain, d # c PROVE Ledger(d)' = Ledger(d)
  BY <1>1, <1>6 DEF Ledger
<1> QED BY <1>4, <1>5, <1>6

\* A transaction gets into the pool at a nonce that is not mined.
LEMMA PooledLedger ==
  ASSUME NodeType, NodeType', PoolAhead, NEW c \in Chain, NEW nonce \in Nat, NEW tx \in AllTxs,
         ~Taken(c, nonce), mined' = mined, pool' = Pooled(c, nonce, tx)
  PROVE  /\ PoolAhead'
         /\ \A d \in Chain : d # c => Ledger(d)' = Ledger(d)
         /\ DOMAIN Ledger(c)' = DOMAIN Ledger(c) \cup {nonce} /\ Ledger(c)'[nonce] = tx
         /\ \A n \in DOMAIN Ledger(c) : n # nonce => Ledger(c)'[n] = Ledger(c)[n]
<1>1. Len(mined[c]) \in Nat /\ ~(nonce < Len(mined[c]))
  BY LedgerFacts DEF Taken
<1>2. /\ DOMAIN pool'[c] = DOMAIN pool[c] \cup {nonce} /\ pool'[c][nonce] = tx
      /\ \A n \in DOMAIN pool[c] : n # nonce => pool'[c][n] = pool[c][n]
      /\ \A d \in Chain : d # c => pool'[d] = pool[d]
  BY DEF Pooled, NodeType, PoolType
<1>3. PoolAhead'
  <2> SUFFICES ASSUME NEW d \in Chain, NEW n \in DOMAIN pool'[d] PROVE n >= Len(mined[d])
    BY DEF PoolAhead
  <2>1. CASE n \in DOMAIN pool[d]
    BY <2>1 DEF PoolAhead
  <2>2. CASE n \notin DOMAIN pool[d]
    <3>1. d = c /\ n = nonce
      BY <1>2, <2>2
    <3> QED BY <1>1, <3>1
  <2> QED BY <2>1, <2>2
<1>4. ASSUME NEW d \in Chain, d # c PROVE Ledger(d)' = Ledger(d)
  BY <1>2, <1>4 DEF Ledger
<1>5. DOMAIN Ledger(c)' = DOMAIN Ledger(c) \cup {nonce}
  BY <1>2 DEF Ledger
<1>6. \A n \in DOMAIN Ledger(c)' : Ledger(c)'[n] = IF n < Len(mined[c]) THEN mined[c][n + 1] ELSE pool'[c][n]
  BY DEF Ledger
<1>7. Ledger(c)'[nonce] = tx
  BY <1>1, <1>2, <1>5, <1>6
<1>8. ASSUME NEW n \in DOMAIN Ledger(c), n # nonce PROVE Ledger(c)'[n] = Ledger(c)[n]
  <2>1. Ledger(c)'[n] = IF n < Len(mined[c]) THEN mined[c][n + 1] ELSE pool'[c][n]
    BY <1>5, <1>6
  <2>2. n < Len(mined[c]) \/ n \in DOMAIN pool[c]
    <3>1. n \in (0 .. (Len(mined[c]) - 1)) \cup DOMAIN pool[c]
      BY <1>8, LedgerFacts
    <3> QED BY <1>1, <3>1
  <2>3. Ledger(c)[n] = IF n < Len(mined[c]) THEN mined[c][n + 1] ELSE pool[c][n]
    BY LedgerFacts
  <2> QED BY <1>2, <1>8, <2>1, <2>2, <2>3
<1> QED BY <1>3, <1>4, <1>5, <1>7, <1>8

-----------------------------------------------------------------------------
\* The steps of the node keep the invariant.

LEMMA TxRecord ==
  ASSUME NEW tx \in AllTxs
  PROVE  tx = [run |-> tx.run, job |-> tx.job] /\ tx.job \in AllJobs /\ tx.run \in Nat
BY RelayerAssumption DEF AllTxs

LEMMA FlyingType ==
  ASSUME NodeType, NEW f \in flying
  PROVE  f.nonce \in Nat /\ f.tx \in AllTxs /\ f.tx.job.chain \in Chain
BY DEF NodeType, AllTxs, AllJobs, Jobs, Kinds

\* A step that sends nothing and moves nothing.
LEMMA PlacesKept ==
  ASSUME OnceInv, PoolAhead', \A c \in Chain : Ledger(c)' = Ledger(c), flying' = flying
  PROVE  PlaceInv'
<1>1. /\ \A c \in Chain : \A m, n \in DOMAIN Ledger(c) :
           (m # n /\ Ledger(c)[m].run # 0) => Ledger(c)[m] # Ledger(c)[n]
      /\ \A f \in flying : \A c \in Chain : \A n \in DOMAIN Ledger(c) : f.tx # Ledger(c)[n]
      /\ \A f, g \in flying : f.tx = g.tx => f = g
  BY DEF OnceInv, PlaceInv
<1> HIDE DEF Ledger
<1> QED BY <1>1 DEF PlaceInv

LEMMA SentKept ==
  ASSUME OnceInv, NodeType, \A c \in Chain : Ledger(c)' = Ledger(c), flying' = flying,
         \A tx \in AllTxs : Known(tx) => Known(tx)'
  PROVE  SentInv'
<1>1. ASSUME NEW c \in Chain, NEW tx \in Range(Ledger(c)')
      PROVE  Known(tx)'
  <2>1. tx \in Range(Ledger(c))
    BY <1>1
  <2>2. Known(tx) /\ tx \in AllTxs
    BY <2>1, LedgerFacts DEF OnceInv, SentInv, Range
  <2> QED BY <2>2
<1>2. \A f \in flying : f.tx.run # 0 /\ Known(f.tx)'
  BY FlyingType DEF OnceInv, SentInv
<1> QED BY <1>1, <1>2 DEF SentInv

LEMMA SameLists ==
  ASSUME OnceInv, UNCHANGED <<cts, retired, fetched>>
  PROVE  ListInv'
BY DEF OnceInv, ListInv, OnceOnly

LEMMA SameProgram ==
  ASSUME OnceInv, NodeType, PoolAhead', \A c \in Chain : Ledger(c)' = Ledger(c),
         UNCHANGED <<flying, cts, retired, program>>
  PROVE  OnceInv'
<1>1. UNCHANGED <<run, task, phase, fetched, step, outstanding, answer>>
  BY DEF program, stage
<1>2. \A tx \in AllTxs : Known(tx) => Known(tx)'
  BY <1>1 DEF Known, MaySent, Entered, Waits, Having
<1>3. PlaceInv' /\ SentInv' /\ ListInv'
  BY <1>1, <1>2, PlacesKept, SentKept, SameLists
<1>4. JobInv'
  BY <1>1 DEF OnceInv, JobInv
<1> QED BY <1>3, <1>4 DEF OnceInv

\* An answer takes away no job but that of a request that collided.
LEMMA AnsweredKnown ==
  ASSUME UNCHANGED <<run, task, phase, fetched, step, outstanding>>,
         NEW f, NEW what, answer' = Answered(f, what),
         NEW tx \in AllTxs, Known(tx), what # "collided" \/ tx.job # f.tx.job \/ f.tx.run # run
  PROVE  Known(tx)'
<1>1. \A i \in DOMAIN Stages(task) : Entered(i, tx.job)' <=> Entered(i, tx.job)
  BY DEF Entered
<1>2. ASSUME Waits(tx.job)' PROVE Waits(tx.job)
  <2>1. CASE phase = "read"
    BY <1>2, <2>1 DEF Waits
  <2>2. CASE phase \in {"sending", "waiting"} /\ tx.job \in Having("collided")'
    <3>1. CASE phase = "sending" /\ f.tx.run = run
      <4>1. answer' = [answer EXCEPT ![f.tx.job] = what]
        BY <3>1 DEF Answered
      <4>2. tx.job \in DOMAIN answer /\ answer'[tx.job] = "collided"
        BY <2>2, <4>1 DEF Having
      <4>3. answer'[tx.job] = answer[tx.job]
        BY <3>1, <4>1, <4>2
      <4> QED BY <2>2, <4>2, <4>3 DEF Waits, Having
    <3>2. CASE ~(phase = "sending" /\ f.tx.run = run)
      BY <2>2, <3>2 DEF Answered, Waits, Having
    <3> QED BY <3>1, <3>2
  <2> QED BY <1>2, <2>1, <2>2 DEF Waits
<1> QED BY <1>1, <1>2 DEF Known, MaySent

\* A request arrives, and is in flight no more: it is in the pool, or nowhere.
LEMMA LandOnce ==
  ASSUME IInv, OnceInv, NodeType', NEW f \in flying, flying' = flying \ {f}, mined' = mined,
         NEW what, answer' = Answered(f, what),
         \/ pool' = pool
         \/ /\ what # "collided" /\ ~Taken(f.tx.job.chain, f.nonce)
            /\ pool' = Pooled(f.tx.job.chain, f.nonce, f.tx),
         UNCHANGED <<run, task, phase, fetched, step, outstanding, cts, retired>>
  PROVE  OnceInv'
<1>1. f.nonce \in Nat /\ f.tx \in AllTxs /\ f.tx.job.chain \in Chain /\ NodeType
  BY FlyingType DEF IInv, TypeInv
<1>0. PICK c0 \in Chain : c0 = f.tx.job.chain
  BY <1>1
<1>2. /\ PoolAhead
      /\ \A c \in Chain : \A m, n \in DOMAIN Ledger(c) :
           (m # n /\ Ledger(c)[m].run # 0) => Ledger(c)[m] # Ledger(c)[n]
      /\ \A g \in flying : \A c \in Chain : \A n \in DOMAIN Ledger(c) : g.tx # Ledger(c)[n]
      /\ \A g, h \in flying : g.tx = h.tx => g = h
  BY DEF OnceInv, PlaceInv
<1>3. /\ \A c \in Chain : \A tx \in Range(Ledger(c)) : Known(tx)
      /\ \A g \in flying : g.tx.run # 0 /\ Known(g.tx)
  BY DEF OnceInv, SentInv
<1>4. /\ PoolAhead'
      /\ \A c \in Chain : \A n \in DOMAIN Ledger(c)' :
           \/ n \in DOMAIN Ledger(c) /\ Ledger(c)'[n] = Ledger(c)[n]
           \/ c = c0 /\ n = f.nonce /\ Ledger(c)'[n] = f.tx /\ what # "collided"
  <2>1. CASE pool' = pool
    <3>1. PoolAhead' /\ \A c \in Chain : Ledger(c)' = Ledger(c)
      BY <1>2, <2>1 DEF PoolAhead, Ledger
    <3> QED BY <3>1
  <2>2. CASE /\ what # "collided" /\ ~Taken(c0, f.nonce)
             /\ pool' = Pooled(c0, f.nonce, f.tx)
    <3>1. /\ PoolAhead'
          /\ \A d \in Chain : d # c0 => Ledger(d)' = Ledger(d)
          /\ DOMAIN Ledger(c0)' = DOMAIN Ledger(c0) \cup {f.nonce} /\ Ledger(c0)'[f.nonce] = f.tx
          /\ \A n \in DOMAIN Ledger(c0) : n # f.nonce => Ledger(c0)'[n] = Ledger(c0)[n]
      <4>1. PICK nonce \in Nat, tx \in AllTxs : nonce = f.nonce /\ tx = f.tx
        BY <1>1
      <4>2. ~Taken(c0, nonce) /\ pool' = Pooled(c0, nonce, tx)
        BY <2>2, <4>1
      <4>3. /\ PoolAhead'
            /\ \A d \in Chain : d # c0 => Ledger(d)' = Ledger(d)
            /\ DOMAIN Ledger(c0)' = DOMAIN Ledger(c0) \cup {nonce} /\ Ledger(c0)'[nonce] = tx
            /\ \A n \in DOMAIN Ledger(c0) : n # nonce => Ledger(c0)'[n] = Ledger(c0)[n]
        BY <1>1, <1>2, <4>2, PooledLedger
      <4> QED BY <4>1, <4>3
    <3> QED BY <2>2, <3>1
  <2> QED BY <1>0, <2>1, <2>2
<1>5. PlaceInv'
  <2>1. ASSUME NEW c \in Chain, NEW m \in DOMAIN Ledger(c)', NEW n \in DOMAIN Ledger(c)', m # n,
               Ledger(c)'[m].run # 0
        PROVE  Ledger(c)'[m] # Ledger(c)'[n]
    <3>1. \/ m \in DOMAIN Ledger(c) /\ Ledger(c)'[m] = Ledger(c)[m]
          \/ m = f.nonce /\ Ledger(c)'[m] = f.tx
      BY <1>4, <2>1
    <3>2. \/ n \in DOMAIN Ledger(c) /\ Ledger(c)'[n] = Ledger(c)[n]
          \/ n = f.nonce /\ Ledger(c)'[n] = f.tx
      BY <1>4, <2>1
    <3> QED BY <1>2, <2>1, <3>1, <3>2
  <2>2. ASSUME NEW g \in flying', NEW c \in Chain, NEW n \in DOMAIN Ledger(c)'
        PROVE  g.tx # Ledger(c)'[n]
    <3>1. g \in flying /\ g.tx # f.tx
      BY <1>2, <2>2
    <3> QED BY <1>2, <1>4, <2>2, <3>1
  <2> QED BY <1>2, <1>4, <2>1, <2>2 DEF PlaceInv
<1>6. SentInv'
  <2>1. \A tx \in AllTxs : (Known(tx) /\ (tx # f.tx \/ what # "collided")) => Known(tx)'
    <3> SUFFICES ASSUME NEW tx \in AllTxs, Known(tx), tx # f.tx \/ what # "collided" PROVE Known(tx)'
      OBVIOUS
    <3>1. CASE what # "collided" \/ tx.job # f.tx.job \/ f.tx.run # run
      BY <3>1, AnsweredKnown
    <3>2. CASE tx.run # run
      BY <3>2 DEF Known
    <3>3. CASE what = "collided" /\ tx.job = f.tx.job /\ f.tx.run = run /\ tx.run = run
      BY <1>1, <3>3, TxRecord
    <3> QED BY <3>1, <3>2, <3>3
  <2>2. ASSUME NEW c \in Chain, NEW tx \in Range(Ledger(c)') PROVE Known(tx)'
    <3>1. CASE tx \in Range(Ledger(c))
      <4>1. PICK n \in DOMAIN Ledger(c) : tx = Ledger(c)[n]
        BY <3>1 DEF Range
      <4>2. tx \in AllTxs /\ tx # f.tx
        BY <1>1, <1>2, <4>1, LedgerFacts
      <4> QED BY <1>3, <2>1, <3>1, <4>2
    <3>2. CASE tx = f.tx /\ what # "collided"
      BY <1>1, <1>3, <2>1, <3>2
    <3>3. tx \in Range(Ledger(c)) \/ (tx = f.tx /\ what # "collided")
      BY <1>4, <2>2 DEF Range
    <3> QED BY <3>1, <3>2, <3>3
  <2>3. ASSUME NEW g \in flying' PROVE g.tx.run # 0 /\ Known(g.tx)'
    <3>1. g \in flying /\ g.tx # f.tx /\ g.tx \in AllTxs
      BY <1>1, <1>2, <2>3, FlyingType
    <3> QED BY <1>3, <2>1, <3>1
  <2> QED BY <2>2, <2>3 DEF SentInv
<1>7. ListInv' /\ JobInv'
  BY SameLists DEF OnceInv, JobInv
<1> QED BY <1>5, <1>6, <1>7 DEF OnceInv

LEMMA ArriveOnce ==
  ASSUME IInv, OnceInv, NodeType', NEW f \in flying, Arrive(f) \/ \E seen \in BOOLEAN : SendFails(f, seen)
  PROVE  OnceInv'
<1>1. /\ flying' = flying \ {f} /\ mined' = mined
      /\ UNCHANGED <<run, task, phase, fetched, step, outstanding, cts, retired>>
  BY DEF Arrive, SendFails, operator
<1>2. CASE Arrive(f) /\ Taken(f.tx.job.chain, f.nonce)
  <2>1. answer' = Answered(f, "collided") /\ pool' = pool
    BY <1>2 DEF Arrive
  <2> QED BY <1>1, <2>1, LandOnce
<1>3. CASE Arrive(f) /\ ~Taken(f.tx.job.chain, f.nonce)
  <2>1. answer' = Answered(f, "accepted") /\ pool' = Pooled(f.tx.job.chain, f.nonce, f.tx)
    BY <1>3 DEF Arrive
  <2> QED BY <1>1, <1>3, <2>1, LandOnce
<1>4. CASE \E seen \in BOOLEAN : SendFails(f, seen)
  <2>1. /\ answer' = Answered(f, "failed")
        /\ \/ pool' = pool
           \/ ~Taken(f.tx.job.chain, f.nonce) /\ pool' = Pooled(f.tx.job.chain, f.nonce, f.tx)
    BY <1>4 DEF SendFails
  <2> QED BY <1>1, <2>1, LandOnce
<1> QED BY <1>2, <1>3, <1>4

LEMMA MineOnce ==
  ASSUME IInv, OnceInv, NodeType', NEW c \in Chain, Mine(c)
  PROVE  OnceInv'
<1>1. NodeType /\ PoolAhead
  BY DEF IInv, TypeInv, OnceInv, PlaceInv
<1>2. PoolAhead' /\ \A d \in Chain : Ledger(d)' = Ledger(d)
  BY <1>1, MineLedger
<1>3. UNCHANGED <<flying, cts, retired, program>>
  BY DEF Mine, operator
<1> QED BY <1>1, <1>2, <1>3, SameProgram

LEMMA ForeignOnce ==
  ASSUME IInv, OnceInv, NodeType', NEW c \in Chain, ForeignSend(c)
  PROVE  OnceInv'
<1> DEFINE nonce == PendingNonce(c)
           tx == [run |-> 0, job |-> NoJob]
<1>1. NodeType /\ nonce \in Nat /\ tx \in AllTxs
  BY NonceFacts, RelayerAssumption DEF IInv, TypeInv, AllTxs, AllJobs
<1>2. /\ ~Taken(c, nonce) /\ mined' = mined /\ pool' = Pooled(c, nonce, tx)
      /\ UNCHANGED <<flying, cts, retired, program>>
  BY DEF ForeignSend, operator
<1>3. UNCHANGED <<flying, cts, retired, run, task, phase, fetched, step, outstanding, answer>>
  BY <1>2 DEF program, stage
<1>4. tx.run = 0
  OBVIOUS
<1> HIDE DEF nonce, tx
<1>5. /\ PoolAhead
      /\ \A d \in Chain : \A m, n \in DOMAIN Ledger(d) :
           (m # n /\ Ledger(d)[m].run # 0) => Ledger(d)[m] # Ledger(d)[n]
      /\ \A f \in flying : \A d \in Chain : \A n \in DOMAIN Ledger(d) : f.tx # Ledger(d)[n]
      /\ \A f, g \in flying : f.tx = g.tx => f = g
  BY DEF OnceInv, PlaceInv
<1>6. /\ \A d \in Chain : \A x \in Range(Ledger(d)) : Known(x)
      /\ \A f \in flying : f.tx.run # 0 /\ Known(f.tx)
  BY DEF OnceInv, SentInv
<1>7. /\ PoolAhead'
      /\ \A d \in Chain : \A n \in DOMAIN Ledger(d)' :
           \/ n \in DOMAIN Ledger(d) /\ Ledger(d)'[n] = Ledger(d)[n]
           \/ n = nonce /\ Ledger(d)'[n] = tx
  <2>1. /\ PoolAhead'
        /\ \A d \in Chain : d # c => Ledger(d)' = Ledger(d)
        /\ DOMAIN Ledger(c)' = DOMAIN Ledger(c) \cup {nonce} /\ Ledger(c)'[nonce] = tx
        /\ \A n \in DOMAIN Ledger(c) : n # nonce => Ledger(c)'[n] = Ledger(c)[n]
    BY <1>1, <1>2, <1>5, PooledLedger
  <2> QED BY <2>1
<1>8. PlaceInv'
  <2>1. ASSUME NEW d \in Chain, NEW m \in DOMAIN Ledger(d)', NEW n \in DOMAIN Ledger(d)', m # n,
               Ledger(d)'[m].run # 0
        PROVE  Ledger(d)'[m] # Ledger(d)'[n]
    <3>1. m \in DOMAIN Ledger(d) /\ Ledger(d)'[m] = Ledger(d)[m]
      BY <1>4, <1>7, <2>1
    <3>2. \/ n \in DOMAIN Ledger(d) /\ Ledger(d)'[n] = Ledger(d)[n]
          \/ Ledger(d)'[n] = tx
      BY <1>7, <2>1
    <3> QED BY <1>4, <1>5, <2>1, <3>1, <3>2
  <2>2. ASSUME NEW f \in flying, NEW d \in Chain, NEW n \in DOMAIN Ledger(d)'
        PROVE  f.tx # Ledger(d)'[n]
    BY <1>4, <1>5, <1>6, <1>7, <2>2
  <2> QED BY <1>3, <1>5, <1>7, <2>1, <2>2 DEF PlaceInv
<1>9. SentInv'
  <2>1. \A x : Known(x) => Known(x)'
    BY <1>3 DEF Known, MaySent, Entered, Waits, Having
  <2>2. Known(tx)
    BY <1>4, RelayerAssumption DEF Known, IInv, TypeInv, TaskType
  <2>3. ASSUME NEW d \in Chain, NEW x \in Range(Ledger(d)') PROVE Known(x)'
    <3>1. x \in Range(Ledger(d)) \/ x = tx
      BY <1>7, <2>3 DEF Range
    <3> QED BY <1>6, <2>1, <2>2, <3>1
  <2>4. \A f \in flying : f.tx.run # 0 /\ Known(f.tx)'
    BY <1>6, <2>1
  <2> QED BY <1>3, <2>3, <2>4 DEF SentInv
<1>10. ListInv' /\ JobInv'
  BY <1>3, SameLists DEF OnceInv, JobInv
<1> QED BY <1>8, <1>9, <1>10 DEF OnceInv

-----------------------------------------------------------------------------
\* The steps of the task keep it: what they send is nowhere before.

\* A step of the task that touches no chain and no list of CTS.
LEMMA TaskOnce ==
  ASSUME IInv, OnceInv, UNCHANGED <<mined, pool, flying, cts, retired>>,
         OnceOnly(fetched'), JobInv',
         \A l \in DOMAIN fetched' : Range(fetched'[l]) \subseteq Range(cts[l]) \cup retired,
         \A tx \in AllTxs : Known(tx) => Known(tx)'
  PROVE  OnceInv'
<1>1. PoolAhead' /\ \A c \in Chain : Ledger(c)' = Ledger(c)
  BY DEF OnceInv, PlaceInv, PoolAhead, Ledger
<1>2. PlaceInv'
  BY <1>1, PlacesKept
<1>3. SentInv'
  BY <1>1, SentKept DEF IInv, TypeInv
<1>4. ListInv'
  BY DEF OnceInv, ListInv, OnceOnly
<1> QED BY <1>2, <1>3, <1>4 DEF OnceInv

\* The lists of two stages that send the same have no key in common.
LEMMA OtherStages ==
  ASSUME NEW lists, OnceOnly(lists), task \in Task,
         NEW i \in DOMAIN Stages(task), NEW k \in DOMAIN Stages(task), i # k,
         Stages(task)[i].kind = Stages(task)[k].kind, Stages(task)[i].chain = Stages(task)[k].chain,
         Stages(task)[i].list \in DOMAIN lists, Stages(task)[k].list \in DOMAIN lists,
         NEW key \in Range(lists[Stages(task)[i].list])
  PROVE  key \notin Range(lists[Stages(task)[k].list])
<1>1. Stages(task)[i].list # Stages(task)[k].list
  BY StagesDiffer
<1> QED BY <1>1 DEF OnceOnly, Range

LEMMA StartOnce ==
  ASSUME IInv, OnceInv, Start
  PROVE  OnceInv'
<1>1. /\ run' = run + 1 /\ phase' = "fetch" /\ fetched' = [l \in {} |-> << >>]
      /\ UNCHANGED <<chain, operator, task>>
  BY DEF Start
<1>2. run \in Nat
  BY RelayerAssumption DEF IInv, TypeInv, TaskType
<1>3. \A tx \in AllTxs : Known(tx) => Known(tx)'
  BY <1>1, <1>2, TxRecord DEF Known
<1>4. OnceOnly(fetched') /\ DOMAIN fetched' = {}
  BY <1>1 DEF OnceOnly
<1>5. JobInv'
  BY <1>1, <1>2 DEF JobInv
<1> QED BY <1>1, <1>3, <1>4, <1>5, TaskOnce DEF chain, operator

\* A step that ends a run, or leaves its jobs in place.
LEMMA FailOnce ==
  ASSUME IInv, OnceInv, phase # "idle", UNCHANGED <<mined, pool, flying, cts, retired, run, task, fetched, step>>,
         \/ phase' = "failed"
         \/ phase = "sending" /\ phase' = "waiting" /\ answer' = answer
  PROVE  OnceInv'
<1>1. ASSUME NEW tx \in AllTxs, Known(tx) PROVE Known(tx)'
  <2>1. \A i \in DOMAIN Stages(task) : Entered(i, tx.job) => Entered(i, tx.job)'
    BY DEF Entered
  <2>2. Waits(tx.job)' => Waits(tx.job)
    BY DEF Waits, Having
  <2> QED BY <1>1, <2>1, <2>2 DEF Known, MaySent
<1>2. OnceOnly(fetched') /\ \A l \in DOMAIN fetched' : Range(fetched'[l]) \subseteq Range(cts[l]) \cup retired
  BY DEF OnceInv, ListInv
<1>3. JobInv'
  BY DEF OnceInv, JobInv
<1> QED BY <1>1, <1>2, <1>3, TaskOnce

LEMMA FetchFirstOnce ==
  ASSUME IInv, OnceInv, NEW ok \in BOOLEAN, FetchFirst(ok)
  PROVE  OnceInv'
<1>1. /\ phase = "fetch" /\ phase' = IF ok THEN "fetch" ELSE "failed"
      /\ First(task) # {} /\ UNCHANGED <<chain, operator, run, task, step, outstanding>>
      /\ fetched' = IF ok THEN [l \in First(task) |-> cts[l]] ELSE fetched
  BY DEF FetchFirst, stage
<1>2. /\ task \in Task /\ First(task) \subseteq Name /\ DOMAIN cts = Name
      /\ DOMAIN Stages(task) = 1 .. Len(Stages(task)) /\ step = 1
  BY <1>1, FetchFacts, StageFacts DEF IInv, TypeInv, TaskType, RunInv, FetchInv
<1>3. CASE ~ok
  BY <1>1, <1>3, FailOnce DEF chain, operator
<1>4. CASE ok
  <2>1. OnceOnly(fetched')
    BY <1>1, <1>2, <1>4 DEF OnceInv, ListInv, OnceOnly
  <2>2. \A l \in DOMAIN fetched' : Range(fetched'[l]) \subseteq Range(cts[l]) \cup retired
    BY <1>1, <1>4
  <2>3. JobInv'
    BY <1>1, <1>4 DEF OnceInv, JobInv
  <2>4. \A j : \A i \in DOMAIN Stages(task) : ~Entered(i, j)
    BY <1>1, <1>2 DEF Entered
  <2>5. \A tx \in AllTxs : Known(tx) => Known(tx)'
    BY <1>1, <2>4 DEF Known, MaySent
  <2> QED BY <1>1, <2>1, <2>2, <2>3, <2>5, TaskOnce DEF chain, operator
<1> QED BY <1>3, <1>4

LEMMA FetchOnce ==
  ASSUME IInv, OnceInv, NEW ok \in BOOLEAN, Fetch(ok)
  PROVE  OnceInv'
<1> DEFINE lists == [l \in DOMAIN fetched \cup Fetches(task, step) |->
                       IF l \in Fetches(task, step) THEN cts[l] ELSE fetched[l]]
<1>1. /\ phase = "fetch" /\ phase' = IF ok THEN "read" ELSE "failed"
      /\ First(task) \subseteq DOMAIN fetched /\ fetched' = IF ok THEN lists ELSE fetched
      /\ outstanding' = IF ok THEN [i \in DOMAIN lists[Now.list] |-> Job(lists[Now.list][i])] ELSE << >>
      /\ UNCHANGED <<chain, operator, run, task, step>>
  BY DEF Fetch
<1>2. CASE ~ok
  BY <1>1, <1>2, FailOnce DEF chain, operator
<1>3. CASE ok
  <2>1. /\ DOMAIN lists = DOMAIN fetched \cup Fetches(task, step)
        /\ \A l \in Fetches(task, step) : lists[l] = cts[l]
        /\ \A l \in DOMAIN fetched : l \notin Fetches(task, step) => lists[l] = fetched[l]
    OBVIOUS
  <2>2. /\ fetched' = lists /\ phase' = "read"
        /\ outstanding' = [i \in DOMAIN lists[Now.list] |-> Job(lists[Now.list][i])]
    BY <1>1, <1>3
  <2> HIDE DEF lists
  <2>3. /\ task \in Task /\ step \in DOMAIN Stages(task) /\ step \in Nat
        /\ DOMAIN Stages(task) = 1 .. Len(Stages(task))
        /\ DOMAIN cts = Name /\ DOMAIN fetched \subseteq Name /\ Fetches(task, step) \subseteq Name
    BY StageFacts, FetchFacts DEF IInv, TypeInv, TaskType
  <2>4. /\ Now.list \in Fetches(task, step)
        /\ \A k \in 1 .. (step - 1) : Stages(task)[k].list \notin Fetches(task, step)
    BY <1>1, <2>3, FetchFacts DEF IInv, RunInv, FetchInv, Now
  <2>5. /\ OnceOnly(cts) /\ OnceOnly(fetched)
        /\ \A l \in Name : Range(cts[l]) \cap retired = {}
        /\ \A l \in DOMAIN fetched : Range(fetched[l]) \subseteq Range(cts[l]) \cup retired
    BY DEF OnceInv, ListInv
  <2>6. OnceOnly(lists)
    <3>1. ASSUME NEW l \in DOMAIN fetched, NEW k \in Name,
                 NEW i \in DOMAIN fetched[l], NEW j \in DOMAIN cts[k], fetched[l][i] = cts[k][j]
          PROVE  l = k
      <4>1. fetched[l][i] \in Range(cts[l]) \cup retired
        BY <2>5 DEF Range
      <4>2. fetched[l][i] \in Range(cts[k])
        BY <3>1 DEF Range
      <4>3. PICK n \in DOMAIN cts[l] : cts[l][n] = fetched[l][i]
        BY <2>5, <4>1, <4>2 DEF Range
      <4> QED BY <2>3, <2>5, <3>1, <4>3 DEF OnceOnly
    <3>2. ASSUME NEW l \in DOMAIN lists, NEW k \in DOMAIN lists,
                 NEW i \in DOMAIN lists[l], NEW j \in DOMAIN lists[k], lists[l][i] = lists[k][j]
          PROVE  l = k /\ i = j
      <4>1. CASE l \in Fetches(task, step) /\ k \in Fetches(task, step)
        BY <2>1, <2>3, <2>5, <3>2, <4>1 DEF OnceOnly
      <4>2. CASE l \notin Fetches(task, step) /\ k \notin Fetches(task, step)
        BY <2>1, <2>5, <3>2, <4>2 DEF OnceOnly
      <4>3. CASE l \notin Fetches(task, step) /\ k \in Fetches(task, step)
        <5>1. l \in DOMAIN fetched /\ lists[l] = fetched[l] /\ lists[k] = cts[k] /\ k \in Name
          BY <2>1, <2>3, <4>3
        <5> QED BY <3>1, <3>2, <4>3, <5>1
      <4>4. CASE l \in Fetches(task, step) /\ k \notin Fetches(task, step)
        <5>1. k \in DOMAIN fetched /\ lists[k] = fetched[k] /\ lists[l] = cts[l] /\ l \in Name
          BY <2>1, <2>3, <4>4
        <5> QED BY <3>1, <3>2, <4>4, <5>1
      <4> QED BY <4>1, <4>2, <4>3, <4>4
    <3> QED BY <3>2 DEF OnceOnly
  <2>7. \A l \in DOMAIN lists : Range(lists[l]) \subseteq Range(cts[l]) \cup retired
    BY <2>1, <2>5
  <2>8. Now.list \in DOMAIN lists
    BY <2>1, <2>4
  <2>9. JobInv'
    <3>1. \A m, n \in DOMAIN lists[Now.list] : lists[Now.list][m] = lists[Now.list][n] => m = n
      BY <2>6, <2>8 DEF OnceOnly
    <3>2. \A m, n \in DOMAIN outstanding' : outstanding'[m] = outstanding'[n] => m = n
      BY <2>2, <3>1 DEF Job
    <3> QED BY <1>1, <3>2 DEF OnceInv, JobInv
  <2>10. ASSUME NEW tx \in AllTxs, Known(tx) PROVE Known(tx)'
    <3> SUFFICES ASSUME run # 0, tx.run = run PROVE MaySent(tx.job)'
      BY <1>1, <2>10 DEF Known
    <3>1. PICK i \in DOMAIN Stages(task) : Entered(i, tx.job)
      BY <2>10 DEF Known, MaySent
    <3>2. i < step /\ Stages(task)[i].list \in DOMAIN fetched /\ tx.job.key \in Range(fetched[Stages(task)[i].list])
      BY <1>1, <3>1 DEF Entered
    <3>3. i \in 1 .. (step - 1)
      BY <2>3, <3>2
    <3>4. Stages(task)[i].list \in DOMAIN lists /\ lists[Stages(task)[i].list] = fetched[Stages(task)[i].list]
      BY <2>1, <2>4, <3>2, <3>3
    <3>5. Entered(i, tx.job)'
      BY <1>1, <2>2, <3>1, <3>4 DEF Entered
    <3>6. tx.job \notin Range(outstanding')
      <4> SUFFICES ASSUME NEW n \in DOMAIN outstanding', tx.job = outstanding'[n] PROVE FALSE
        BY DEF Range
      <4>1. n \in DOMAIN lists[Now.list] /\ tx.job = Job(lists[Now.list][n])
        BY <2>2
      <4>2. tx.job.kind = Now.kind /\ tx.job.chain = Now.chain /\ tx.job.key = lists[Now.list][n]
        BY <4>1 DEF Job
      <4>3. tx.job.key \in Range(lists[Now.list])
        BY <4>1, <4>2 DEF Range
      <4>4. /\ Stages(task)[i].kind = Stages(task)[step].kind /\ Stages(task)[i].chain = Stages(task)[step].chain
            /\ Stages(task)[step].list \in DOMAIN lists
        BY <2>8, <3>1, <4>2 DEF Entered, Now
      <4>5. i # step
        BY <2>3, <3>3
      <4> QED BY <2>3, <2>6, <3>2, <3>4, <4>3, <4>4, <4>5, OtherStages DEF Now
    <3>7. ~Waits(tx.job)'
      BY <2>2, <3>6 DEF Waits
    <3> QED BY <1>1, <3>5, <3>7 DEF MaySent
  <2> QED BY <1>1, <2>2, <2>6, <2>7, <2>9, <2>10, TaskOnce DEF chain, operator
<1> QED BY <1>2, <1>3

\* The reads that come before a stage's requests.
LEMMA ReadNonceOnce ==
  ASSUME IInv, OnceInv, NodeType', ReadNonce
  PROVE  OnceInv'
<1> DEFINE nonce(i) == PendingNonce(Now.chain) + i - 1
<1>1. /\ phase = "read" /\ phase' = "sending"
      /\ flying' = flying \cup {[nonce |-> nonce(i), tx |-> Tx(outstanding[i])] : i \in DOMAIN outstanding}
      /\ answer' = [j \in Range(outstanding) |-> "none"]
      /\ UNCHANGED <<mined, pool, operator, run, task, fetched, step, outstanding>>
  BY DEF ReadNonce
<1> HIDE DEF nonce
<1>2. /\ run # 0 /\ run \in Nat /\ step \in DOMAIN Stages(task)
      /\ \A m, n \in DOMAIN outstanding : outstanding[m] = outstanding[n] => m = n
  BY <1>1, RelayerAssumption DEF OnceInv, JobInv, IInv, TypeInv, TaskType
<1>3. PoolAhead' /\ \A c \in Chain : Ledger(c)' = Ledger(c)
  BY <1>1 DEF OnceInv, PlaceInv, PoolAhead, Ledger
<1>4. /\ \A c \in Chain : \A m, n \in DOMAIN Ledger(c) :
           (m # n /\ Ledger(c)[m].run # 0) => Ledger(c)[m] # Ledger(c)[n]
      /\ \A f \in flying : \A c \in Chain : \A n \in DOMAIN Ledger(c) : f.tx # Ledger(c)[n]
      /\ \A f, g \in flying : f.tx = g.tx => f = g
  BY DEF OnceInv, PlaceInv
<1>5. /\ \A c \in Chain : \A tx \in Range(Ledger(c)) : Known(tx)
      /\ \A f \in flying : f.tx.run # 0 /\ Known(f.tx)
  BY DEF OnceInv, SentInv
<1>6. ASSUME NEW i \in DOMAIN outstanding PROVE ~Known(Tx(outstanding[i]))
  <2>1. Waits(outstanding[i])
    BY <1>1 DEF Waits, Range
  <2>2. Tx(outstanding[i]).run = run /\ Tx(outstanding[i]).job = outstanding[i]
    BY DEF Tx
  <2> QED BY <1>2, <2>1, <2>2 DEF Known, MaySent
<1>7. ASSUME NEW f \in flying'
      PROVE  \/ f \in flying
             \/ \E i \in DOMAIN outstanding : f = [nonce |-> nonce(i), tx |-> Tx(outstanding[i])]
  BY <1>1
<1>8. PlaceInv'
  <2>1. ASSUME NEW f \in flying', NEW c \in Chain, NEW n \in DOMAIN Ledger(c) PROVE f.tx # Ledger(c)[n]
    <3>1. CASE f \in flying
      BY <1>4, <3>1
    <3>2. CASE \E i \in DOMAIN outstanding : f = [nonce |-> nonce(i), tx |-> Tx(outstanding[i])]
      <4>1. ~Known(f.tx)
        BY <1>6, <3>2
      <4>2. Known(Ledger(c)[n])
        BY <1>5 DEF Range
      <4> QED BY <4>1, <4>2
    <3> QED BY <1>7, <3>1, <3>2
  <2>2. ASSUME NEW f \in flying', NEW g \in flying', f.tx = g.tx PROVE f = g
    <3>1. CASE f \in flying /\ g \in flying
      BY <1>4, <2>2, <3>1
    <3>2. CASE \E i \in DOMAIN outstanding : f = [nonce |-> nonce(i), tx |-> Tx(outstanding[i])]
      <4>1. PICK m \in DOMAIN outstanding : f = [nonce |-> nonce(m), tx |-> Tx(outstanding[m])]
        BY <3>2
      <4>2. g \notin flying
        BY <1>5, <1>6, <2>2, <4>1
      <4>3. PICK n \in DOMAIN outstanding : g = [nonce |-> nonce(n), tx |-> Tx(outstanding[n])]
        BY <1>7, <4>2
      <4>4. outstanding[m] = outstanding[n]
        BY <2>2, <4>1, <4>3 DEF Tx
      <4>5. m = n
        BY <1>2, <4>4
      <4> QED BY <4>1, <4>3, <4>5
    <3>3. CASE f \in flying /\ g \notin flying
      BY <1>5, <1>6, <1>7, <2>2, <3>3
    <3> QED BY <1>7, <3>1, <3>2, <3>3
  <2> QED BY <1>3, <1>4, <2>1, <2>2 DEF PlaceInv
<1>9. SentInv'
  <2>1. Having("collided")' = {}
    BY <1>1 DEF Having
  <2>2. \A i \in DOMAIN Stages(task) : \A j : Entered(i, j) => Entered(i, j)'
    BY <1>1 DEF Entered
  <2>3. \A j : ~Waits(j)'
    BY <1>1, <2>1 DEF Waits
  <2>4. \A x : Known(x) => Known(x)'
    BY <1>1, <2>2, <2>3 DEF Known, MaySent
  <2>5. ASSUME NEW i \in DOMAIN outstanding, NEW x, x = Tx(outstanding[i])
        PROVE  x.run # 0 /\ Known(x)'
    <3>1. x.run = run /\ x.job = outstanding[i]
      BY <2>5 DEF Tx
    <3>2. outstanding[i] \in Range(outstanding)
      BY DEF Range
    <3>3. PICK key \in Range(fetched[Now.list]) : outstanding[i] = Job(key)
      BY <1>1, <3>2 DEF IInv, RunInv, WorkInv
    <3>4. Now.list \in DOMAIN fetched
      BY <1>1 DEF IInv, RunInv, FetchInv
    <3>5. step <= step
      <4>1. step \in Nat
        BY StageFacts DEF IInv, TypeInv, TaskType
      <4> QED BY <4>1
    <3>6. Entered(step, outstanding[i])
      BY <1>1, <3>3, <3>4, <3>5 DEF Entered, Now, Job
    <3>7. PICK k \in DOMAIN Stages(task) : Entered(k, x.job)'
      <4>1. PICK k \in DOMAIN Stages(task) : Entered(k, x.job)
        BY <1>2, <3>1, <3>6
      <4> QED BY <2>2, <4>1
    <3>8. MaySent(x.job)'
      BY <1>1, <1>2, <2>3, <3>7 DEF MaySent
    <3> QED BY <1>1, <1>2, <3>1, <3>8 DEF Known
  <2>6. ASSUME NEW f \in flying' PROVE f.tx.run # 0 /\ Known(f.tx)'
    <3>1. CASE f \in flying
      BY <1>5, <2>4, <3>1
    <3>2. CASE f \notin flying
      <4>1. PICK i \in DOMAIN outstanding : f = [nonce |-> nonce(i), tx |-> Tx(outstanding[i])]
        BY <1>7, <3>2
      <4>2. f.tx = Tx(outstanding[i])
        BY <4>1
      <4> QED BY <2>5, <4>2
    <3> QED BY <3>1, <3>2
  <2>7. \A c \in Chain : \A x \in Range(Ledger(c)') : Known(x)'
    BY <1>3, <1>5, <2>4
  <2> QED BY <2>6, <2>7 DEF SentInv
<1>10. ListInv' /\ JobInv'
  <2>1. JobInv'
    BY <1>1, <1>2 DEF JobInv
  <2> QED BY <1>1, <2>1, SameLists DEF operator
<1> QED BY <1>8, <1>9, <1>10 DEF OnceInv

LEMMA SettledOnce ==
  ASSUME IInv, OnceInv, SendsSettled
  PROVE  OnceInv'
<1>1. /\ phase = "sending" /\ phase' \in {"failed", "waiting"}
      /\ UNCHANGED <<chain, operator, run, task, fetched, step, stage>>
  BY DEF SendsSettled
<1> QED BY <1>1, FailOnce DEF chain, operator, stage

LEMMA CrashOnce ==
  ASSUME IInv, OnceInv, Crash
  PROVE  OnceInv'
<1>1. /\ phase # "idle" /\ phase' = "failed"
      /\ UNCHANGED <<chain, operator, run, task, fetched, step, stage>>
  BY DEF Crash, Ended
<1> QED BY <1>1, FailOnce DEF chain, operator, stage

\* A stage is over: what comes next is for other keys, or of another kind.
LEMMA StageEndsOnce ==
  ASSUME IInv, OnceInv, phase = "waiting", StageEnds,
         UNCHANGED <<mined, pool, flying, cts, retired, run, task, fetched>>
  PROVE  OnceInv'
<1>1. /\ task \in Task /\ step \in DOMAIN Stages(task) /\ step \in Nat
      /\ DOMAIN Stages(task) = 1 .. Len(Stages(task)) /\ Len(Stages(task)) \in Nat
  BY StageFacts DEF IInv, TypeInv, TaskType
<1>2. OnceOnly(fetched) /\ \A l \in DOMAIN fetched : Range(fetched[l]) \subseteq Range(cts[l]) \cup retired
  BY DEF OnceInv, ListInv
<1>3. OnceOnly(fetched') /\ \A l \in DOMAIN fetched' : Range(fetched'[l]) \subseteq Range(cts[l]) \cup retired
  BY <1>2
<1>4. run # 0
  BY DEF OnceInv, JobInv
<1>5. /\ step' = step \/ step' = step + 1
      /\ phase' = "done" \/ (phase' \in {"fetch", "read"} /\ step' = step + 1)
  BY DEF StageEnds
<1>6. \A i \in DOMAIN Stages(task) : \A j : Entered(i, j) => Entered(i, j)'
  <2> SUFFICES ASSUME NEW i \in DOMAIN Stages(task), NEW j, Entered(i, j) PROVE Entered(i, j)'
    OBVIOUS
  <2>1. i \in Nat /\ i <= step
    BY <1>1 DEF Entered
  <2>2. i <= step' /\ (phase' = "fetch" => i < step')
    BY <1>1, <1>5, <2>1
  <2> QED BY <2>2 DEF Entered
<1>7. CASE phase' # "read"
  <2>1. phase' \in {"done", "fetch"}
    BY <1>5, <1>7
  <2>2. \A tx \in AllTxs : Known(tx) => Known(tx)'
    BY <1>6, <2>1 DEF Known, MaySent, Waits
  <2>3. JobInv'
    BY <1>4, <2>1 DEF JobInv
  <2> QED BY <1>3, <2>2, <2>3, TaskOnce
<1>8. CASE phase' = "read"
  <2> DEFINE next == step + 1
  <2>1. /\ outstanding' = NextJobs /\ next \in DOMAIN Stages(task) /\ next # step
        /\ Fetches(task, step + 1) = {}
    <3>1. step # Len(Stages(task)) /\ Fetches(task, step + 1) = {} /\ outstanding' = NextJobs
      BY <1>8 DEF StageEnds
    <3>2. step + 1 \in DOMAIN Stages(task)
      <4> DEFINE n == Len(Stages(task))
      <4>1. n \in Nat /\ step \in 1 .. n /\ step # n /\ DOMAIN Stages(task) = 1 .. n
        BY <1>1, <3>1
      <4> HIDE DEF n
      <4>2. step + 1 \in 1 .. n
        BY <4>1
      <4> QED BY <4>1, <4>2
    <3>3. step + 1 # step
      BY <1>1
    <3> QED BY <3>1, <3>2, <3>3
  <2>2. task # "hub"
    BY <1>1, <2>1, FetchFacts
  <2>3. Stages(task)[next].list \in DOMAIN fetched
    BY <2>1, <2>2 DEF IInv, RunInv, FetchInv
  <2> DEFINE l == fetched[Stages(task)[next].list]
  <2>4. /\ DOMAIN outstanding' = DOMAIN l
        /\ \A n \in DOMAIN l : /\ outstanding'[n].kind = Stages(task)[next].kind
                               /\ outstanding'[n].chain = Stages(task)[next].chain
                               /\ outstanding'[n].key = l[n]
    BY <2>1 DEF NextJobs
  <2>5. \A m, n \in DOMAIN l : l[m] = l[n] => m = n
    BY <1>2, <2>3 DEF OnceOnly
  <2>6. JobInv'
    BY <1>4, <2>4, <2>5 DEF JobInv
  <2> HIDE DEF next
  <2>7. ASSUME NEW i \in DOMAIN Stages(task), NEW j, Entered(i, j) PROVE j \notin Range(outstanding')
    <3> SUFFICES ASSUME NEW n \in DOMAIN outstanding', j = outstanding'[n] PROVE FALSE
      BY DEF Range
    <3>1. /\ j.kind = Stages(task)[next].kind /\ j.chain = Stages(task)[next].chain /\ j.key \in Range(l)
      BY <2>4 DEF Range
    <3>2. i \in Nat /\ i <= step
      BY <1>1, <2>7 DEF Entered
    <3>3. i # next
      BY <1>1, <3>2 DEF next
    <3>4. /\ Stages(task)[i].kind = Stages(task)[next].kind /\ Stages(task)[i].chain = Stages(task)[next].chain
          /\ Stages(task)[i].list \in DOMAIN fetched
          /\ j.key \in Range(fetched[Stages(task)[i].list])
      BY <2>7, <3>1 DEF Entered
    <3> QED BY <1>1, <1>2, <2>1, <2>3, <3>1, <3>3, <3>4, OtherStages
  <2>8. ASSUME NEW tx \in AllTxs, Known(tx), run # 0, tx.run = run PROVE MaySent(tx.job)'
    <3>1. PICK i \in DOMAIN Stages(task) : Entered(i, tx.job)
      BY <2>8 DEF Known, MaySent
    <3>2. Entered(i, tx.job)' /\ tx.job \notin Range(outstanding')
      BY <1>6, <2>7, <3>1
    <3> QED BY <1>8, <3>2 DEF MaySent, Waits
  <2>9. \A tx \in AllTxs : Known(tx) => Known(tx)'
    BY <2>8 DEF Known
  <2> QED BY <1>3, <2>6, <2>9, TaskOnce
<1> QED BY <1>7, <1>8

LEMMA WaitOnce ==
  ASSUME IInv, OnceInv, Wait
  PROVE  OnceInv'
<1>1. /\ phase = "waiting"
      /\ UNCHANGED <<mined, pool, flying, cts, retired, run, task, fetched>>
  BY DEF Wait, chain, operator
<1>2. CASE \E j \in Having("accepted") : ~MinedAs(j)
  <2>1. phase' = "failed" /\ step' = step
    BY <1>2 DEF Wait
  <2> QED BY <1>1, <2>1, FailOnce
<1>3. CASE (\A j \in Having("accepted") : MinedAs(j)) /\ Having("collided") = {}
  <2>1. StageEnds
    BY <1>3 DEF Wait
  <2> QED BY <1>1, <2>1, StageEndsOnce
<1>4. CASE (\A j \in Having("accepted") : MinedAs(j)) /\ Having("collided") # {}
  <2>1. /\ phase' \in {"failed", "read"} /\ step' = step
        /\ outstanding' \in SetToSeqs(Having("collided"))
        /\ UNCHANGED <<sent, answer>>
    BY <1>4 DEF Wait
  <2>2. CASE phase' = "failed"
    BY <1>1, <2>1, <2>2, FailOnce
  <2>3. CASE phase' = "read"
    <3>1. /\ Range(outstanding') \subseteq Having("collided")
          /\ \A m, n \in DOMAIN outstanding' : outstanding'[m] = outstanding'[n] => m = n
      BY <2>1 DEF SetToSeqs, Range
    <3>2. JobInv'
      BY <1>1, <2>3, <3>1 DEF OnceInv, JobInv
    <3>3. ASSUME NEW tx \in AllTxs, Known(tx) PROVE Known(tx)'
      <4>1. \A i \in DOMAIN Stages(task) : Entered(i, tx.job) => Entered(i, tx.job)'
        BY <1>1, <2>1, <2>3 DEF Entered
      <4>2. Waits(tx.job)' => Waits(tx.job)
        BY <1>1, <2>3, <3>1 DEF Waits
      <4> QED BY <1>1, <3>3, <4>1, <4>2 DEF Known, MaySent
    <3>4. OnceOnly(fetched') /\ \A l \in DOMAIN fetched' : Range(fetched'[l]) \subseteq Range(cts[l]) \cup retired
      BY <1>1 DEF OnceInv, ListInv
    <3> QED BY <1>1, <3>2, <3>3, <3>4, TaskOnce
  <2> QED BY <2>1, <2>2, <2>3
<1> QED BY <1>2, <1>3, <1>4

\* A key that is rotated out stays out.
LEMMA RotateOnce ==
  ASSUME IInv, OnceInv, NEW l \in Name, NEW key \in Spare, NEW i \in DOMAIN cts[l], Rotate(l, i, key)
  PROVE  OnceInv'
<1>1. /\ \A n \in Name : key \notin Range(cts[n])
      /\ key \notin retired /\ retired' = retired \cup {cts[l][i]}
      /\ cts' = [cts EXCEPT ![l] = [@ EXCEPT ![i] = key]]
      /\ UNCHANGED <<chain, program>>
  BY DEF Rotate
<1>2. DOMAIN cts = Name /\ DOMAIN fetched \subseteq Name
  BY DEF IInv, TypeInv, TaskType
<1>3. /\ OnceOnly(cts) /\ OnceOnly(fetched)
      /\ \A n \in Name : Range(cts[n]) \cap retired = {}
      /\ \A n \in DOMAIN fetched : Range(fetched[n]) \subseteq Range(cts[n]) \cup retired
  BY DEF OnceInv, ListInv
<1>4. /\ DOMAIN cts' = Name
      /\ \A n \in Name : DOMAIN cts'[n] = DOMAIN cts[n]
      /\ cts'[l][i] = key
      /\ \A n \in Name : \A m \in DOMAIN cts[n] : ~(n = l /\ m = i) => cts'[n][m] = cts[n][m]
  BY <1>1, <1>2
<1>5. OnceOnly(cts')
  <2> SUFFICES ASSUME NEW n \in Name, NEW k \in Name, NEW a \in DOMAIN cts[n], NEW b \in DOMAIN cts[k],
                      cts'[n][a] = cts'[k][b]
               PROVE  n = k /\ a = b
    BY <1>4 DEF OnceOnly
  <2>1. CASE ~(n = l /\ a = i) /\ ~(k = l /\ b = i)
    BY <1>2, <1>3, <1>4, <2>1 DEF OnceOnly
  <2>2. CASE n = l /\ a = i /\ ~(k = l /\ b = i)
    BY <1>1, <1>4, <2>2 DEF Range
  <2>3. CASE ~(n = l /\ a = i) /\ k = l /\ b = i
    BY <1>1, <1>4, <2>3 DEF Range
  <2> QED BY <2>1, <2>2, <2>3
<1>6. \A n \in Name : Range(cts'[n]) \cap retired' = {}
  <2> SUFFICES ASSUME NEW n \in Name, NEW a \in DOMAIN cts[n] PROVE cts'[n][a] \notin retired'
    BY <1>4 DEF Range
  <2>1. CASE n = l /\ a = i
    <3>1. cts[l][i] # key
      BY <1>1 DEF Range
    <3> QED BY <1>1, <1>4, <2>1, <3>1
  <2>2. CASE ~(n = l /\ a = i)
    <3>1. cts'[n][a] = cts[n][a] /\ cts[n][a] \notin retired
      BY <1>3, <1>4, <2>2 DEF Range
    <3>2. cts[n][a] # cts[l][i]
      BY <1>2, <1>3, <2>2 DEF OnceOnly
    <3> QED BY <1>1, <3>1, <3>2
  <2> QED BY <2>1, <2>2
<1>7. \A n \in DOMAIN fetched : Range(fetched[n]) \subseteq Range(cts'[n]) \cup retired'
  <2> SUFFICES ASSUME NEW n \in DOMAIN fetched, NEW x \in Range(fetched[n]), x \notin retired'
               PROVE  x \in Range(cts'[n])
    OBVIOUS
  <2>1. x \in Range(cts[n]) /\ n \in Name /\ x # cts[l][i]
    BY <1>1, <1>2, <1>3
  <2>2. PICK a \in DOMAIN cts[n] : x = cts[n][a]
    BY <2>1 DEF Range
  <2>3. cts'[n][a] = x /\ a \in DOMAIN cts'[n]
    BY <1>4, <2>1, <2>2
  <2> QED BY <2>3 DEF Range
<1>8. UNCHANGED <<mined, pool, flying, run, task, phase, fetched, step, outstanding, answer>>
  BY <1>1 DEF chain, program, stage
<1>9. ListInv'
  BY <1>3, <1>5, <1>6, <1>7, <1>8 DEF ListInv
<1>10. PoolAhead' /\ \A c \in Chain : Ledger(c)' = Ledger(c)
  BY <1>8 DEF OnceInv, PlaceInv, PoolAhead, Ledger
<1>11. \A tx \in AllTxs : Known(tx) => Known(tx)'
  BY <1>8 DEF Known, MaySent, Entered, Waits, Having
<1>12. PlaceInv' /\ SentInv'
  BY <1>8, <1>10, <1>11, PlacesKept, SentKept DEF IInv, TypeInv
<1>13. JobInv'
  BY <1>8 DEF OnceInv, JobInv
<1> QED BY <1>9, <1>12, <1>13 DEF OnceInv

\* The operator's revocations and the audits leave all of it alone.
LEMMA BystanderOnce ==
  ASSUME IInv, OnceInv, UNCHANGED <<mined, pool, flying, cts, retired, program>>
  PROVE  OnceInv'
<1>1. PoolAhead' /\ \A c \in Chain : Ledger(c)' = Ledger(c)
  BY DEF OnceInv, PlaceInv, PoolAhead, Ledger
<1> QED BY <1>1, SameProgram DEF IInv, TypeInv

LEMMA NextOnce ==
  ASSUME IInv, IInv', OnceInv, [Next]_vars
  PROVE  OnceInv'
<1>1. /\ Used \subseteq Chain /\ \A n \in DOMAIN Stages(task) : Stages(task)[n].list \in Name
      /\ NodeType'
  BY StageFacts DEF IInv, TypeInv, TaskType, Used
<1>2. CASE Start \/ Crash
  BY <1>2, StartOnce, CrashOnce
<1>3. CASE TaskStep
  BY <1>1, <1>3, FetchFirstOnce, FetchOnce, ReadNonceOnce, SettledOnce, WaitOnce DEF TaskStep
<1>4. CASE \E f \in flying : Arrive(f) \/ \E seen \in BOOLEAN : SendFails(f, seen)
  BY <1>1, <1>4, ArriveOnce
<1>5. CASE \E c \in Used : Mine(c) \/ ForeignSend(c)
  BY <1>1, <1>5, MineOnce, ForeignOnce
<1>6. CASE \E l \in {Stages(task)[n].list : n \in DOMAIN Stages(task)}, key \in Spare :
             \E i \in DOMAIN cts[l] : Rotate(l, i, key)
  BY <1>1, <1>6, RotateOnce
<1>7. CASE \/ \E c \in Used, key \in Key : Revoke(c, key)
           \/ \E c \in Used : AuditBegin(c)
           \/ AuditEnd \/ UNCHANGED vars
  <2>1. UNCHANGED <<mined, pool, flying, cts, retired, program>>
    BY <1>7 DEF Revoke, AuditBegin, AuditEnd, vars, chain, operator
  <2> QED BY <2>1, BystanderOnce
<1> QED BY <1>2, <1>3, <1>4, <1>5, <1>6, <1>7 DEF Next

LEMMA InitOnce ==
  ASSUME KeysDiffer, Init
  PROVE  OnceInv
<1>1. /\ mined = [c \in Chain |-> << >>] /\ pool = [c \in Chain |-> << >>] /\ flying = {}
      /\ cts = List0 /\ retired = {} /\ run = 0 /\ phase = "idle" /\ fetched = [l \in {} |-> << >>]
  BY DEF Init
<1>2. ListInv
  BY <1>1 DEF ListInv, KeysDiffer, OnceOnly
<1>3. \A c \in Chain : DOMAIN pool[c] = {} /\ DOMAIN Ledger(c) = {}
  BY <1>1 DEF Ledger
<1>4. PlaceInv /\ SentInv
  BY <1>1, <1>3 DEF PlaceInv, PoolAhead, SentInv, Range
<1>5. JobInv
  BY <1>1 DEF JobInv
<1> QED BY <1>2, <1>4, <1>5 DEF OnceInv

\* If CTS's first lists name every key once, no run has one transaction mined
\* twice: not after collisions, lost answers and replacements, nor when keys
\* are rotated while it goes on (utils/sendWithAllocatedNonces).
THEOREM NoJobIsMinedTwice ==
  ASSUME KeysDiffer
  PROVE  Spec => []OncePerRun
<1>1. Init => IInv /\ OnceInv
  BY InitHolds, InitOnce
<1>2. IInv /\ OnceInv /\ [Next]_vars => IInv' /\ OnceInv'
  BY NextHolds, NextOnce
<1>3. IInv /\ OnceInv => OncePerRun
  <2> SUFFICES ASSUME IInv, OnceInv, NEW c \in Chain, NEW m \in DOMAIN mined[c], NEW n \in DOMAIN mined[c],
                      m # n, mined[c][m].run # 0
               PROVE  mined[c][m] # mined[c][n]
    BY DEF OncePerRun
  <2>1. mined[c] \in Seq(AllTxs) /\ NodeType
    BY DEF IInv, TypeInv, NodeType
  <2>2. \A k \in DOMAIN mined[c] : k - 1 \in DOMAIN Ledger(c) /\ Ledger(c)[k - 1] = mined[c][k]
    <3> SUFFICES ASSUME NEW k \in DOMAIN mined[c]
                 PROVE  k - 1 \in DOMAIN Ledger(c) /\ Ledger(c)[k - 1] = mined[c][k]
      OBVIOUS
    <3>1. k - 1 \in 0 .. (Len(mined[c]) - 1) /\ k - 1 < Len(mined[c]) /\ (k - 1) + 1 = k
      BY <2>1
    <3>2. k - 1 \in DOMAIN Ledger(c)
      BY <2>1, <3>1, LedgerFacts
    <3> QED BY <2>1, <3>1, <3>2, LedgerFacts
  <2>3. m - 1 # n - 1
    BY <2>1
  <2> QED BY <2>2, <2>3 DEF OnceInv, PlaceInv
<1> QED BY <1>1, <1>2, <1>3, PTL DEF Spec
=============================================================================

---------------------------- MODULE BatchDeploy ----------------------------
(***************************************************************************)
(* How the deployment tasks send their transactions                        *)
(* (hardhat/tasks/deploy/batch-helpers.ts).  One NonceManager numbers the  *)
(* transactions of one account.  A batch is a list of transactions with    *)
(* consecutive nonces, sent in chunks: the transactions of a chunk are in  *)
(* flight together, and the next chunk starts when all of them have been   *)
(* reported.  Several batches may run at once (Promise.all); the batches   *)
(* of a later stage start when those of the earlier stages have ended.     *)
(*                                                                         *)
(* A chunk whose first failure is a transport error is sent again, whole,  *)
(* under the same nonces, while calls of the earlier attempt may still be  *)
(* in flight.  A node that has already consumed a nonce answers            *)
(* NONCE_EXPIRED, which the helpers report as success.  A task that fails  *)
(* or is killed can be run again from the start on the same account.       *)
(*                                                                         *)
(* Kinds of batches: "proxies" (deployBatch, UUPS proxies: every           *)
(* implementation, then every proxy), "contracts" (deployBatch, regular    *)
(* contracts), "config" (executeBatchConfig), and "manual"                 *)
(* (deployProxyWithoutNonce after two calls of allocateNonce).             *)
(***************************************************************************)
EXTENDS Naturals, Sequences, FiniteSets

CONSTANTS Batch,      \* the batches of the deployment task
          Kind,       \* what each of them is
          Size,       \* how many tasks it has
          Stage,      \* when it runs
          ChunkSize,  \* tasks of one chunk: 10 for contracts, 20 for configurations
          MaxRetries, \* times a chunk or a send is tried again: 3
          NoNonce,    \* no nonce has been allocated
          MayRevert,  \* batches whose transactions may revert on chain
          MaxFaults,  \* bound on the faults of a behaviour
          MaxRuns     \* bound on the runs of the task

ASSUME BatchAssumption ==
  /\ \A b \in Batch : Size[b] \in Nat \ {0} /\ Stage[b] \in Nat
  /\ \A b \in Batch : Kind[b] \in {"proxies", "contracts", "config", "manual"}
  /\ ChunkSize \in Nat \ {0} /\ MaxRetries \in Nat
  /\ MaxFaults \in Nat /\ MaxRuns \in Nat \ {0}
  /\ NoNonce \notin Nat

\* deployProxyWithoutNonce deploys one proxy, and every task awaits it with
\* nothing else running: its nonces are the provider's choice.
ASSUME ManualAssumption ==
  \A b \in Batch : Kind[b] = "manual" =>
    Size[b] = 1 /\ \A a \in Batch \ {b} : Stage[a] # Stage[b]

VARIABLES next,    \* NonceManager.nextNonce
          nonce,   \* the nonce allocated to each transaction, in this run
          chunk,   \* the chunk each batch is at: 0 before it starts
          call,    \* where each call of the current attempt stands
          verdict, \* how the chunk's Promise.all was first rejected, if it was
          tries,   \* times the chunk (or the send of a proxy) was tried again
          stale,   \* sends of an earlier attempt that are still in flight
          pool,    \* the node's transaction pool: nonce -> transaction
          mined,   \* the account's transactions on chain, by nonce
          status,  \* of the hardhat task
          run,     \* the number of this run of the task
          faults   \* faults so far

vars == <<next, nonce, chunk, call, verdict, tries, stale, pool, mined,
          status, run, faults>>
net == <<pool, mined>>
task == <<status, run>>

Paired(b) == Kind[b] \in {"proxies", "manual"}
Txs(b) == IF Paired(b) THEN 2 * Size[b] ELSE Size[b]
Width(b) == IF Paired(b) THEN Size[b] ELSE ChunkSize
Job == UNION {{b} \X (1 .. Txs(b)) : b \in Batch}

\* The transactions of chunk c of a batch, and the number of its chunks.
ChunkOf(b, c) == {j \in Job : j[1] = b /\ (c - 1) * Width(b) < j[2]
                                       /\ j[2] <= c * Width(b)}
Chunks(b) == (Txs(b) + Width(b) - 1) \div Width(b)
Current(b) == ChunkOf(b, chunk[b])
Ended(b) == chunk[b] > Chunks(b)

ChainNonce == Len(mined)

\* getTransactionCount(address, 'pending'): what is mined and what is ready
\* to be mined; a transaction behind a gap does not count.
PendingCount == ChainNonce + Cardinality({n \in DOMAIN pool : ChainNonce .. n \subseteq DOMAIN pool})

-----------------------------------------------------------------------------
\* Mutation: the counter is incremented before it is read.
AllocateAhead(b, J) ==
  LET first == CHOOSE m \in 1 .. Txs(b) : /\ <<b, m>> \in J
                                          /\ \A j \in J : m <= j[2]
  IN  /\ nonce' = [j \in Job |-> IF j \in J THEN next + 1 + (j[2] - first) ELSE nonce[j]]
      /\ next' = next + Cardinality(J)

\* NonceManager.allocateNonce for the transactions J of batch b, in order.
\* Nothing is awaited between the calls of one allocation.
Allocate(b, J) ==
  LET first == CHOOSE m \in 1 .. Txs(b) : /\ <<b, m>> \in J
                                          /\ \A j \in J : m <= j[2]
  IN  /\ nonce' = [j \in Job |-> IF j \in J THEN next + (j[2] - first) ELSE nonce[j]]
      /\ next' = next + Cardinality(J)

\* Mutation: the counter is set to what the node says.
SyncedDown(n) == PendingCount

\* NonceManager.sync: only ever raises the counter.
Synced(n) == IF PendingCount > n THEN PendingCount ELSE n

\* Proxies take the nonces of a chunk when the chunk starts, the others
\* those of the whole batch before its first chunk.
AllocateFor(b, c) ==
  IF Kind[b] = "proxies" THEN Allocate(b, ChunkOf(b, c))
  ELSE IF c = 1 THEN Allocate(b, {j \in Job : j[1] = b})
  ELSE UNCHANGED <<nonce, next>>

\* The calls of a chunk are made together.
SendAll(b, c) == call' = [j \in Job |-> IF j \in ChunkOf(b, c) THEN "sending" ELSE call[j]]

\* Mutation: a batch does not wait for the earlier stages.
BeginTogether(b) ==
  /\ status = "running" /\ chunk[b] = 0
  /\ chunk' = [chunk EXCEPT ![b] = 1]
  /\ AllocateFor(b, 1)
  /\ SendAll(b, 1)
  /\ UNCHANGED <<verdict, tries, stale, net, task, faults>>

Begin(b) ==
  /\ status = "running" /\ chunk[b] = 0
  /\ \A a \in Batch : Stage[a] < Stage[b] => Ended(a)
  /\ chunk' = [chunk EXCEPT ![b] = 1]
  /\ AllocateFor(b, 1)
  /\ SendAll(b, 1)
  /\ UNCHANGED <<verdict, tries, stale, net, task, faults>>

\* A call of the chunk is rejected; the first rejection decides.
Reject(j, how) ==
  /\ call' = [call EXCEPT ![j] = "failed"]
  /\ verdict' = [verdict EXCEPT ![j[1]] = IF @ = "none" THEN how ELSE @]

Report(j) == call' = [call EXCEPT ![j] = "ok"] /\ UNCHANGED verdict

\* deployProxyWithoutNonce leaves the nonce to the provider.
SendNonce(j) == IF Kind[j[1]] = "manual" THEN PendingCount ELSE nonce[j]

\* The node's answer to a send: a nonce that is already on chain is refused
\* with NONCE_EXPIRED, one that is taken in the pool with an error that is
\* not a transport error (already known, replacement underpriced).
Expired(j) == SendNonce(j) < ChainNonce
Taken(j) == SendNonce(j) \in DOMAIN pool
Accept(j) == pool' = [n \in DOMAIN pool \cup {SendNonce(j)} |->
                        IF n = SendNonce(j) THEN [job |-> j, run |-> run] ELSE pool[n]]

\* Only the helpers that take a nonce treat NONCE_EXPIRED as success.
OnExpired(j) == IF Paired(j[1]) THEN Reject(j, "fatal") ELSE Report(j)

\* Mutation: "already known" is taken for success too.
SendKnown(j) ==
  /\ status = "running" /\ call[j] = "sending"
  /\ \/ Expired(j) /\ OnExpired(j) /\ UNCHANGED pool
     \/ ~Expired(j) /\ Taken(j) /\ Report(j) /\ UNCHANGED pool
     \/ /\ ~Expired(j) /\ ~Taken(j) /\ Accept(j)
        /\ call' = [call EXCEPT ![j] = "waiting"]
        /\ UNCHANGED verdict
  /\ UNCHANGED <<next, nonce, chunk, tries, stale, mined, task, faults>>

Send(j) ==
  /\ status = "running" /\ call[j] = "sending"
  /\ \/ Expired(j) /\ OnExpired(j) /\ UNCHANGED pool
     \/ ~Expired(j) /\ Taken(j) /\ Reject(j, "fatal") /\ UNCHANGED pool
     \/ /\ ~Expired(j) /\ ~Taken(j) /\ Accept(j)
        /\ call' = [call EXCEPT ![j] = "waiting"]
        /\ UNCHANGED verdict
  /\ UNCHANGED <<next, nonce, chunk, tries, stale, mined, task, faults>>

\* A call of an earlier attempt reaches the node; nobody awaits its answer.
SendStale(j) ==
  /\ status = "running" /\ j \in stale
  /\ stale' = stale \ {j}
  /\ IF Expired(j) \/ Taken(j) THEN UNCHANGED pool ELSE Accept(j)
  /\ UNCHANGED <<next, nonce, chunk, call, verdict, tries, mined, task, faults>>

\* A transport error.  The send of a proxy of a parallel batch is tried again
\* by itself; a chunk is tried again as a whole (RetryChunk); the rest is fatal.
Transport(j, sending) ==
  CASE Kind[j[1]] \in {"contracts", "config"} ->
         Reject(j, "transient") /\ UNCHANGED tries
    [] Kind[j[1]] = "proxies" /\ sending /\ tries[j] < MaxRetries ->
         tries' = [tries EXCEPT ![j] = @ + 1] /\ UNCHANGED <<call, verdict>>
    [] OTHER -> Reject(j, "fatal") /\ UNCHANGED tries

\* The request is lost, or the node took the transaction and its answer is lost.
SendFails(j) ==
  /\ status = "running" /\ call[j] = "sending" /\ faults < MaxFaults
  /\ faults' = faults + 1
  /\ \/ UNCHANGED pool
     \/ ~Expired(j) /\ ~Taken(j) /\ Accept(j)
  /\ Transport(j, TRUE)
  /\ UNCHANGED <<next, nonce, chunk, stale, mined, task>>

\* The artifact or the contract factory of a task cannot be read: the call
\* fails before anything is sent.  Batches of proxies read theirs before
\* they allocate a nonce.
FactoryFails(j) ==
  /\ status = "running" /\ call[j] = "sending" /\ faults < MaxFaults
  /\ Kind[j[1]] # "proxies"
  /\ faults' = faults + 1
  /\ Reject(j, "fatal")
  /\ UNCHANGED <<next, nonce, chunk, tries, stale, net, task>>

\* The receipt arrives: a transaction that reverted is an error that is not retried.
Receipt(j) ==
  /\ status = "running" /\ call[j] = "waiting"
  /\ \E n \in 1 .. ChainNonce :
       /\ mined[n].job = j /\ mined[n].run = run
       /\ IF mined[n].ok THEN Report(j) ELSE Reject(j, "fatal")
  /\ UNCHANGED <<next, nonce, chunk, tries, stale, net, task, faults>>

\* The connection breaks while the receipt is awaited, or the timer of a
\* batch of proxies fires.
WaitFails(j) ==
  /\ status = "running" /\ call[j] = "waiting" /\ faults < MaxFaults
  /\ faults' = faults + 1
  /\ Transport(j, FALSE)
  /\ UNCHANGED <<next, nonce, chunk, stale, net, task>>

\* retryOnTransientError around Promise.all: every task of the chunk is
\* called again with the nonce it has.
RetryChunk(b) ==
  /\ status = "running" /\ verdict[b] = "transient"
  /\ \A j \in Current(b) : tries[j] < MaxRetries
  /\ tries' = [j \in Job |-> IF j \in Current(b) THEN tries[j] + 1 ELSE tries[j]]
  /\ stale' = stale \cup {j \in Current(b) : call[j] = "sending"}
  /\ verdict' = [verdict EXCEPT ![b] = "none"]
  /\ SendAll(b, chunk[b])
  /\ UNCHANGED <<next, nonce, chunk, net, task, faults>>

ChunkDone(b) == chunk[b] > 0 /\ ~Ended(b) /\ \A j \in Current(b) : call[j] = "ok"

NextChunk(b) ==
  /\ status = "running" /\ ChunkDone(b) /\ chunk[b] < Chunks(b)
  /\ chunk' = [chunk EXCEPT ![b] = @ + 1]
  /\ AllocateFor(b, chunk[b] + 1)
  /\ SendAll(b, chunk[b] + 1)
  /\ UNCHANGED <<verdict, tries, stale, net, task, faults>>

\* executeBatchConfig ends with a sync.
EndBatch(b) ==
  /\ status = "running" /\ ChunkDone(b) /\ chunk[b] = Chunks(b)
  /\ chunk' = [chunk EXCEPT ![b] = @ + 1]
  /\ next' = IF Kind[b] = "config" THEN Synced(next) ELSE next
  /\ UNCHANGED <<nonce, call, verdict, tries, stale, net, task, faults>>

\* An error that is not retried, or was retried often enough, ends the task.
Abort(b) ==
  /\ status = "running"
  /\ \/ verdict[b] = "fatal"
     \/ verdict[b] = "transient" /\ \E j \in Current(b) : tries[j] >= MaxRetries
  /\ status' = "failed"
  /\ UNCHANGED <<next, nonce, chunk, call, verdict, tries, stale, net, run, faults>>

\* The process is killed.
Crash ==
  /\ status = "running" /\ faults < MaxFaults
  /\ faults' = faults + 1
  /\ status' = "failed"
  /\ UNCHANGED <<next, nonce, chunk, call, verdict, tries, stale, net, run>>

Finish ==
  /\ status = "running" /\ \A b \in Batch : Ended(b)
  /\ status' = "done"
  /\ UNCHANGED <<next, nonce, chunk, call, verdict, tries, stale, net, run, faults>>

\* The task is run again: NonceManager.initialize, and nothing else is kept.
Restart ==
  /\ status = "failed" /\ run < MaxRuns
  /\ run' = run + 1
  /\ status' = "running"
  /\ next' = PendingCount
  /\ nonce' = [j \in Job |-> NoNonce]
  /\ chunk' = [b \in Batch |-> 0]
  /\ call' = [j \in Job |-> "idle"]
  /\ verdict' = [b \in Batch |-> "none"]
  /\ tries' = [j \in Job |-> 0]
  /\ stale' = {}
  /\ UNCHANGED <<net, faults>>

\* The chain takes the account's next transaction.
Mine ==
  /\ ChainNonce \in DOMAIN pool
  /\ LET tx == pool[ChainNonce]
     IN \E ok \in {TRUE} \cup (IF tx.job[1] \in MayRevert THEN {FALSE} ELSE {}) :
          mined' = Append(mined, [job |-> tx.job, run |-> tx.run, ok |-> ok])
  /\ pool' = [n \in DOMAIN pool \ {ChainNonce} |-> pool[n]]
  /\ UNCHANGED <<next, nonce, chunk, call, verdict, tries, stale, task, faults>>

-----------------------------------------------------------------------------
Init == /\ next = 0
        /\ nonce = [j \in Job |-> NoNonce]
        /\ chunk = [b \in Batch |-> 0]
        /\ call = [j \in Job |-> "idle"]
        /\ verdict = [b \in Batch |-> "none"]
        /\ tries = [j \in Job |-> 0]
        /\ stale = {}
        /\ pool = << >> /\ mined = << >>
        /\ status = "running" /\ run = 1 /\ faults = 0

CallStep(j) == \/ Send(j) \/ SendStale(j) \/ SendFails(j) \/ FactoryFails(j)
               \/ Receipt(j) \/ WaitFails(j)
BatchStep(b) == \/ Begin(b) \/ RetryChunk(b) \/ NextChunk(b) \/ EndBatch(b) \/ Abort(b)

Next == \/ \E j \in Job : CallStep(j)
        \/ \E b \in Batch : BatchStep(b)
        \/ Mine \/ Crash \/ Finish \/ Restart

\* Promises settle, the event loop runs what is ready, the chain produces
\* blocks.  Nothing makes a fault, a stale send or a new run happen.
Fairness == /\ WF_vars(Mine) /\ WF_vars(Finish)
            /\ \A j \in Job : WF_vars(Send(j)) /\ WF_vars(Receipt(j))
            /\ \A b \in Batch : WF_vars(BatchStep(b))

Spec == Init /\ [][Next]_vars
FairSpec == Spec /\ Fairness

-----------------------------------------------------------------------------
Transaction == [job : Job, run : 1 .. MaxRuns]

\* Types of the variables.
TypeOK ==
  /\ next \in Nat
  /\ nonce \in [Job -> Nat \cup {NoNonce}]
  /\ chunk \in [Batch -> Nat]
  /\ call \in [Job -> {"idle", "sending", "waiting", "ok", "failed"}]
  /\ verdict \in [Batch -> {"none", "transient", "fatal"}]
  /\ tries \in [Job -> 0 .. MaxRetries]
  /\ stale \subseteq Job
  /\ pool \in [DOMAIN pool -> Transaction]
  /\ mined \in Seq([job : Job, run : 1 .. MaxRuns, ok : BOOLEAN])
  /\ status \in {"running", "failed", "done"}
  /\ run \in 1 .. MaxRuns
  /\ faults \in 0 .. MaxFaults

\* Two transactions of a run never hold the same nonce, although batches
\* that run at once share one NonceManager, hold nonces they have not used
\* yet, and synchronise the counter with the node in between.
UniqueNonces ==
  \A j, k \in Job : j # k /\ nonce[j] # NoNonce => nonce[j] # nonce[k]

\* What the helpers report as done has had its nonce consumed, in the first
\* run by the task's own transaction: NONCE_EXPIRED is never the answer to a
\* transaction the chain has not seen.
OkMeansMined ==
  \A j \in Job : call[j] = "ok" =>
    IF run = 1 THEN \E n \in 1 .. ChainNonce : mined[n].job = j
    ELSE Kind[j[1]] \in {"contracts", "config"} => nonce[j] < ChainNonce

\* However often a chunk is sent again, and whichever of its calls the node had
\* already taken, the chain executes every transaction of a run at most once,
\* and in the order the task wrote them: a batch in its order, and no stage
\* before an earlier one (roles are registered before they are mapped and granted).
ExecutedInOrder ==
  \A m, n \in 1 .. ChainNonce :
    LET j == mined[m].job
        k == mined[n].job
    IN  m < n /\ mined[m].run = mined[n].run =>
          Stage[j[1]] <= Stage[k[1]] /\ (j[1] = k[1] => j[2] < k[2])

\* Every run of the task comes to an end, by success or by an error: no
\* receipt is awaited for ever behind a nonce that nobody sends.
RunsEnd == (status = "running") ~> (status # "running")

\* batch-helpers.ts:721: "The deployment cannot continue with failed
\* configuration transactions".  A configuration reported as successful was
\* executed, and did not revert.
ReportedConfigSucceeded ==
  \A j \in Job : Kind[j[1]] = "config" /\ call[j] = "ok" =>
    \E n \in 1 .. ChainNonce : mined[n].job = j /\ mined[n].ok
=============================================================================

------------------------- MODULE RelayerAuthorization -------------------------
(***************************************************************************)
(* The tasks that give RELAYER to the keys of the relayers, and the audit  *)
(* of who holds it (hardhat/tasks: interact/relay-authorization,           *)
(* utils/sendWithAllocatedNonces, audit/check-roles).                      *)
(* CTS advertises the keys, and rotates them.  A task reads its lists,     *)
(* funds keys and grants the role stage by stage; a stage sends all its    *)
(* transactions at once under nonces counted up from one read, resends     *)
(* those that met a taken nonce, and waits for the rest.  The account also *)
(* sends transactions that the task does not know of.                      *)
(***************************************************************************)
EXTENDS Naturals, FiniteSets, Sequences, SequencesExt

CONSTANTS
  Task,       \* "node", "node_private" and "hub"
  List0,      \* CTS's first lists: [list name -> sequence of keys]
  Spare,      \* keys that a rotation brings in
  Counts,     \* whether "pending" counts transactions in flight, per node
  Replaces,   \* whether a second transaction of a nonce replaces the first
  MaxRuns, MaxUpsets  \* bounds: runs; faults, other transactions, operator's doings

Chain == {"pn", "pc", "hub"}
Name == {"private", "public_pn", "public_pc", "hub_a", "hub_b"}
Key == (UNION {Range(List0[l]) : l \in Name}) \cup Spare

ASSUME RelayerAssumption ==
  /\ Task \subseteq {"node", "node_private", "hub"}
  /\ List0 \in [Name -> Seq(Key)] /\ IsFiniteSet(Spare)
  /\ Counts \subseteq BOOLEAN /\ Replaces \subseteq BOOLEAN
  /\ MaxRuns \in Nat /\ MaxUpsets \in Nat

VARIABLES
  counts, replaces,   \* how the node treats nonces
  mined, pool,        \* per chain: the account's transactions, by nonce
  flying,             \* requests to send that have not arrived
  holds, revoked,     \* per chain: holders of RELAYER, keys taken it from
  cts, retired,       \* the lists; the keys rotated out of them
  run, task, phase,   \* the run: its number, its task, where it is
  fetched, step,      \* the lists it has read, the stage it is in
  outstanding, attempt, sent, answer,  \* of that stage: jobs, their nonces
  audit,              \* the audit of one chain
  upsets              \* how often something came in between
node == <<counts, replaces>>
chain == <<mined, pool, flying, holds>>
operator == <<cts, retired, revoked>>
stage == <<outstanding, attempt, sent, answer>>
program == <<run, task, phase, fetched, step, stage>>
vars == <<node, chain, operator, program, audit, upsets>>

Upset == upsets < MaxUpsets /\ upsets' = upsets + 1

-----------------------------------------------------------------------------
\* The stages of a task: what each sends, on which chain, to which keys.

Stage(kind, c, l) == [kind |-> kind, chain |-> c, list |-> l]

\* Mutation: the keys are funded when everything is granted.
StagesFundLast(t) ==
  IF t = "hub" THEN <<Stage("grant", "hub", "hub_a"), Stage("grant", "hub", "hub_b")>>
  ELSE IF t = "node_private" THEN <<Stage("grant", "pn", "private")>>
  ELSE <<Stage("grant", "pn", "public_pn"), Stage("grant", "pc", "public_pc"),
         Stage("grant", "pn", "private"), Stage("fund", "pc", "public_pc")>>

Stages(t) ==
  IF t = "hub" THEN <<Stage("grant", "hub", "hub_a"), Stage("grant", "hub", "hub_b")>>
  ELSE IF t = "node_private" THEN <<Stage("grant", "pn", "private")>>
  ELSE <<Stage("fund", "pc", "public_pc"), Stage("grant", "pn", "public_pn"),
         Stage("grant", "pc", "public_pc"), Stage("grant", "pn", "private")>>

\* add-authorized-relayers reads the private relayer's list, and then the two
\* of the public one, before it sends anything; the hub's task reads a privacy
\* node's list when it comes to the node.
First(t) == IF t = "node" THEN {"private"} ELSE {}
Fetches(t, i) == IF t = "hub" THEN {Stages(t)[i].list}
                 ELSE IF i = 1 THEN {Stages(t)[n].list : n \in DOMAIN Stages(t)} \ First(t) ELSE {}

MaxAttempts(t) == IF t = "hub" THEN 1 ELSE 3

Used == {Stages(task)[i].chain : i \in DOMAIN Stages(task)}
Now == Stages(task)[step]
Job(key) == [kind |-> Now.kind, chain |-> Now.chain, key |-> key]
Tx(job) == [run |-> run, job |-> job]
NoJob == [kind |-> "other", chain |-> "none", key |-> "none"]

-----------------------------------------------------------------------------
\* The node.

NextFree(c) == CHOOSE n \in Len(mined[c]) .. (Len(mined[c]) + Cardinality(DOMAIN pool[c])) :
                 n \notin DOMAIN pool[c] /\ Len(mined[c]) .. (n - 1) \subseteq DOMAIN pool[c]

\* eth_getTransactionCount(account, "pending").
PendingNonce(c) == IF counts THEN NextFree(c) ELSE Len(mined[c])

Taken(c, nonce) == nonce < Len(mined[c]) \/ (nonce \in DOMAIN pool[c] /\ ~replaces)

Pooled(c, nonce, tx) ==
  [pool EXCEPT ![c] = [n \in DOMAIN @ \cup {nonce} |-> IF n = nonce THEN tx ELSE @[n]]]

\* A request of the run that is still going is answered.
Answered(f, what) ==
  IF phase = "sending" /\ f.tx.run = run THEN [answer EXCEPT ![f.tx.job] = what] ELSE answer

Arrive(f) ==
  /\ flying' = flying \ {f}
  /\ IF Taken(f.tx.job.chain, f.nonce)
     THEN answer' = Answered(f, "collided") /\ UNCHANGED pool
     ELSE answer' = Answered(f, "accepted") /\ pool' = Pooled(f.tx.job.chain, f.nonce, f.tx)
  /\ UNCHANGED <<node, mined, holds, operator, run, task, phase, fetched, step, outstanding,
                 attempt, sent, audit, upsets>>

\* A request that fails, before the node has seen the transaction or after.
SendFails(f, seen) ==
  /\ Upset
  /\ seen => ~Taken(f.tx.job.chain, f.nonce)
  /\ flying' = flying \ {f} /\ answer' = Answered(f, "failed")
  /\ pool' = IF seen THEN Pooled(f.tx.job.chain, f.nonce, f.tx) ELSE pool
  /\ UNCHANGED <<node, mined, holds, operator, run, task, phase, fetched, step, outstanding,
                 attempt, sent, audit>>

Mine(c) ==
  /\ Len(mined[c]) \in DOMAIN pool[c]
  /\ LET tx == pool[c][Len(mined[c])]
     IN /\ mined' = [mined EXCEPT ![c] = Append(@, tx)]
        /\ holds' = IF tx.job.kind = "grant" THEN [holds EXCEPT ![c] = @ \cup {tx.job.key}] ELSE holds
  /\ pool' = [pool EXCEPT ![c] = [n \in DOMAIN @ \ {Len(mined[c])} |-> @[n]]]
  /\ UNCHANGED <<node, flying, operator, program, audit, upsets>>

\* Another transaction of the account, under the nonce that the node gives.
ForeignSend(c) ==
  /\ Upset
  /\ ~Taken(c, PendingNonce(c))
  /\ pool' = Pooled(c, PendingNonce(c), [run |-> 0, job |-> NoJob])
  /\ UNCHANGED <<node, mined, flying, holds, operator, program, audit>>

-----------------------------------------------------------------------------
\* The task.

Ended == phase \in {"idle", "done", "failed"}

Start ==
  /\ Ended /\ run < MaxRuns
  /\ run' = run + 1 /\ step' = 1 /\ phase' = "fetch"
  /\ fetched' = [l \in {} |-> << >>]
  /\ outstanding' = << >> /\ attempt' = 0 /\ sent' = << >> /\ answer' = << >>
  /\ UNCHANGED <<node, chain, operator, task, audit, upsets>>

\* A list that is empty, or no answer, ends the run.
Fetched(lists, ok) ==
  IF \E l \in lists : cts[l] = << >>
  THEN ~ok /\ UNCHANGED upsets
  ELSE IF ok THEN UNCHANGED upsets ELSE Upset

FetchFirst(ok) ==
  /\ phase = "fetch" /\ ~(First(task) \subseteq DOMAIN fetched)
  /\ Fetched(First(task), ok)
  /\ phase' = IF ok THEN "fetch" ELSE "failed"
  /\ fetched' = IF ok THEN [l \in First(task) |-> cts[l]] ELSE fetched
  /\ UNCHANGED <<node, chain, operator, run, task, step, stage, audit>>

\* The lists that the step needs.
Fetch(ok) ==
  /\ phase = "fetch" /\ First(task) \subseteq DOMAIN fetched
  /\ Fetched(Fetches(task, step), ok)
  /\ phase' = IF ok THEN "read" ELSE "failed"
  /\ LET lists == [l \in DOMAIN fetched \cup Fetches(task, step) |->
                     IF l \in Fetches(task, step) THEN cts[l] ELSE fetched[l]]
     IN /\ fetched' = IF ok THEN lists ELSE fetched
        /\ outstanding' = IF ok THEN [i \in DOMAIN lists[Now.list] |-> Job(lists[Now.list][i])] ELSE << >>
  /\ UNCHANGED <<node, chain, operator, run, task, step, attempt, sent, answer, audit>>

\* One read of the nonce; every job gets the next one.
ReadNonce ==
  /\ phase = "read"
  /\ phase' = "sending" /\ attempt' = attempt + 1
  /\ LET nonce(i) == PendingNonce(Now.chain) + i - 1
         jobs == Range(outstanding)
     IN /\ sent' = [j \in jobs |-> nonce(CHOOSE i \in DOMAIN outstanding : outstanding[i] = j)]
        /\ flying' = flying \cup {[nonce |-> nonce(i), tx |-> Tx(outstanding[i])] : i \in DOMAIN outstanding}
        /\ answer' = [j \in jobs |-> "none"]
  /\ UNCHANGED <<node, mined, pool, holds, operator, run, task, fetched, step, outstanding, audit, upsets>>

Having(what) == {j \in DOMAIN answer : answer[j] = what}

\* Mutation: an error that is no collision is left to the wait.
SendsSettledLater ==
  /\ phase = "sending" /\ Having("none") = {}
  /\ phase' = "waiting"
  /\ UNCHANGED <<node, chain, operator, run, task, fetched, step, stage, audit, upsets>>

\* All answers are there (the hub's task throws at the first bad one).
SendsSettled ==
  /\ phase = "sending"
  /\ Having("none") = {} \/ (task = "hub" /\ Having("failed") \cup Having("collided") # {})
  /\ phase' = IF Having("failed") # {} \/ (task = "hub" /\ Having("collided") # {})
              THEN "failed" ELSE "waiting"
  /\ UNCHANGED <<node, chain, operator, run, task, fetched, step, stage, audit, upsets>>

\* The accepted transactions have been mined, or their nonces by others.
Settled(j) == sent[j] < Len(mined[Now.chain])
MinedAs(j) == mined[Now.chain][sent[j] + 1] = Tx(j)

\* tx.wait, which has no time limit, ends with the receipt.  Of a transfer it
\* also notices that another transaction has the nonce; of a contract's call,
\* as a grant is, the library does not know from which block to look.
WaitEnds(j) == Settled(j) /\ (Now.kind = "grant" => MinedAs(j))
NextJobs == LET l == Stages(task)[step + 1].list
            IN [i \in DOMAIN fetched[l] |->
                  [kind |-> Stages(task)[step + 1].kind, chain |-> Stages(task)[step + 1].chain,
                   key |-> fetched[l][i]]]
StageEnds ==
  /\ step' = IF step = Len(Stages(task)) THEN step ELSE step + 1
  /\ phase' = IF step = Len(Stages(task)) THEN "done"
              ELSE IF Fetches(task, step + 1) # {} THEN "fetch" ELSE "read"
  /\ outstanding' = IF phase' = "read" THEN NextJobs ELSE << >>
  /\ attempt' = 0 /\ sent' = << >> /\ answer' = << >>

\* Mutation: what met a taken nonce counts as sent.
WaitForgetting ==
  /\ phase = "waiting" /\ \A j \in Having("accepted") : WaitEnds(j)
  /\ IF \E j \in Having("accepted") : ~MinedAs(j)
     THEN phase' = "failed" /\ UNCHANGED <<step, stage>> ELSE StageEnds
  /\ UNCHANGED <<node, chain, operator, run, task, fetched, audit, upsets>>

\* Mutation: the whole stage is sent again.
WaitResendingAll ==
  /\ phase = "waiting" /\ \A j \in Having("accepted") : WaitEnds(j)
  /\ IF \E j \in Having("accepted") : ~MinedAs(j)
     THEN phase' = "failed" /\ UNCHANGED <<step, stage>>
     ELSE IF Having("collided") = {} THEN StageEnds
     ELSE /\ phase' = IF attempt = MaxAttempts(task) THEN "failed" ELSE "read"
          /\ UNCHANGED <<step, outstanding, attempt, sent, answer>>
  /\ UNCHANGED <<node, chain, operator, run, task, fetched, audit, upsets>>

\* All waits are over.  A transfer that was replaced is an error like any other;
\* those that collided are sent again, three times.
Wait ==
  /\ phase = "waiting" /\ \A j \in Having("accepted") : WaitEnds(j)
  /\ IF \E j \in Having("accepted") : ~MinedAs(j)
     THEN phase' = "failed" /\ UNCHANGED <<step, stage>>
     ELSE IF Having("collided") = {} THEN StageEnds
     ELSE /\ phase' = IF attempt = MaxAttempts(task) THEN "failed" ELSE "read"
          /\ outstanding' \in SetToSeqs(Having("collided"))
          /\ \A m, n \in DOMAIN outstanding' :
               m < n => sent[outstanding'[m]] < sent[outstanding'[n]]
          /\ UNCHANGED <<step, attempt, sent, answer>>
  /\ UNCHANGED <<node, chain, operator, run, task, fetched, audit, upsets>>

\* The process is stopped; what it has sent goes on.
Crash ==
  /\ ~Ended /\ Upset
  /\ phase' = "failed"
  /\ UNCHANGED <<node, chain, operator, run, task, fetched, step, stage, audit>>

-----------------------------------------------------------------------------
\* The operator: keys are rotated in CTS and revoked on the chains.

Rotate(l, i, key) ==
  /\ Upset
  /\ key \in Spare /\ \A n \in Name : key \notin Range(cts[n])
  /\ key \notin retired
  /\ retired' = retired \cup {cts[l][i]}
  /\ cts' = [cts EXCEPT ![l] = [@ EXCEPT ![i] = key]]
  /\ UNCHANGED <<node, chain, revoked, program, audit>>

Revoke(c, key) ==
  /\ Upset
  /\ key \in holds[c]
  /\ holds' = [holds EXCEPT ![c] = @ \ {key}]
  /\ revoked' = [revoked EXCEPT ![c] = @ \cup {key}]
  /\ UNCHANGED <<node, mined, pool, flying, cts, retired, program, audit>>

-----------------------------------------------------------------------------
\* The relayer audit: the lists of CTS first, then the holders, replayed from
\* the events up to one block (EventReplay).  One audit, of a chain whose task
\* has ended; another run can begin under it.

\* Mutation: on the privacy node, the public relayer's public addresses.
AuditedPublic(c) == IF c = "pn" THEN {"private", "public_pc"}
                    ELSE IF c = "pc" THEN {"public_pc"} ELSE {"hub_a", "hub_b"}

Audited(c) == IF c = "pn" THEN {"private"} \cup (IF task = "node" THEN {"public_pn"} ELSE {})
              ELSE IF c = "pc" THEN {"public_pc"} ELSE {"hub_a", "hub_b"}

\* What CTS advertises for a chain, and how the holders differ from it.
Advertised(c) == UNION {Range(cts[l]) : l \in Audited(c)}
Drift(c, expected) == [missing |-> expected \ holds[c], unexpected |-> holds[c] \ expected]

NoAudit == [phase |-> "idle", chain |-> "pn", expected |-> {}, covered |-> FALSE,
            missing |-> {}, unexpected |-> {}]

AuditBegin(c) ==
  /\ audit.phase = "idle" /\ Ended
  /\ audit' = [NoAudit EXCEPT !.phase = "reading", !.chain = c,
                 !.expected = Advertised(c),
                 !.covered = /\ phase = "done"
                             /\ \A l \in Audited(c) : l \in DOMAIN fetched /\ fetched[l] = cts[l]]
  /\ UNCHANGED <<node, chain, operator, program, upsets>>

AuditEnd ==
  /\ audit.phase = "reading"
  /\ audit' = [audit EXCEPT !.phase = "reported",
                 !.missing = Drift(audit.chain, audit.expected).missing,
                 !.unexpected = Drift(audit.chain, audit.expected).unexpected]
  /\ UNCHANGED <<node, chain, operator, program, upsets>>

-----------------------------------------------------------------------------
Init ==
  /\ counts \in Counts /\ replaces \in Replaces
  /\ mined = [c \in Chain |-> << >>] /\ pool = [c \in Chain |-> << >>] /\ flying = {}
  /\ holds = [c \in Chain |-> {}] /\ revoked = [c \in Chain |-> {}]
  /\ cts = List0 /\ retired = {}
  /\ run = 0 /\ task \in Task /\ phase = "idle" /\ fetched = [l \in {} |-> << >>] /\ step = 1
  /\ outstanding = << >> /\ attempt = 0 /\ sent = << >> /\ answer = << >>
  /\ audit = NoAudit /\ upsets = 0

TaskStep == (\E ok \in BOOLEAN : FetchFirst(ok) \/ Fetch(ok)) \/ ReadNonce \/ SendsSettled \/ Wait

Next ==
  \/ Start \/ TaskStep \/ Crash
  \/ \E f \in flying : Arrive(f) \/ \E seen \in BOOLEAN : SendFails(f, seen)
  \/ \E c \in Used : Mine(c) \/ ForeignSend(c)
  \/ \E l \in {Stages(task)[n].list : n \in DOMAIN Stages(task)}, key \in Spare : \E i \in DOMAIN cts[l] : Rotate(l, i, key)
  \/ \E c \in Used, key \in Key : Revoke(c, key)
  \/ \E c \in Used : AuditBegin(c)
  \/ AuditEnd

Spec == Init /\ [][Next]_vars

\* The program runs on, requests are answered, and the chains mine.
FairSpec ==
  /\ Spec /\ WF_vars(TaskStep) /\ WF_vars(\E f \in flying : Arrive(f))
  /\ \A c \in Chain : WF_vars(Mine(c))

-----------------------------------------------------------------------------
AllJobs == [kind : {"fund", "grant"}, chain : Chain, key : Key] \cup {NoJob}
AllTxs == [run : 0 .. MaxRuns, job : AllJobs]

TypeOK ==
  /\ counts \in Counts /\ replaces \in Replaces
  /\ mined \in [Chain -> Seq(AllTxs)]
  /\ \A c \in Chain : /\ DOMAIN pool[c] \subseteq Nat /\ Range(pool[c]) \subseteq AllTxs
                      /\ \A n \in DOMAIN pool[c] : n >= Len(mined[c])
  /\ flying \subseteq [nonce : Nat, tx : AllTxs]
  /\ holds \in [Chain -> SUBSET Key] /\ revoked \in [Chain -> SUBSET Key]
  /\ cts \in [Name -> Seq(Key)] /\ retired \subseteq Key
  /\ run \in 0 .. MaxRuns /\ task \in Task /\ step \in DOMAIN Stages(task) /\ upsets \in 0 .. MaxUpsets
  /\ phase \in {"idle", "fetch", "read", "sending", "waiting", "done", "failed"}
  /\ attempt \in 0 .. MaxAttempts(task)

\* Transactions are sent in parallel, refused, sent again and replaced; no
\* run pays or grants a key twice.
OncePerRun ==
  \A c \in Chain : \A m, n \in DOMAIN mined[c] :
    (m # n /\ mined[c][m].run # 0) => mined[c][m] # mined[c][n]

\* What a run has gone past has happened: every key of the stages behind it is
\* funded and holds the role, unless the operator has revoked it.
Behind == IF phase = "done" THEN DOMAIN Stages(task) ELSE 1 .. (step - 1)
StagesBehindHold ==
  run > 0 =>
    \A i \in Behind :
      LET s == Stages(task)[i]
      IN \A key \in Range(fetched[s.list]) :
           IF s.kind = "fund"
           THEN \E n \in DOMAIN mined["pc"] :
                  mined["pc"][n] = [run |-> run, job |-> [kind |-> "fund", chain |-> "pc", key |-> key]]
           ELSE key \in holds[s.chain] \cup revoked[s.chain]

\* A key that holds the role on the public chain has been given the means to
\* use it, whatever failed or crashed on the way.
FundedBeforeRelaying ==
  \A key \in holds["pc"] : \E n \in DOMAIN mined["pc"] :
    mined["pc"][n].job = [kind |-> "fund", chain |-> "pc", key |-> key]

\* An audit of a chain that a finished run has granted the advertised keys on
\* finds none missing but those revoked.
MissingIsRevoked ==
  (audit.phase = "reported" /\ audit.covered) => audit.missing \subseteq revoked[audit.chain]

\* A grant that the run waits for has lost its nonce to a transaction that the
\* run did not send.
Overtaken ==
  /\ phase = "waiting" /\ Now.kind = "grant"
  /\ \E j \in Having("accepted") :
       Settled(j) /\ mined[Now.chain][sent[j] + 1].run # run

\* A run ends, or waits for ever for a grant that a foreign transaction has
\* overtaken: it does not replace its own, and none is stuck behind a nonce
\* that nobody uses.
RunsEnd == ~Ended ~> (Ended \/ Overtaken)

\* A transaction that met a taken nonce is sent again under a higher one.
ResendsHigher ==
  [][(phase = "read" /\ attempt > 0 /\ phase' = "sending") =>
       \A j \in Range(outstanding) : sent'[j] > sent[j]]_vars
=============================================================================

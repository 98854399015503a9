------------------------------ MODULE Messaging ------------------------------
(***************************************************************************)
(* The messaging layer under every application of the protocol: EndpointV1 *)
(* with its modules MessageSender, BatchMessageSender, MessageReceiver and *)
(* ResourceManager, and RaylsMessageExecutorV1, one copy of each per chain *)
(* (the privacy nodes and the hub).  A relayer outside the repository      *)
(* reads the dispatch events and calls receivePayload on the destination;  *)
(* it may repeat, delay and reorder messages.                              *)
(*                                                                         *)
(* A message id is the hash of everything in the message, so the id IS the *)
(* record of these fields.  A call that reverts leaves no trace and is no  *)
(* step: a handler that reverts leaves its message to be retried.          *)
(***************************************************************************)
EXTENDS Integers, Sequences, FiniteSets, SequencesExt

CONSTANTS
  Chain,        \* the chains
  Hub,          \* the private network hub
  All,          \* chain id 0: "every chain but mine"
  Resource,     \* resource ids
  Direct,       \* no resource id: the message names a contract
  Template,     \* resources a relayer can deploy from the resource registry
  Broadcaster,  \* participants with allowedToBroadcast
  Origin,       \* bound: the chains whose applications start an exchange
  Registrar,    \* bound: the chains on which contracts register themselves
  Kind,         \* what handlers do: "plain", or "reply" to the source chain
  MaxBatchMessages, \* maxBatchMessages of the endpoint
  MaxIssued,    \* bound: messages prepared in a behaviour
  MaxGovern     \* bound: changes of participant status or freezes

Sender == {"single", "batch"}       \* MessageSender, BatchMessageSender
Dst    == Chain \union {All}
Target == Resource \union {Direct}

ASSUME MessagingAssumption ==
  /\ IsFiniteSet(Chain)
  /\ Hub \in Chain
  /\ All \notin Chain
  /\ Direct \notin Resource
  /\ Template \subseteq Resource
  /\ Broadcaster \subseteq Chain \ {Hub}
  /\ Origin \subseteq Chain
  /\ Registrar \subseteq Chain
  /\ Kind \subseteq {"plain", "reply"}
  /\ {MaxBatchMessages, MaxIssued, MaxGovern} \subseteq Nat

VARIABLES
  outboundNonce,  \* [Sender -> [Chain -> [Dst -> Nat]]]
  inboundNonce,   \* [Chain -> [Chain -> Nat]] of MessageReceiver
  active,         \* active[c]: chains c's participant list holds as ACTIVE
  frozen,         \* frozen[c]: <<resource, chain>> pairs c's registry froze
  bound,          \* bound[c][r]: what is behind r, see Binding
  deployed,       \* history: deployed[c][r], contracts c deployed for r
  dispatched,     \* messages in a dispatch event, which the relayer reads
  executed,       \* executed[c]: ids marked by the executor of c
  governed,       \* number of governance changes so far (bounded)
  issued,         \* history: every message prepared, in order
  applied         \* history: applied[c], messages whose handler ran on c

vars == <<outboundNonce, inboundNonce, active, frozen, bound, deployed,
          dispatched, executed, governed, issued, applied>>

\* Behind a resource there is nothing, a contract that a delivery deployed, or
\* one that registered itself.
Binding == {"none", "mirror", "registered"}

Request == [dst : Dst, target : Target, kind : Kind]
Message == [sender : Sender, src : Chain, dst : Dst, target : Target,
            kind : Kind \union {"ack"}, nonce : Nat]

Init ==
  /\ outboundNonce = [s \in Sender |-> [c \in Chain |-> [d \in Dst |-> 0]]]
  /\ inboundNonce = [c \in Chain |-> [d \in Chain |-> 0]]
  /\ active = [c \in Chain |-> Chain \ {Hub}]
  /\ frozen = [c \in Chain |-> {}]
  /\ bound = [c \in Chain |-> [r \in Resource |-> "none"]]
  /\ deployed = [c \in Chain |-> [r \in Resource |-> 0]]
  /\ dispatched = {}
  /\ executed = [c \in Chain |-> {}]
  /\ governed = 0
  /\ issued = << >>
  /\ applied = [c \in Chain |-> << >>]

-------------------------------------------------------------------------------
(* Validation of a request at its source                                   *)

\* Both ends must be ACTIVE; the hub always may send and be sent to.
validateMessageParticipants(c, d) ==
  \/ Hub \in {c, d}
  \/ {c, d} \ {All} \subseteq active[c]

\* The resource is frozen neither for the source nor for the destination.
validateTokenForParticipant(c, d, t) ==
  {<<t, c>>, <<t, d>>} \intersect frozen[c] = {}

\* prepareMessage skips the token check on the hub, prepareBatch does not.
Accepts(s, c, d, t) ==
  /\ validateMessageParticipants(c, d)
  /\ (s = "single" /\ c = Hub) \/ validateTokenForParticipant(c, d, t)

-------------------------------------------------------------------------------
(* Preparing messages: nonces and ids                                      *)

\* How many of the first n requests go to d.
CountTo(reqs, n, d) == Cardinality({j \in 1 .. n : reqs[j].dst = d})

NonceOnce(s, c, reqs, i) ==                                          \* mutation
  outboundNonce[s][c][reqs[i].dst] + 1
NonceOf(s, c, reqs, i) ==
  outboundNonce[s][c][reqs[i].dst] + CountTo(reqs, i, reqs[i].dst)

\* The messages prepared for the requests reqs, in order.
Prepare(s, c, reqs) ==
  [i \in 1 .. Len(reqs) |->
     [sender |-> s, src |-> c, dst |-> reqs[i].dst, target |-> reqs[i].target,
      kind |-> reqs[i].kind, nonce |-> NonceOf(s, c, reqs, i)]]

\* Every message of the protocol is prepared with ignoresNonce set.
NonceEnforced == FALSE                                               \* mutation
IgnoresNonce == TRUE

\* Record the messages of Prepare(s, c, reqs) and bump the counters.
Issue(s, c, reqs) ==
  /\ Len(issued) + Len(reqs) <= MaxIssued
  /\ issued' = issued \o Prepare(s, c, reqs)
  /\ outboundNonce' = [outboundNonce EXCEPT ![s][c] =
       [d \in Dst |-> outboundNonce[s][c][d] + CountTo(reqs, Len(reqs), d)]]

-------------------------------------------------------------------------------
(* Receiving on chain c a sequence ms of messages from one source          *)

\* Chain id 0 reaches every chain except the one that sent the message.
AddressedTo(m, c) == m.dst = c \/ (m.dst = All /\ m.src # c)

\* Address resolution: a named contract, a known resource, or a deployment.
ResolvableToZero(c, m, meta) == TRUE                                 \* mutation
Resolvable(c, m, meta) ==
  m.target \in Resource => meta \/ bound[c][m.target] # "none"

\* executeMessage runs an id that was not executed, and does not nest: a
\* handler that answers its own chain would re-enter the executor.
RunnableAgain(c, m) == ~ (m.kind = "reply" /\ m.src = c)             \* mutation
Runnable(c, m) ==
  /\ m \notin executed[c]
  /\ ~ (m.kind = "reply" /\ m.src = c)

NonceAccepted(c, m, i) ==
  IgnoresNonce \/ m.nonce = inboundNonce[c][m.src] + i

\* receivePayload for each message of ms; meta: deployment data is attached.
ReceiveUnmarked(c, ms, meta) ==                                      \* mutation
  /\ \A i \in 1 .. Len(ms) : /\ NonceAccepted(c, ms[i], i)
                             /\ Resolvable(c, ms[i], meta)
                             /\ Runnable(c, ms[i])
  /\ applied' = [applied EXCEPT ![c] = @ \o ms]
  /\ UNCHANGED <<executed, inboundNonce>>
receivePayload(c, ms, meta) ==
  /\ IsInjective(ms)
  /\ \A i \in 1 .. Len(ms) : /\ NonceAccepted(c, ms[i], i)
                             /\ Resolvable(c, ms[i], meta)
                             /\ Runnable(c, ms[i])
  /\ executed' = [executed EXCEPT ![c] = @ \union Range(ms)]
  /\ applied' = [applied EXCEPT ![c] = @ \o ms]
  /\ inboundNonce' = IF IgnoresNonce THEN inboundNonce
                     ELSE [inboundNonce EXCEPT
                             ![c] = [d \in Chain |->
                                inboundNonce[c][d]
                                + (IF \E i \in 1 .. Len(ms) : ms[i].src = d
                                   THEN Len(ms) ELSE 0)]]

\* handleWithResourceId binds a contract it deploys for an unbound resource.
Deploy(c, r) ==
  /\ deployed' = [deployed EXCEPT ![c][r] = @ + 1]
  /\ bound' = [bound EXCEPT ![c][r] = "mirror"]

AlwaysDeploy(c, m, meta) ==                                          \* mutation
  IF m.target \in Resource /\ meta
  THEN Deploy(c, m.target) ELSE UNCHANGED <<deployed, bound>>
handleWithResourceId(c, m, meta) ==
  IF m.target \in Resource /\ meta /\ bound[c][m.target] = "none"
  THEN Deploy(c, m.target) ELSE UNCHANGED <<deployed, bound>>

-------------------------------------------------------------------------------
(* Endpoint operations                                                     *)

\* _send: a message to the own chain runs at once, others are dispatched.
Send(c, req) ==
  LET ms == Prepare("single", c, <<req>>)
  IN /\ Accepts("single", c, req.dst, req.target)
     /\ Issue("single", c, <<req>>)
     /\ \/ /\ req.dst = c
           /\ receivePayload(c, ms, FALSE)
           /\ UNCHANGED dispatched
        \/ /\ req.dst # c
           /\ dispatched' = dispatched \union Range(ms)
           /\ UNCHANGED <<executed, applied, inboundNonce>>
     /\ UNCHANGED <<active, frozen, bound, deployed, governed>>

\* _sendBatch: the messages to the own chain run at once, in order, and then
\* the whole batch is dispatched, those included.
InlineNothing(c, ms) == UNCHANGED <<executed, applied, inboundNonce>> \* mutation
InlineDelivery(c, ms) ==
  \E local \in SetToSeqs({m \in Range(ms) : m.dst = c}) :
    /\ \A i, j \in DOMAIN local : i < j => local[i].nonce < local[j].nonce
    /\ receivePayload(c, local, FALSE)

SendBatch(c, reqs) ==
  LET ms == Prepare("batch", c, reqs)
  IN /\ Len(reqs) < MaxBatchMessages
     /\ \A i \in 1 .. Len(reqs) :
          Accepts("batch", c, reqs[i].dst, reqs[i].target)
     /\ Issue("batch", c, reqs)
     /\ InlineDelivery(c, ms)
     /\ dispatched' = dispatched \union Range(ms)
     /\ UNCHANGED <<active, frozen, bound, deployed, governed>>

\* sendToResourceId with chain id 0 sends one message per ACTIVE participant;
\* one recipient the validators refuse reverts the broadcast for all.
Broadcast(c, r, k) ==
  /\ c \in Broadcaster
  /\ active[c] \ {c} # {}
  /\ \A d \in active[c] \ {c} : Accepts("single", c, d, r)
  /\ \E order \in SetToSeqs(active[c] \ {c}) :
       LET reqs == [i \in 1 .. Len(order) |->
                      [dst |-> order[i], target |-> r, kind |-> k]]
       IN /\ Issue("single", c, reqs)
          /\ dispatched' = dispatched \union Range(Prepare("single", c, reqs))
  /\ UNCHANGED <<inboundNonce, active, frozen, bound, deployed, executed, governed,
                 applied>>

\* registerResourceId of a contract, over whatever is behind r.  Those who may
\* call it (token registries, activated tokens) never register address 0.
RegisterResourceId(c, r) ==
  /\ bound' = [bound EXCEPT ![c][r] = "registered"]
  /\ UNCHANGED <<outboundNonce, inboundNonce, active, frozen, deployed,
                 dispatched, executed, governed, issued, applied>>

\* The relayer hands m to chain c, with the deployment data of its resource
\* when it last saw the resource unbound there (meta).  The handler of a
\* "reply" sends a message back to the source chain in the same transaction.
Deliver(c, m, meta) ==
  LET back == [dst |-> m.src, target |-> Direct, kind |-> "ack"]
  IN /\ AddressedTo(m, c)
     /\ meta => m.target \in Template
     /\ receivePayload(c, <<m>>, meta)
     /\ handleWithResourceId(c, m, meta)
     /\ IF m.kind = "reply"
        THEN /\ Accepts("single", c, m.src, Direct)
             /\ Issue("single", c, <<back>>)
             /\ dispatched' = dispatched
                              \union Range(Prepare("single", c, <<back>>))
        ELSE UNCHANGED <<outboundNonce, issued, dispatched>>
     /\ UNCHANGED <<active, frozen, governed>>

\* The participant list or the freezes chain c validates against change.
Govern(c) ==
  /\ governed < MaxGovern
  /\ governed' = governed + 1
  /\ \/ \E d \in Chain \ {Hub} :
          /\ active' = [active EXCEPT ![c] = SymDiff(@, {d})]
          /\ UNCHANGED frozen
     \/ \E r \in Resource, d \in Chain \ {Hub} :
          /\ frozen' = [frozen EXCEPT ![c] = SymDiff(@, {<<r, d>>})]
          /\ UNCHANGED active
  /\ UNCHANGED <<outboundNonce, inboundNonce, bound, deployed, dispatched,
                 executed, issued, applied>>

Next ==
  \/ \E c \in Origin, req \in Request : Send(c, req)
  \/ \E c \in Origin, n \in 1 .. MaxBatchMessages - 1 :
       \E reqs \in [1 .. n -> Request] : SendBatch(c, reqs)
  \/ \E c \in Origin, r \in Resource, k \in Kind : Broadcast(c, r, k)
  \/ \E c \in Registrar, r \in Resource : RegisterResourceId(c, r)
  \/ \E c \in Chain, m \in dispatched, meta \in BOOLEAN : Deliver(c, m, meta)
  \/ \E c \in Chain : Govern(c)

Spec == Init /\ [][Next]_vars

-------------------------------------------------------------------------------
(* Properties                                                              *)

\* The variables keep their types.
TypeOK ==
  /\ outboundNonce \in [Sender -> [Chain -> [Dst -> Nat]]]
  /\ inboundNonce \in [Chain -> [Chain -> Nat]]
  /\ active \in [Chain -> SUBSET (Chain \ {Hub})]
  /\ frozen \in [Chain -> SUBSET (Resource \X Chain)]
  /\ bound \in [Chain -> [Resource -> Binding]]
  /\ deployed \in [Chain -> [Resource -> Nat]]
  /\ dispatched \subseteq Message
  /\ executed \in [Chain -> SUBSET Message]
  /\ governed \in 0 .. MaxGovern
  /\ issued \in Seq(Message)
  /\ applied \in [Chain -> Seq(Message)]

\* Whatever the relayer repeats, and although a batch dispatches again the
\* messages it ran itself, no chain runs the handler of a message twice.
AtMostOnce == \A c \in Chain : IsInjective(applied[c])

\* Two messages never share an id, be they identical requests in one batch,
\* in two, or one through each sender: otherwise the second would never run.
FreshIds == IsInjective(issued)

\* A message whose contract does not exist yet is not used up: the executor
\* refuses to call an address without code, and the message can be retried.
NothingSwallowed ==
  \A c \in Chain : \A i \in DOMAIN applied[c] :
    applied[c][i].target \in Resource => bound[c][applied[c][i].target] # "none"

\* A batch in the log has run its own-chain messages: it is all or nothing.
LocalLegsDone == \A m \in dispatched : m.dst = m.src => m \in executed[m.dst]

\* The answers sent are exactly one per question run, whatever is redelivered.
EachReplyOnce ==
  Cardinality({i \in DOMAIN issued : issued[i].kind = "ack"})
    = Cardinality({p \in Chain \X Range(issued) :
                     p[2].kind = "reply" /\ p[2] \in executed[p[1]]})

\* Relayed messages that carry deployment data race for the resource with one
\* another and with registrations that replace what is bound: a chain deploys
\* one mirror of a resource at most, so its state is never split over two.
OneMirror == \A c \in Chain, r \in Resource : deployed[c][r] <= 1

-------------------------------------------------------------------------------
(* The messaging layer implements the bus                                  *)

Bus == INSTANCE MessageBus
         WITH Addressed <- AddressedTo,
              sent <- Range(issued),
              run <- applied

\* Sending and relaying, seen from outside, is the bus of MessageBus.
ImplementsBus == Bus!Spec

-------------------------------------------------------------------------------
(* Liveness: the relayer keeps delivering what was dispatched              *)

\* The i-th message prepared, once it is in a dispatch event, reaches chain c.
DeliverIssued(c, i) ==
  /\ i \in DOMAIN issued
  /\ issued[i] \in dispatched
  /\ \E meta \in BOOLEAN : Deliver(c, issued[i], meta)

FairSpec ==
  Spec /\ \A c \in Chain, i \in 1 .. MaxIssued : WF_vars(DeliverIssued(c, i))

\* A dispatched message that names a contract or a deployable resource runs on
\* every chain it is addressed to: no other message can block it.
Owed(c, i) ==
  /\ i \in DOMAIN issued
  /\ issued[i] \in dispatched
  /\ issued[i].kind # "reply"
  /\ issued[i].target \in Template \union {Direct}
  /\ AddressedTo(issued[i], c)

EveryMessageRuns ==
  \A c \in Chain, i \in 1 .. MaxIssued :
    Owed(c, i) ~> (i \in DOMAIN issued /\ issued[i] \in executed[c])
===============================================================================

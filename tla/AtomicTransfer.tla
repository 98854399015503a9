--------------------------- MODULE AtomicTransfer ---------------------------
(***************************************************************************)
(* What an atomic teleport promises, without a hub, a relayer or a lock:   *)
(* a transfer takes its value from the sender's wallet when it begins, and *)
(* it then ends at most once, either by paying the recipient or by paying  *)
(* the sender back.  docs/ATOMIC_TELEPORT_TECHNICAL_GUIDE.md states it as  *)
(* "success: asset on destination, gone from origin; failure: asset        *)
(* remains on origin; never lost, never duplicated".                       *)
(* AtomicTeleport is shown to implement this specification.                *)
(***************************************************************************)
EXTENDS Naturals

CONSTANTS Chain,        \* the privacy nodes a token lives on
          Account,      \* user accounts
          Token,        \* the token contract's own address
          Id,           \* message ids; each names at most one transfer
          Amount,       \* the amounts a user may send
          InitBalance,  \* what every account holds at first, on every chain
          NoTransfer    \* the id has not been used

VARIABLES wallet,    \* what each account can spend on each chain
          transfer,  \* the transfer an id names
          outcome    \* where it stands

vars == <<wallet, transfer, outcome>>

Transfer == [src : Chain, dst : Chain, from : Account,
             to : Account \cup {Token}, value : Amount]

Outcomes == {"unused", "inflight", "delivered", "refunded"}

\* Credit account a of a chain; the token contract has no wallet of its own.
Pay(w, c, a, v) == [w EXCEPT ![c] = [b \in Account |->
                        IF b = a THEN w[c][b] + v ELSE w[c][b]]]

Init == /\ wallet = [c \in Chain |-> [a \in Account |-> InitBalance]]
        /\ transfer = [id \in Id |-> NoTransfer]
        /\ outcome = [id \in Id |-> "unused"]

Begin(id, t) ==
  /\ outcome[id] = "unused"
  /\ t.src # t.dst
  /\ wallet[t.src][t.from] >= t.value
  /\ wallet' = [wallet EXCEPT ![t.src][t.from] = @ - t.value]
  /\ transfer' = [transfer EXCEPT ![id] = t]
  /\ outcome' = [outcome EXCEPT ![id] = "inflight"]

Deliver(id) ==
  /\ outcome[id] = "inflight"
  /\ LET t == transfer[id] IN wallet' = Pay(wallet, t.dst, t.to, t.value)
  /\ outcome' = [outcome EXCEPT ![id] = "delivered"]
  /\ UNCHANGED transfer

Refund(id) ==
  /\ outcome[id] = "inflight"
  /\ LET t == transfer[id] IN wallet' = Pay(wallet, t.src, t.from, t.value)
  /\ outcome' = [outcome EXCEPT ![id] = "refunded"]
  /\ UNCHANGED transfer

Next == \E id \in Id : \/ \E t \in Transfer : Begin(id, t)
                       \/ Deliver(id)
                       \/ Refund(id)

Spec == Init /\ [][Next]_vars
=============================================================================

----------------------------- MODULE AtomicSwap -----------------------------
(***************************************************************************)
(* What delivery versus payment promises, without vaults, locks or time:   *)
(* an offer names what it gives and what it wants.  Its owner pledges it;  *)
(* a pledged offer settles together with an open one that it matches, or   *)
(* is refunded.  An offer can also be used outside any swap, which is not  *)
(* atomic: an open one can be mixed, and any one can be withdrawn until it *)
(* has ended.  Nothing follows an end.  DvpSwap is shown to implement this *)
(* exchange.                                                               *)
(***************************************************************************)
CONSTANTS Offer,   \* the offers made
          Gives,   \* [Offer -> coins]
          Wants    \* [Offer -> coins]

VARIABLE outcome   \* what became of each offer

Init == outcome = [o \in Offer |-> "open"]

Match(p, q) == Gives[p] = Wants[q] /\ Gives[q] = Wants[p]

Becomes(o, end) == outcome' = [outcome EXCEPT ![o] = end]

Pledge(o) == outcome[o] = "open" /\ Becomes(o, "pledged")

Settle(p, q) ==
  /\ p # q /\ Match(p, q)
  /\ outcome[p] = "pledged" /\ outcome[q] = "open"
  /\ outcome' = [outcome EXCEPT ![p] = "settled", ![q] = "settled"]

Refund(o) == outcome[o] = "pledged" /\ Becomes(o, "refunded")

Mix(o) == outcome[o] = "open" /\ Becomes(o, "mixed")

Withdraw(o) == outcome[o] \in {"open", "pledged"} /\ Becomes(o, "withdrawn")

Next == \/ \E p, q \in Offer : Settle(p, q)
        \/ \E o \in Offer : Pledge(o) \/ Refund(o) \/ Mix(o) \/ Withdraw(o)

Spec == Init /\ [][Next]_outcome
=============================================================================

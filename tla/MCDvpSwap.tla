------------------------------ MODULE MCDvpSwap ------------------------------
(***************************************************************************)
(* Model checking of DvpSwap: Alice holds a payment coin p of value 2, Bob *)
(* and Carol hold one NFT each.  Alice can offer p to Bob, who gets 1 of   *)
(* it, or all of it to Carol, withdraw 1 of it with a change that is lost, *)
(* or mix it; Bob can withdraw what he was paid and transfer his NFT       *)
(* instead.  Every offer can also be transferred by itself, and the coin   *)
(* that Alice's offer gives Bob can be opened, so it can be withdrawn.     *)
(***************************************************************************)
EXTENDS DvpSwap

Vaults == {"enygma", "nft"}
Deposits == {"p", "n", "m"}
Swapped == {"a1", "a1c", "a1b", "b1", "b1b", "a2", "a2b", "c2", "c2b"}
Others == {"w", "wc", "t1", "t2", "u", "g"}
Coins == Deposits \union Swapped \union Others

NftCoins == {"n", "m", "b1", "b1b", "c2", "c2b", "g"}
Homes == [c \in Coins |-> IF c \in NftCoins THEN "nft" ELSE "enygma"]
Values == [c \in Coins |-> IF c \in {"p", "a1b", "a2", "a2b"} THEN 2 ELSE 1]

Pay(ins, out, change, back, message) ==
  [vault |-> "enygma", kind |-> "Payment", ins |-> ins, out |-> out,
   change |-> change, back |-> back, message |-> message]
Deliver(ins, out, back, message) ==
  [vault |-> "nft", kind |-> "Delivery", ins |-> ins, out |-> out,
   change |-> "0", back |-> back, message |-> message]

Receipts ==
  {Pay({"p"}, "a1", "a1c", "a1b", "b1"),     \* Alice buys from Bob
   Deliver({"n"}, "b1", "b1b", "a1"),        \* Bob sells to Alice
   Pay({"p"}, "a2", "0", "a2b", "c2"),       \* Alice buys from Carol
   Deliver({"m"}, "c2", "c2b", "a2"),        \* Carol sells to Alice
   Pay({"p"}, "w", "wc", "0", "0"),          \* Alice withdraws 1
   Pay({"p"}, "t1", "t2", "0", "0"),         \* Alice mixes p
   Pay({"a1"}, "u", "0", "0", "0"),          \* Bob withdraws his pay
   Deliver({"n"}, "g", "0", "0")}            \* Bob gives his NFT away

Openings == {"w", "u", "g", "a1"}

Groups == {<<"Payment", "enygma">>, <<"Delivery", "nft">>}
===============================================================================

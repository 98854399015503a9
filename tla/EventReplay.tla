----------------------------- MODULE EventReplay -----------------------------
(***************************************************************************)
(* How the audits rebuild what an access manager holds from its events:    *)
(* one stream of additions and one of removals, fetched in windows of      *)
(* blocks and replayed in the order of the chain.                          *)
(* log is what the manager emitted, a sequence of [kind, key]; a position  *)
(* stands for the event's place in (block, index) order.                   *)
(***************************************************************************)
EXTENDS Naturals, Sequences

Kinds == {"add", "remove"}
Event(kind, key) == [kind |-> kind, key |-> key]

\* The last fetched event of a key decides.
Replayed(log, got) ==
  {log[i].key : i \in {n \in got : /\ log[n].kind = "add"
                                   /\ \A m \in got : m > n => log[m] # Event("remove", log[n].key)}}
=============================================================================

------------------------------ MODULE MessageBus ------------------------------
(***************************************************************************)
(* What the cross-chain messaging layer promises its applications: a       *)
(* message that was sent is run by the chains it is addressed to, by each  *)
(* at most once, in no particular order, and never anywhere else.  Sending *)
(* and running may happen in one step: a message to the sender's own chain *)
(* runs inside the call that sends it, and the handler of a message may    *)
(* send another one.                                                       *)
(***************************************************************************)
EXTENDS Sequences, SequencesExt

CONSTANTS Chain,            \* the blockchains
          Addressed(_, _)   \* Addressed(m, c): message m may run on chain c

VARIABLES sent,     \* the messages sent so far, in no particular order
          run       \* run[c]: the messages chain c has run, oldest first

Init == /\ sent = {}
        /\ run = [c \in Chain |-> << >>]

\* Chain c runs the messages of the sequence ms, each for the first time.
Run(c, ms) ==
  /\ IsInjective(ms)
  /\ \A i \in DOMAIN ms : /\ ms[i] \in sent'
                          /\ Addressed(ms[i], c)
                          /\ \A k \in DOMAIN run[c] : run[c][k] # ms[i]
  /\ run' = [run EXCEPT ![c] = @ \o ms]

\* Messages are added to those sent, and one chain runs some of them.
Next == /\ sent \subseteq sent'
        /\ \E c \in Chain :
             Run(c, SubSeq(run'[c], Len(run[c]) + 1, Len(run'[c])))

Spec == Init /\ [][Next]_<<sent, run>>
===============================================================================

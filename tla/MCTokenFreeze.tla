---------------------------- MODULE MCTokenFreeze ----------------------------
(* Model checking of TokenFreeze.                                          *)
EXTENDS TokenFreeze, TLC

CONSTANTS a, b, t

OneIssuer  == (t :> a)

\* What the operator passes: one chain, two, or one chain twice.
PlainLists    == {<<a>>, <<b>>, <<a, b>>}
RepeatedLists == {<<a>>, <<a, a>>}
==============================================================================

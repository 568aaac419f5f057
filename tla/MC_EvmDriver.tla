---------------------------- MODULE MC_EvmDriver ----------------------------
(* Model-checking instance of EvmDriver: two addresses, one code hash, one  *)
(* storage location.                                                        *)
EXTENDS EvmDriver

CONSTANTS a1, a2, h1, k1, k2

MCAddr == {a1, a2}
MCHash == {h1}
MCKeys == {k1}

\* Two locations, so that a gc budget can run out inside a storage scope.
MCKeys2 == {k1, k2}
=============================================================================

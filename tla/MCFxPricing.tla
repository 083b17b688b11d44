----------------------------- MODULE MCFxPricing -----------------------------
(* Trades on one pair, and requests whose pair is not known.                  *)
EXTENDS FxPricing, TLC

CONSTANTS t1, t2, t3, EURUSD, Misspelt

MCPairOf == [t \in Trade |-> IF t \in Misspelt THEN Unknown ELSE EURUSD]
Symmetry == Permutations(Trade)
==============================================================================

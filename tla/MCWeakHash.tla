----------------------------- MODULE MCWeakHash -----------------------------
\* Two tables of either weakness, or of the kind whose keys and values are
\* both weak.
EXTENDS WeakHash

CONSTANTS o1, o2, h1, h2

KeysVals == (h1 :> "keys") @@ (h2 :> "vals")
BothNone == (h1 :> "both") @@ (h2 :> "none")
=============================================================================

---------------------------- MODULE MCHashCache ----------------------------
EXTENDS HashCache

CONSTANTS a, b, c

MCContentHash == (a :> 1) @@ (b :> 3) @@ (c :> 8)
=============================================================================

-------------------------------- MODULE MCGc --------------------------------
\* Instances of Gc for TLC.  Cells are interchangeable: nothing in Gc orders
\* them or picks one by CHOOSE.
EXTENDS GcMutators, TLC

CellSymmetry == Permutations(Cell)
=============================================================================

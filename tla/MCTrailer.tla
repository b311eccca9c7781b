----------------------------- MODULE MCTrailer ------------------------------
EXTENDS Trailer, TLC

CONSTANTS b1, e1
=============================================================================

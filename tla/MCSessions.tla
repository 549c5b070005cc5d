------------------------------ MODULE MCSessions ------------------------------
EXTENDS Sessions, TLC

CONSTANTS a, b

MCContexts == {a, b}
MCSymmetry == Permutations(MCContexts)
=============================================================================

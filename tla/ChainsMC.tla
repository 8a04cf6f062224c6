------------------------------ MODULE ChainsMC ------------------------------
EXTENDS ChainsProps

CONSTANTS w1, w2
=============================================================================

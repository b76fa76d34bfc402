------------------------------- MODULE MCArena -------------------------------
\* Arena for TLC.
EXTENDS Arena
=============================================================================

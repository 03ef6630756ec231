------------------------------ MODULE MCHooks ------------------------------
EXTENDS Hooks, TLC
=============================================================================

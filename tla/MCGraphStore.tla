----------------------------- MODULE MCGraphStore -----------------------------
EXTENDS GraphStore
CONSTANTS a, b
OneLegacy == {[nodes |-> [i \in {a} |-> "v1"], edges |-> {}]}
Pair == {<<a, b>>}
=============================================================================

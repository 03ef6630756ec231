---------------------------- MODULE DurableGraph ----------------------------
(***************************************************************************)
(* What graph persistence promises (graph/store.py): the process works on  *)
(* a graph in memory; saving makes the stored graph equal to it as a       *)
(* whole, a process that starts works on the stored graph, and a restored  *)
(* snapshot replaces both.                                                 *)
(***************************************************************************)
CONSTANT Graphs  \* every graph there can be
VARIABLES memory, stored

Init == memory = stored /\ stored \in Graphs

Update == memory' \in Graphs /\ UNCHANGED stored
Save == stored' = memory /\ UNCHANGED memory
Reload == memory' = stored /\ UNCHANGED stored
Restore == memory' \in Graphs /\ stored' = memory'

Next == Update \/ Save \/ Reload \/ Restore
Spec == Init /\ [][Next]_<<memory, stored>>
=============================================================================
